------------------------------ MODULE KeyQueue ------------------------------
(***************************************************************************)
(* The lanes of asyncengine/strategy.go: producers that send tasks into a   *)
(* bounded channel, the mandatory backlog of handle releases and section    *)
(* barriers that shares the lane, the worker that serves both, the submit   *)
(* registration that orders producers against a stop, and the exclusive     *)
(* section state that lanes look at.                                        *)
(*                                                                         *)
(* An operation (o \in Ops) is one call of a public method that submits one *)
(* task for the routing key OpKey[o].  A closing operation owns a native    *)
(* handle that must be released even when its submit fails.  A lane is one  *)
(* keyQueue value with its worker goroutine.  The strategies (modules       *)
(* Sharded and Dynamic) route operations to lanes and supply Init and Next. *)
(*                                                                         *)
(* A ctx that fires is a choice made where the code looks at the ctx, for   *)
(* the operations in Cancellable; the others run with a ctx that never ends.*)
(***************************************************************************)
EXTENDS Integers, Sequences, FiniteSets

CONSTANTS
    Ops,          \* submit calls
    Keys,         \* routing keys
    OpKey,        \* the routing key of each call
    Closing,      \* the calls that own a handle (submitWithFailureHandoff)
    Cancellable,  \* the calls whose ctx may fire
    Lanes,        \* keyQueue values
    NoLane,       \* no keyQueue
    Capacity,     \* cap(q.ch)
    TracksIdle,   \* base.tracksIdle: q.pending is maintained
    Sections,     \* Exclusive calls
    NoSection     \* base.activeSection = nil

ASSUME ConstantsAssumption ==
    /\ IsFiniteSet(Ops)
    /\ OpKey \in [Ops -> Keys]
    /\ Closing \subseteq Ops
    /\ Cancellable \subseteq Ops
    /\ NoLane \notin Lanes
    /\ Capacity \in Nat \ {0}
    /\ TracksIdle \in BOOLEAN
    /\ NoSection \notin Sections
    /\ Ops \cap Sections = {}

VARIABLES
    \* Producers.
    pc,        \* where each operation is in its submit call
    at,        \* the lane it works on
    ticket,    \* the ticket admitTask returned
    seen,      \* the mandatoryProgress value it waits on
    reg,       \* TRUE while it owes its endSubmit
    \* Lanes.
    ch,        \* q.ch: accepted tasks, oldest first
    closed,    \* q.closed
    retired,   \* q.retired; q.quit is closed in the same critical section
    backlog,   \* q.mandatory
    progress,  \* entries removed from q.mandatory: the mandatoryProgress epoch
    wake,      \* a token is in q.mandatoryWake
    admitted,  \* q.admitted
    settled,   \* q.settled
    pending,   \* q.pending
    \* Workers.
    wpc,       \* where the worker of each lane is
    cur,       \* what it handles
    wfence,    \* waitSubmitFence of the last takeMandatoryCleanup
    ended,     \* channelClosed \/ laneRetired
    \* Submit registration and stop signals.
    stopped,   \* stopCh is closed
    hard,      \* hardStopCh is closed
    inFlight,  \* inFlightSubmits
    fence,     \* submitFenceCh is closed
    crashed,   \* a send on a closed channel panicked
    \* Handle releases that run off the lanes.
    tracked,   \* operations counted by lifecycleCleanupCount
    sealed,    \* lifecycleCleanupSealed
    \* Exclusive sections.
    spc,       \* where each Exclusive call is
    active,    \* activeSection
    todo,      \* lanes that still need their barrier
    expected,  \* section.expected
    parked,    \* barriers that reported
    aborted,   \* section.aborted is closed
    deferred,  \* section.deferred
    \* What the callers see, and history the properties talk about.
    outcome,   \* how each operation's future was resolved, in order
    accepted,  \* tasks ever placed in each lane's channel
    handled,   \* tasks taken from it and run or aborted
    owes,      \* releases queued for the key when the operation began
    early      \* the submit fence was closed with a producer in flight

submitVars  == <<pc, at, ticket, seen, reg>>
laneVars    == <<ch, closed, retired, backlog, progress, wake, admitted,
                 settled, pending>>
workerVars  == <<wpc, cur, wfence, ended>>
stopVars    == <<stopped, hard, inFlight, fence>>
cleanupVars == <<tracked, sealed>>
sectionVars == <<spc, active, todo, expected, parked, aborted, deferred>>
historyVars == <<accepted, handled, owes, early>>

-----------------------------------------------------------------------------
(* Entries of the backlog.  The same records describe the task a worker     *)
(* handles.  before is history: the tasks the lane had accepted when the    *)
(* entry took its cutoff.  late is history: the entry was queued with       *)
(* waitSubmitFence.                                                         *)

Entry(kind, op, l, waitSubmitFence) ==
    [kind |-> kind, op |-> op,
     cutoff |-> admitted[l], target |-> admitted[l], wsf |-> waitSubmitFence,
     before |-> accepted[l], late |-> waitSubmitFence]

TaskEntry(o) ==
    [kind |-> "task", op |-> o, cutoff |-> 0, target |-> 0, wsf |-> FALSE,
     before |-> 0, late |-> FALSE]

NoEntry ==
    [kind |-> "none", op |-> "none", cutoff |-> 0, target |-> 0, wsf |-> FALSE,
     before |-> 0, late |-> FALSE]

EntryType ==
    [kind : {"none", "task", "release", "barrier"},
     op : Ops \cup Sections \cup {"none"},
     cutoff : Nat, target : Nat, wsf : BOOLEAN, before : Nat, late : BOOLEAN]

\* The bump of q.pending by d, for the strategies that track idle lanes.
PendingBump(l, d) ==
    pending' = [pending EXCEPT ![l] = IF TracksIdle THEN @ + d ELSE @]

\* enqueueMandatory refuses a lane that is retired or whose worker has exited.
TakesMandatory(l) == ~retired[l] /\ wpc[l] # "exited"

\* Variant of EnqueueMandatory: the worker gets no wake token.
EnqueueMandatoryNoWake(l, e) ==
    /\ TakesMandatory(l)
    /\ backlog' = [backlog EXCEPT ![l] = Append(@, e)]
    /\ PendingBump(l, 1)
    /\ UNCHANGED <<ch, closed, retired, progress, wake, admitted, settled>>

\* enqueueMandatory.  The wake token follows the append at once: until it is
\* there the worker is only delayed.
EnqueueMandatory(l, e) ==
    /\ TakesMandatory(l)
    /\ backlog' = [backlog EXCEPT ![l] = Append(@, e)]
    /\ wake' = [wake EXCEPT ![l] = TRUE]
    /\ PendingBump(l, 1)
    /\ UNCHANGED <<ch, closed, retired, progress, admitted, settled>>

\* pendingCleanupForLocked: the positions of the releases queued for key k.
ReleasesFor(l, k) ==
    {i \in DOMAIN backlog[l] :
        backlog[l][i].kind = "release" /\ OpKey[backlog[l][i].op] = k}

FirstReleaseFor(l, k) ==
    backlog[l][CHOOSE i \in ReleasesFor(l, k) :
                  \A j \in ReleasesFor(l, k) : i <= j]

-----------------------------------------------------------------------------
(* Registration of producers.                                               *)

\* Variant of Return: endSubmit runs even if beginSubmit refused the call.
ReturnAlwaysEnds(o) == "end"

\* Where a submit call goes once it has nothing left to do but return.
Return(o) == IF reg[o] THEN "end" ELSE "done"

\* A submit attempt ends in an error.  The caller of submit resolves the
\* future with it; submitWithFailureHandoff calls onFailure, which schedules
\* the release of the handle and leaves the future to it.
Fail(o) ==
    /\ pc' = [pc EXCEPT ![o] = IF o \in Closing THEN "handoff" ELSE Return(o)]
    /\ outcome' = IF o \in Closing THEN outcome
                  ELSE [outcome EXCEPT ![o] = Append(@, "failed")]

\* beginSubmit at the head of a submit call; first is the step that follows it.
BeginSubmit(o, first) ==
    /\ pc[o] = "idle"
    /\ IF stopped
       THEN /\ Fail(o)
            /\ UNCHANGED <<reg, inFlight, owes>>
       ELSE /\ inFlight' = inFlight + 1
            /\ reg' = [reg EXCEPT ![o] = TRUE]
            /\ pc' = [pc EXCEPT ![o] = first]
            /\ owes' = [owes EXCEPT ![o] =
                  {r \in Closing : \E l \in Lanes :
                      \E i \in ReleasesFor(l, OpKey[o]) : backlog[l][i].op = r}]
            /\ UNCHANGED outcome
    /\ UNCHANGED <<at, ticket, seen, laneVars, workerVars, stopped, hard, fence,
                   crashed, cleanupVars, sectionVars, accepted, handled, early>>

\* The first half of endSubmit, inFlightSubmits.Add(-1).  Only the producer
\* that brings the counter to zero goes on to look at stopCh.
LeaveSubmit(o, from, test, next) ==
    /\ pc[o] = from
    /\ inFlight' = inFlight - 1
    /\ pc' = [pc EXCEPT ![o] = IF inFlight = 1 THEN test ELSE next]

\* The second half of endSubmit: isStopped and the close of submitFenceCh.
\* No lock is held since the decrement.
TestStop(o, test, next) ==
    /\ pc[o] = test
    /\ fence' = (fence \/ stopped)
    /\ early' = (early \/ (stopped /\ ~fence /\ inFlight # 0))
    /\ pc' = [pc EXCEPT ![o] = next]
    /\ UNCHANGED <<at, ticket, seen, reg, laneVars, workerVars, stopped, hard,
                   inFlight, crashed, cleanupVars, sectionVars, outcome,
                   accepted, handled, owes>>

\* The deferred endSubmit of a submit call.
EndSubmit(o) ==
    /\ LeaveSubmit(o, "end", "endTest", "done")
    /\ reg' = [reg EXCEPT ![o] = FALSE]
    /\ UNCHANGED <<at, ticket, seen, laneVars, workerVars, stopped, hard, fence,
                   crashed, cleanupVars, sectionVars, outcome, historyVars>>

EndSubmitTest(o) == TestStop(o, "endTest", "done")

-----------------------------------------------------------------------------
(* sendToQueue.                                                             *)

\* The framing of a step that moves only the producer itself.
ProducerFrame ==
    UNCHANGED <<at, ticket, reg, laneVars, workerVars, stopVars, crashed,
                cleanupVars, sectionVars, historyVars>>

\* Variant of WaitForMandatoryCleanup: no release holds a producer back.
WaitForNothing(o) ==
    /\ pc[o] = "wait"
    /\ pc' = [pc EXCEPT ![o] = "admit"]
    /\ UNCHANGED <<seen, outcome>>
    /\ ProducerFrame

\* waitForMandatoryCleanup: a queued release for the key holds the producer,
\* unless the release itself waits for the producers registered before stop.
WaitForMandatoryCleanup(o) ==
    LET l == at[o]
        k == OpKey[o]
        free == \/ ReleasesFor(l, k) = {}
                \/ FirstReleaseFor(l, k).wsf /\ stopped
    IN  /\ pc[o] = "wait"
        /\ pc' = [pc EXCEPT ![o] = IF free THEN "admit" ELSE "fenced"]
        /\ seen' = [seen EXCEPT ![o] = IF free THEN @ ELSE progress[l]]
        /\ UNCHANGED outcome
        /\ ProducerFrame

\* The select of waitForMandatoryCleanup, <-progress.
FenceProgress(o) ==
    /\ pc[o] = "fenced"
    /\ progress[at[o]] > seen[o]
    /\ pc' = [pc EXCEPT ![o] = "wait"]
    /\ UNCHANGED <<seen, outcome>>
    /\ ProducerFrame

\* The select of waitForMandatoryCleanup, <-b.stopCh.
FenceStopped(o) ==
    /\ pc[o] = "fenced"
    /\ stopped
    /\ Fail(o)
    /\ UNCHANGED seen
    /\ ProducerFrame

\* The ctx fires while the producer is fenced, or has fired before it admits.
CancelBeforeAdmit(o) ==
    /\ pc[o] \in {"fenced", "admit"}
    /\ o \in Cancellable
    /\ Fail(o)
    /\ UNCHANGED seen
    /\ ProducerFrame

\* admitTask.
AdmitTask(o) ==
    LET l == at[o]
    IN  /\ pc[o] = "admit"
        /\ admitted' = [admitted EXCEPT ![l] = @ + 1]
        /\ ticket' = [ticket EXCEPT ![o] = admitted[l] + 1]
        /\ PendingBump(l, 1)
        /\ pc' = [pc EXCEPT ![o] = "send"]
        /\ UNCHANGED <<at, seen, reg, ch, closed, retired, backlog, progress,
                       wake, settled, workerVars, stopVars, crashed,
                       cleanupVars, sectionVars, outcome, historyVars>>

\* q.ch itself is closed only by closeQueueChannels, never by a retirement.
ChannelClosed(l) == closed[l] /\ ~retired[l]

\* A send into q.ch, on the fast path or after waiting.
SendTask(o) ==
    LET l == at[o]
    IN  /\ pc[o] \in {"send", "blocked"}
        /\ ~ChannelClosed(l)
        /\ Len(ch[l]) < Capacity
        /\ ch' = [ch EXCEPT ![l] = Append(@, o)]
        /\ accepted' = [accepted EXCEPT ![l] = @ + 1]
        /\ pc' = [pc EXCEPT ![o] = "end"]
        /\ UNCHANGED <<at, ticket, seen, reg, closed, retired, backlog,
                       progress, wake, admitted, settled, pending, workerVars,
                       stopVars, crashed, cleanupVars, sectionVars, outcome,
                       handled, owes, early>>

\* A select that sends on a closed channel panics, and the process with it.
SendOnClosed(o) ==
    /\ pc[o] \in {"send", "blocked"}
    /\ ChannelClosed(at[o])
    /\ crashed' = TRUE
    /\ UNCHANGED <<submitVars, laneVars, workerVars, stopVars, cleanupVars,
                   sectionVars, outcome, historyVars>>

\* The channel is full: the default branch of the fast path.
SendBlocks(o) ==
    /\ pc[o] = "send"
    /\ ~ChannelClosed(at[o])
    /\ Len(ch[at[o]]) >= Capacity
    /\ pc' = [pc EXCEPT ![o] = "blocked"]
    /\ UNCHANGED <<seen, outcome>>
    /\ ProducerFrame

\* Variant of RaiseTargets: abandoned admissions count as settled work.
RaiseNoTargets(entries, t) == entries

\* The entries whose cutoff lies before ticket t, their target raised by one.
RaiseTargets(entries, t) ==
    [i \in DOMAIN entries |->
        IF t > entries[i].cutoff
        THEN [entries[i] EXCEPT !.target = @ + 1]
        ELSE entries[i]]

\* unmarkSent: the abandoned admission settles, and the entries it does not
\* belong to move their target along with it.
UnmarkSent(l, t) ==
    /\ settled' = [settled EXCEPT ![l] = @ + 1]
    /\ backlog' = [backlog EXCEPT ![l] = RaiseTargets(@, t)]
    /\ wake' = [wake EXCEPT ![l] = @ \/ backlog[l] # <<>>]
    /\ PendingBump(l, -1)

\* The rest of the blocked select: <-ctx.Done() and <-b.stopCh.
AbandonSend(o, reason) ==
    /\ pc[o] = "blocked"
    /\ \/ reason = "ctx" /\ o \in Cancellable
       \/ reason = "stop" /\ stopped
    /\ UnmarkSent(at[o], ticket[o])
    /\ Fail(o)
    /\ UNCHANGED <<at, ticket, seen, reg, ch, closed, retired, progress,
                   admitted, workerVars, stopVars, crashed, cleanupVars,
                   sectionVars, historyVars>>

-----------------------------------------------------------------------------
(* The worker.                                                              *)

Resolve(o, how) == outcome' = [outcome EXCEPT ![o] = Append(@, how)]

WorkerFrame ==
    UNCHANGED <<submitVars, closed, retired, admitted, stopVars, crashed,
                cleanupVars, owes, early>>

\* Variant of Head1: the cutoff is not taken again after the submit fence.
Head1Stale(l) == [Head(backlog[l]) EXCEPT !.wsf = FALSE]

\* takeMandatoryCleanup: the head entry as it is after the submit fence.
Head1(l) ==
    LET e == Head(backlog[l])
    IN  IF e.wsf THEN [e EXCEPT !.wsf = FALSE, !.cutoff = admitted[l],
                                !.target = admitted[l], !.before = accepted[l]]
        ELSE e

\* The head waits for the producers registered before stop.
WaitsFence(l) == backlog[l] # <<>> /\ Head(backlog[l]).wsf /\ ~fence

\* takeMandatoryCleanup reports ready and removes the head.
MandatoryReady(l) ==
    /\ backlog[l] # <<>>
    /\ ~WaitsFence(l)
    /\ settled[l] >= Head1(l).target

\* takeMandatoryCleanup with ready = true, then handleTask or handleBarrier up
\* to the run or the abort.  A hard stop seen between the two could as well
\* have come before.
TakeMandatory(l) ==
    LET e == Head1(l)
    IN  /\ wpc[l] = "poll"
        /\ MandatoryReady(l)
        /\ backlog' = [backlog EXCEPT ![l] = Tail(@)]
        /\ progress' = [progress EXCEPT ![l] = @ + 1]
        /\ cur' = [cur EXCEPT ![l] = e]
        /\ IF e.kind = "barrier"
           THEN /\ wpc' = [wpc EXCEPT ![l] = IF hard THEN "held" ELSE "barrier"]
                /\ aborted' = [aborted EXCEPT ![e.op] = @ \/ hard]
           ELSE /\ wpc' = [wpc EXCEPT ![l] = IF hard THEN "abort" ELSE "run"]
                /\ UNCHANGED aborted
        /\ UNCHANGED <<ch, wake, settled, pending, wfence, ended, spc, active,
                       todo, expected, parked, deferred, outcome, accepted,
                       handled>>
        /\ WorkerFrame

\* takeMandatoryCleanup with ready = false.  The refreshed head is kept.
NoMandatory(l) ==
    /\ wpc[l] = "poll"
    /\ ~MandatoryReady(l)
    /\ backlog' = IF backlog[l] = <<>> \/ WaitsFence(l) THEN backlog
                  ELSE [backlog EXCEPT ![l][1] = Head1(l)]
    /\ wfence' = [wfence EXCEPT ![l] = WaitsFence(l)]
    /\ wpc' = [wpc EXCEPT ![l] = IF ended[l] THEN "finish" ELSE "select"]
    /\ UNCHANGED <<ch, progress, wake, settled, pending, cur, ended,
                   sectionVars, outcome, accepted, handled>>
    /\ WorkerFrame

\* The worker's select takes a task, and handleTask begins it.
Receive(l) ==
    /\ wpc[l] = "select"
    /\ ch[l] # <<>>
    /\ ch' = [ch EXCEPT ![l] = Tail(@)]
    /\ cur' = [cur EXCEPT ![l] = TaskEntry(Head(ch[l]))]
    /\ wpc' = [wpc EXCEPT ![l] = IF hard THEN "abort" ELSE "run"]
    /\ UNCHANGED <<backlog, progress, wake, settled, pending, wfence, ended,
                   sectionVars, outcome, accepted, handled>>
    /\ WorkerFrame

\* The task or release ends: its future is resolved, q.pending drops and, for
\* a task of the channel, settle.
Complete(l) ==
    LET e == cur[l]
        task == e.kind = "task"
    IN  /\ wpc[l] \in {"run", "abort"}
        /\ Resolve(e.op, IF ~task THEN "failed"
                         ELSE IF wpc[l] = "run" THEN "ran" ELSE "aborted")
        /\ settled' = [settled EXCEPT ![l] = IF task THEN @ + 1 ELSE @]
        /\ handled' = [handled EXCEPT ![l] = IF task THEN @ + 1 ELSE @]
        /\ PendingBump(l, -1)
        /\ cur' = [cur EXCEPT ![l] = NoEntry]
        /\ wpc' = [wpc EXCEPT ![l] = "poll"]
        /\ UNCHANGED <<ch, backlog, progress, wake, wfence, ended, sectionVars,
                       accepted>>
        /\ WorkerFrame

\* The framing of a worker step that only changes where the worker is.
IdleFrame ==
    /\ UNCHANGED <<ch, backlog, progress, settled, pending, cur, wfence,
                   sectionVars, outcome, accepted, handled>>
    /\ WorkerFrame

\* Variant of TakeWake: the token stays.
TakeWakeKeeps(l) ==
    /\ wpc[l] \in {"select", "park"}
    /\ wake[l]
    /\ wpc' = [wpc EXCEPT ![l] = "poll"]
    /\ UNCHANGED <<wake, ended>>
    /\ IdleFrame

\* <-q.mandatoryWake, in the select or in waitForCleanupRelease.
TakeWake(l) ==
    /\ wpc[l] \in {"select", "park"}
    /\ wake[l]
    /\ wake' = [wake EXCEPT ![l] = FALSE]
    /\ wpc' = [wpc EXCEPT ![l] = "poll"]
    /\ UNCHANGED ended
    /\ IdleFrame

\* <-submitFence, armed only when the head entry waited for it.
SeeFence(l) ==
    /\ wpc[l] \in {"select", "park"}
    /\ wfence[l] /\ fence
    /\ wpc' = [wpc EXCEPT ![l] = "poll"]
    /\ UNCHANGED <<wake, ended>>
    /\ IdleFrame

\* The receive reports a closed and drained channel.
SeeClosed(l) ==
    /\ wpc[l] = "select"
    /\ ch[l] = <<>> /\ ChannelClosed(l)
    /\ ended' = [ended EXCEPT ![l] = TRUE]
    /\ wpc' = [wpc EXCEPT ![l] = "poll"]
    /\ UNCHANGED wake
    /\ IdleFrame

\* Variant of FinishWorker: the worker exits with releases queued.
FinishWorkerAnyway(l) ==
    /\ wpc[l] = "finish"
    /\ wpc' = [wpc EXCEPT ![l] = "exited"]
    /\ UNCHANGED <<wake, ended>>
    /\ IdleFrame

\* finishWorker seals a lane whose backlog is empty; otherwise the worker goes
\* to waitForCleanupRelease.
FinishWorker(l) ==
    /\ wpc[l] = "finish"
    /\ wpc' = [wpc EXCEPT ![l] = IF backlog[l] = <<>> THEN "exited" ELSE "park"]
    /\ UNCHANGED <<wake, ended>>
    /\ IdleFrame

\* The barrier's send on section.parked meets the section's receive.
ParkBarrier(l) ==
    LET s == cur[l].op
    IN  /\ wpc[l] = "barrier"
        /\ spc[s] = "collect"
        /\ parked[s] < expected[s]
        /\ parked' = [parked EXCEPT ![s] = @ + 1]
        /\ wpc' = [wpc EXCEPT ![l] = "held"]
        /\ UNCHANGED <<ch, backlog, progress, wake, settled, pending, cur,
                       wfence, ended, spc, active, todo, expected, aborted,
                       deferred, outcome, accepted, handled>>
        /\ WorkerFrame

\* section.release is closed: the barrier returns and the lane goes on.
LeaveBarrier(l) ==
    /\ wpc[l] \in {"barrier", "held"}
    /\ spc[cur[l].op] = "ended"
    /\ PendingBump(l, -1)
    /\ cur' = [cur EXCEPT ![l] = NoEntry]
    /\ wpc' = [wpc EXCEPT ![l] = "poll"]
    /\ UNCHANGED <<ch, backlog, progress, wake, settled, wfence, ended,
                   sectionVars, outcome, accepted, handled>>
    /\ WorkerFrame

WorkerStep(l) ==
    \/ TakeMandatory(l) \/ NoMandatory(l) \/ Receive(l) \/ Complete(l)
    \/ TakeWake(l) \/ SeeFence(l) \/ SeeClosed(l) \/ FinishWorker(l)
    \/ ParkBarrier(l) \/ LeaveBarrier(l)

=============================================================================
