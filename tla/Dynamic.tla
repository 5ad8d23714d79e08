------------------------------ MODULE Dynamic ------------------------------
(***************************************************************************)
(* The Dynamic strategy (asyncengine/dynamic.go): one lane per active key,   *)
(* created on first use up to a limit, retired by a background goroutine     *)
(* when idle.  A handle release whose key can get no lane runs on its        *)
(* caller's goroutine behind a barrier for the key.                          *)
(*                                                                         *)
(* A lane is used for one keyQueue value only; retirements are bounded so   *)
(* that a key that needs a lane finds one (SpareLane).  Time is left out:   *)
(* a lane that is idle may have been idle long enough.  The <-quit cases of *)
(* sendToQueue and waitForMandatoryCleanup are left out: a producer there   *)
(* holds q.gate, so its lane is not retired (RetiredIsEmpty).               *)
(***************************************************************************)
EXTENDS Lifecycle

CONSTANTS
    MaxQueues,   \* maxQueues; 0 means no limit
    NoOp         \* no barrier for a key

ASSUME DynamicAssumption ==
    /\ MaxQueues \in Nat
    /\ NoOp \notin Ops
    /\ IsFiniteSet(Keys) /\ IsFiniteSet(Lanes)
    /\ Cardinality(Keys) <= Cardinality(Lanes)

VARIABLES
    queues,      \* s.queues
    stopping,    \* s.stopping
    barrier,     \* s.cleanupBarriers: the call that holds the key's barrier
    scan,        \* where the idle cleanup goroutine is
    candidates,  \* the idle lanes its scan picked
    scanStop,    \* cleanupStopCh is closed
    toClose      \* the lanes of its snapshot a stop call has not closed yet

dynamicVars == <<queues, stopping, barrier, scan, candidates, scanStop, toClose>>
mapVars == <<queues, stopping, barrier>>
scanVars == <<scan, candidates, scanStop, toClose>>
vars == <<allVars, dynamicVars>>

Init ==
    /\ LifecycleInit("unborn", [o \in Ops |-> NoLane])
    /\ queues = [k \in Keys |-> NoLane]
    /\ stopping = FALSE
    /\ barrier = [k \in Keys |-> NoOp]
    /\ scan = IF TracksIdle THEN "idle" ELSE "exited"
    /\ candidates = {}
    /\ scanStop = FALSE
    /\ toClose = [x \in Stoppers |-> {}]

Mapped == {k \in Keys : queues[k] # NoLane}
Unborn == {l \in Lanes : wpc[l] = "unborn"}

\* A key has a lane that takes work.
Live(k) == queues[k] # NoLane /\ ~closed[queues[k]]

\* The producers that hold q.gate for reading.
GateHeld(l) ==
    \E o \in Ops : at[o] = l /\ pc[o] \in {"wait", "fenced", "admit", "send",
                                           "blocked"}

-----------------------------------------------------------------------------
(* getOrCreate.  It runs for a submit (pc "lookup" and "create") and for a   *)
(* handoff (pc "hlookup" and "hcreate"); ready and stop are where it returns *)
(* to, loop is where it begins again after waiting for a barrier.            *)

RouteFrame ==
    UNCHANGED <<ticket, seen, reg, cleanupVars, stopVars, crashed, historyVars,
                stpc, stopping, barrier, scanVars>>

\* The read of the map under s.mu.RLock.
Lookup(o, from, loop, ready, create, stop) ==
    LET k == OpKey[o]
    IN  /\ pc[o] = from
        /\ \/ /\ Live(k)
              /\ at' = [at EXCEPT ![o] = queues[k]]
              /\ pc' = [pc EXCEPT ![o] = ready]
              /\ UNCHANGED outcome
           \/ /\ ~Live(k) /\ stopping
              /\ UNCHANGED at
              /\ stop
           \/ /\ ~Live(k) /\ ~stopping
              /\ pc' = [pc EXCEPT ![o] = IF barrier[k] = NoOp THEN create
                                         ELSE loop]
              /\ UNCHANGED <<at, outcome>>
        /\ UNCHANGED <<laneVars, workerVars, sectionVars, queues>>
        /\ RouteFrame

\* Variant of NewLane: a lane created during a section starts running.
NewLaneNoBarrier(l, k) ==
    /\ queues' = [queues EXCEPT ![k] = l]
    /\ wpc' = [wpc EXCEPT ![l] = "poll"]
    /\ UNCHANGED <<laneVars, cur, wfence, ended, sectionVars>>

\* A new lane for key k.  During a section it starts with its barrier.
NewLane(l, k) ==
    /\ queues' = [queues EXCEPT ![k] = l]
    /\ wpc' = [wpc EXCEPT ![l] = "poll"]
    /\ IF active # NoSection
       THEN /\ EnqueueMandatory(l, Entry("barrier", active, l, FALSE))
            /\ expected' = [expected EXCEPT ![active] = @ + 1]
       ELSE UNCHANGED <<laneVars, expected>>
    /\ UNCHANGED <<cur, wfence, ended, spc, active, todo, parked, aborted,
                   deferred>>

\* maxQueues > 0 && len(queues) >= maxQueues.
AtLimit == MaxQueues > 0 /\ Cardinality(Mapped) >= MaxQueues

\* The same decisions again under s.mu.Lock, and the creation.
Create(o, from, loop, ready, limit, stop) ==
    LET k == OpKey[o]
        Stays == UNCHANGED <<laneVars, workerVars, sectionVars, queues>>
    IN  /\ pc[o] = from
        /\ \/ stopping /\ stop /\ UNCHANGED at /\ Stays
           \/ /\ ~stopping /\ Live(k)
              /\ at' = [at EXCEPT ![o] = queues[k]]
              /\ pc' = [pc EXCEPT ![o] = ready]
              /\ UNCHANGED outcome /\ Stays
           \/ /\ ~stopping /\ ~Live(k) /\ barrier[k] # NoOp
              /\ pc' = [pc EXCEPT ![o] = loop]
              /\ UNCHANGED <<at, outcome>> /\ Stays
           \/ /\ ~stopping /\ ~Live(k) /\ barrier[k] = NoOp /\ AtLimit
              /\ limit /\ UNCHANGED at /\ Stays
           \/ /\ ~stopping /\ ~Live(k) /\ barrier[k] = NoOp /\ ~AtLimit
              /\ LET l == CHOOSE n \in Unborn : TRUE
                 IN  NewLane(l, k) /\ at' = [at EXCEPT ![o] = l]
              /\ pc' = [pc EXCEPT ![o] = ready]
              /\ UNCHANGED outcome
        /\ RouteFrame

Goto(o, to) == pc' = [pc EXCEPT ![o] = to] /\ UNCHANGED outcome

-----------------------------------------------------------------------------
(* submitWithFailureHandoff.                                                *)

\* The isStopped checks at the head of the loop and of getOrCreate.
SubmitRoute(o) ==
    /\ pc[o] = "route"
    /\ IF stopped THEN Fail(o) ELSE Goto(o, "lookup")
    /\ UNCHANGED <<at, laneVars, workerVars, sectionVars, queues>>
    /\ RouteFrame

SubmitLookup(o) == Lookup(o, "lookup", "waitBarrier", "gate", "create", Fail(o))

SubmitCreate(o) ==
    Create(o, "create", "waitBarrier", "gate", Fail(o), Fail(o))

\* <-barrier: the release that holds the key ends.
AwaitBarrier(o, from, loop) ==
    /\ pc[o] = from
    /\ barrier[OpKey[o]] = NoOp
    /\ Goto(o, loop)
    /\ UNCHANGED <<at, laneVars, workerVars, sectionVars, queues>>
    /\ RouteFrame

\* Variant of EnterGate: q.closed is not looked at.
EnterGateUnchecked(o) ==
    /\ pc[o] = "gate"
    /\ Goto(o, "wait")
    /\ UNCHANGED <<at, laneVars, workerVars, sectionVars, queues>>
    /\ RouteFrame

\* submitToRegisteredQueue: q.gate.RLock and the check of q.closed.  A lane
\* retired since the lookup sends the producer back to the map.
EnterGate(o) ==
    /\ pc[o] = "gate"
    /\ Goto(o, IF closed[at[o]] THEN "route" ELSE "wait")
    /\ UNCHANGED <<at, laneVars, workerVars, sectionVars, queues>>
    /\ RouteFrame

-----------------------------------------------------------------------------
(* scheduleSubmitFailureCleanup.                                            *)

ScheduleCleanup(o) ==
    /\ pc[o] = "handoff"
    /\ Goto(o, IF stopped THEN "late" ELSE "hlookup")
    /\ UNCHANGED <<at, laneVars, workerVars, sectionVars, queues>>
    /\ RouteFrame

CleanupLookup(o) ==
    Lookup(o, "hlookup", "hwaitBarrier", "hbegin", "hcreate", Goto(o, "late"))

CleanupCreate(o) ==
    Create(o, "hcreate", "hwaitBarrier", "hbegin", Goto(o, "hlimit"),
           Goto(o, "late"))

\* beginSubmit before the handoff to a lane, or to the caller at the limit.
CleanupBegin(o) ==
    /\ \/ pc[o] = "hbegin" /\ Goto(o, IF stopped THEN "late" ELSE "enqueue")
       \/ pc[o] = "hlimit" /\ Goto(o, IF stopped THEN "late" ELSE "nolane")
    /\ inFlight' = IF stopped THEN inFlight ELSE inFlight + 1
    /\ UNCHANGED <<laneVars, fence, cleanupVars, sectionVars, dynamicVars>>
    /\ HandoffFrame

\* Variant of CleanupWithoutLiveLane: no barrier keeps a lane from the key.
CleanupWithoutBarrier(o) ==
    LET k == OpKey[o]
        refuse == stopping \/ Live(k) \/ barrier[k] # NoOp
    IN  /\ pc[o] = "nolane"
        /\ Goto(o, IF refuse THEN "refused"
                   ELSE IF active # NoSection THEN "taken" ELSE "cleanupHere")
        /\ deferred' = IF ~refuse /\ active # NoSection
                       THEN Append(deferred, o) ELSE deferred
        /\ UNCHANGED <<laneVars, inFlight, fence, cleanupVars, spc, active,
                       todo, expected, parked, aborted, dynamicVars>>
        /\ HandoffFrame

\* cleanupWithoutLiveLane up to the release: refused when the key got a lane,
\* is held already or the map is closed, postponed to an active section.
CleanupWithoutLiveLane(o) ==
    LET k == OpKey[o]
        refuse == stopping \/ Live(k) \/ barrier[k] # NoOp
    IN  /\ pc[o] = "nolane"
        /\ Goto(o, IF refuse THEN "refused"
                   ELSE IF active # NoSection THEN "taken" ELSE "cleanupHere")
        /\ deferred' = IF ~refuse /\ active # NoSection
                       THEN Append(deferred, o) ELSE deferred
        /\ barrier' = IF refuse \/ active # NoSection THEN barrier
                      ELSE [barrier EXCEPT ![k] = o]
        /\ UNCHANGED <<laneVars, inFlight, fence, cleanupVars, spc, active,
                       todo, expected, parked, aborted, queues, stopping,
                       scanVars>>
        /\ HandoffFrame

\* The release behind the key's barrier ends.
EndCleanupHere(o) ==
    /\ pc[o] = "cleanupHere"
    /\ Resolve(o, "failed")
    /\ barrier' = [barrier EXCEPT ![OpKey[o]] = NoOp]
    /\ pc' = [pc EXCEPT ![o] = "taken"]
    /\ UNCHANGED <<laneVars, inFlight, fence, cleanupVars, sectionVars, queues,
                   stopping, scanVars>>
    /\ HandoffFrame

-----------------------------------------------------------------------------
(* The idle cleanup goroutine.                                              *)

Idle(l) == pending[l] = 0 /\ ch[l] = <<>>

ScanFrame ==
    UNCHANGED <<submitVars, workerVars, stopVars, crashed, cleanupVars,
                sectionVars, outcome, historyVars, stpc, stopping, barrier,
                toClose>>

\* The scan of cleanupIdle under s.mu.RLock.
ScanIdle ==
    /\ scan = "idle" /\ ~stopped
    /\ candidates' = {<<k, queues[k]>> : k \in {j \in Mapped : Idle(queues[j])}}
    /\ candidates' # {}
    /\ scan' = "retiring"
    /\ UNCHANGED <<laneVars, queues, scanStop>>
    /\ ScanFrame

\* Bound on retirements: every key without a lane can still get a fresh one.
SpareLane == Cardinality(Unborn) > Cardinality(Keys \ Mapped)

\* Variant of MayRetire: the gate is not tried.
MayRetireUngated(k, l) ==
    /\ active = NoSection
    /\ queues[k] = l
    /\ Idle(l)
    /\ backlog[l] = <<>>

\* retireIfIdle's conditions, under s.mu.Lock and q.gate.
MayRetire(k, l) ==
    /\ active = NoSection
    /\ queues[k] = l
    /\ Idle(l)
    /\ ~GateHeld(l)
    /\ backlog[l] = <<>>

\* retireIfIdle for the next candidate.
RetireIfIdle ==
    /\ scan = "retiring"
    /\ \E c \in candidates :
          /\ candidates' = candidates \ {c}
          /\ IF MayRetire(c[1], c[2]) /\ SpareLane
             THEN /\ retired' = [retired EXCEPT ![c[2]] = TRUE]
                  /\ closed' = [closed EXCEPT ![c[2]] = TRUE]
                  /\ queues' = [queues EXCEPT ![c[1]] = NoLane]
             ELSE UNCHANGED <<retired, closed, queues>>
    /\ scan' = IF candidates' = {} THEN "idle" ELSE scan
    /\ UNCHANGED <<ch, backlog, progress, wake, admitted, settled, pending,
                   scanStop>>
    /\ ScanFrame

\* cleanupLoop sees cleanupStopCh.
ScanExit ==
    /\ scan = "idle" /\ scanStop
    /\ scan' = "exited"
    /\ UNCHANGED <<laneVars, queues, candidates, scanStop>>
    /\ ScanFrame

\* The worker of a retired lane: <-q.quit, then drainAndAbort.
SeeQuit(l) ==
    /\ wpc[l] = "select"
    /\ retired[l]
    /\ ended' = [ended EXCEPT ![l] = TRUE]
    /\ ch' = [ch EXCEPT ![l] = <<>>]
    /\ outcome' = [o \in Ops |->
          IF \E i \in DOMAIN ch[l] : ch[l][i] = o
          THEN Append(outcome[o], "aborted") ELSE outcome[o]]
    /\ settled' = [settled EXCEPT ![l] = @ + Len(ch[l])]
    /\ handled' = [handled EXCEPT ![l] = @ + Len(ch[l])]
    /\ PendingBump(l, -Len(ch[l]))
    /\ wpc' = [wpc EXCEPT ![l] = "poll"]
    /\ UNCHANGED <<backlog, progress, wake, cur, wfence, sectionVars, accepted>>
    /\ WorkerFrame

-----------------------------------------------------------------------------
(* Stop.                                                                    *)

\* stopCleanup closes cleanupStopCh ...
BeginStop(x) ==
    /\ stpc[x] = "idle"
    /\ StopMoves(x, "scan")
    /\ scanStop' = TRUE
    /\ UNCHANGED <<mapVars, scan, candidates, toClose>>

\* ... and waits for the goroutine.
AwaitScan(x) ==
    /\ stpc[x] = "scan"
    /\ scan = "exited"
    /\ StopMoves(x, IF x = "hard" THEN "begin" ELSE "signal")
    /\ UNCHANGED dynamicVars

\* markStoppingAndSnapshot.
MarkStopping(x) ==
    /\ stpc[x] = "close"
    /\ StopMoves(x, "closing")
    /\ stopping' = TRUE
    /\ toClose' = [toClose EXCEPT ![x] = {queues[k] : k \in Mapped}]
    /\ UNCHANGED <<queues, barrier, scan, candidates, scanStop>>

\* Variant of CloseLanes: channels close under their producers.
CloseLanesUngated(x) ==
    /\ stpc[x] = "closing"
    /\ closed' = [l \in Lanes |-> closed[l] \/ l \in toClose[x]]
    /\ toClose' = [toClose EXCEPT ![x] = {}]
    /\ stpc' = [stpc EXCEPT ![x] = "workers"]
    /\ UNCHANGED <<ch, retired, backlog, progress, wake, admitted, settled,
                   pending, stopped, hard, fence, cleanupVars, mapVars, scan,
                   candidates, scanStop>>
    /\ StopFrame

\* closeQueueChannels, one lane at a time under q.gate.
CloseLanes(x) ==
    /\ stpc[x] = "closing"
    /\ \/ \E l \in toClose[x] :
            /\ ~GateHeld(l)
            /\ closed' = [closed EXCEPT ![l] = TRUE]
            /\ toClose' = [toClose EXCEPT ![x] = @ \ {l}]
            /\ UNCHANGED stpc
       \/ /\ toClose[x] = {}
          /\ stpc' = [stpc EXCEPT ![x] = "workers"]
          /\ UNCHANGED <<closed, toClose>>
    /\ UNCHANGED <<ch, retired, backlog, progress, wake, admitted, settled,
                   pending, stopped, hard, fence, cleanupVars, mapVars, scan,
                   candidates, scanStop>>
    /\ StopFrame

-----------------------------------------------------------------------------
Submit(o) == BeginSubmit(o, "route") /\ UNCHANGED <<stpc, dynamicVars>>

Cancel(o) ==
    /\ CancelBeforeAdmit(o) \/ AbandonSend(o, "ctx")
    /\ UNCHANGED <<stpc, dynamicVars>>

\* The steps of an operation that its ctx does not decide.
OpStep(o) ==
    \/ /\ \/ WaitForMandatoryCleanup(o) \/ FenceProgress(o) \/ FenceStopped(o)
          \/ AdmitTask(o) \/ SendTask(o) \/ SendOnClosed(o) \/ SendBlocks(o)
          \/ AbandonSend(o, "stop") \/ EndSubmit(o) \/ EndSubmitTest(o)
       /\ UNCHANGED <<stpc, dynamicVars>>
    \/ /\ \/ EnqueueCleanup(o)
          \/ EndHandoff(o, "handoff") \/ EndHandoffTest(o, "handoff")
          \/ HandoffLate(o, queues[OpKey[o]])
          \/ BeginLifecycleCleanup(o) \/ EndLifecycleCleanup(o)
       /\ UNCHANGED dynamicVars
    \/ SubmitRoute(o) \/ SubmitLookup(o) \/ SubmitCreate(o) \/ EnterGate(o)
    \/ AwaitBarrier(o, "waitBarrier", "route")
    \/ AwaitBarrier(o, "hwaitBarrier", "handoff")
    \/ ScheduleCleanup(o) \/ CleanupLookup(o) \/ CleanupCreate(o)
    \/ CleanupBegin(o) \/ CleanupWithoutLiveLane(o) \/ EndCleanupHere(o)

LaneStep(l) ==
    /\ wpc[l] # "unborn"
    /\ WorkerStep(l) \/ SeeQuit(l)
    /\ UNCHANGED <<stpc, dynamicVars>>

\* installExclusive: the mapped lanes; the releases behind barriers count as
\* running.
InstallSection(s) ==
    InstallExclusive(s, {l \in Lanes : \E k \in Keys : Live(k) /\ queues[k] = l})

SectionRuns(s) ==
    /\ \/ SectionStep(s) \/ InstallSection(s)
       \/ AwaitRunning(s, \A k \in Keys : barrier[k] = NoOp)
    /\ UNCHANGED dynamicVars

StopRuns(x) ==
    \/ StopStep(x) /\ UNCHANGED dynamicVars
    \/ AwaitScan(x) \/ MarkStopping(x) \/ CloseLanes(x)

Scan == ScanIdle \/ RetireIfIdle \/ ScanExit

Finished ==
    /\ \/ crashed
       \/ /\ \A o \in Ops : pc[o] = "done"
          /\ \A s \in Sections : spc[s] = "ended"
          /\ \A x \in Stoppers : stpc[x] = "returned"
    /\ UNCHANGED vars

Next ==
    \/ /\ ~crashed
       /\ \/ \E o \in Ops : Submit(o) \/ OpStep(o) \/ Cancel(o)
          \/ \E l \in Lanes : LaneStep(l)
          \/ \E s \in Sections :
                \/ (TakeTurn(s) \/ SectionFails(s, "ctx")) /\ UNCHANGED dynamicVars
                \/ SectionRuns(s)
          \/ \E x \in Stoppers :
                \/ BeginStop(x) \/ StopRuns(x)
                \/ StopTimeout(x) /\ UNCHANGED dynamicVars
          \/ Scan
    \/ Finished

Spec == Init /\ [][Next]_vars

\* As for Sharded.  The select of the scan goroutine picks among its ready
\* cases at random, so ticks do not keep it from its stop signal for ever.
Fairness ==
    /\ \A o \in Ops : WF_vars(~crashed /\ OpStep(o))
    /\ \A l \in Lanes : WF_vars(~crashed /\ LaneStep(l))
    /\ \A s \in Sections : WF_vars(~crashed /\ SectionRuns(s))
    /\ \A x \in Stoppers : WF_vars(~crashed /\ StopRuns(x))
    /\ WF_vars(~crashed /\ RetireIfIdle)
    /\ SF_vars(~crashed /\ ScanExit)

FairSpec == Spec /\ Fairness

-----------------------------------------------------------------------------
(* Properties.                                                              *)

\* retireIfIdle takes a lane away only when nothing is or will be on it: no
\* task, no release, no producer behind its gate, no work in hand; so the
\* defensive drainAndAbort finds nothing.
RetiredIsEmpty ==
    \A l \in Lanes : retired[l] =>
        ch[l] = <<>> /\ backlog[l] = <<>> /\ ~Executing(l) /\ ~GateHeld(l)

\* An accepted task is aborted only by a hard stop: idle retirement and a
\* graceful stop run everything they accepted.
AbortsOnlyOnHardStop ==
    \A o \in Ops : (\E i \in DOMAIN outcome[o] : outcome[o][i] = "aborted") => hard

\* Lanes, old and new, releases behind a key barrier and releases postponed to
\* a section work for one key one at a time.  Releases of runLifecycleCleanup
\* are not covered, neither on their caller's goroutine nor, once stop was
\* signalled, postponed to a section: two of one key may meet, and LaneAlone
\* may fail for one of them.
LanesAndBarriersAlone ==
    LET lifecycle == {o \in Ops : pc[o] = "cleanup"}
                     \cup (IF stopped THEN Sections ELSE {})
    IN  \A k \in Keys : Cardinality(WorkersOf(k) \ lifecycle) <= 1

\* The live queue count never exceeds maxQueues, however producers, handoffs
\* and the idle cleanup interleave.
QueueLimit == MaxQueues > 0 => Cardinality(Mapped) <= MaxQueues

=============================================================================
