----------------------------- MODULE Lifecycle -----------------------------
(***************************************************************************)
(* What both strategies share on top of the lanes: the handoff of a handle  *)
(* release after a failed submit, releases that find no lane and run on the *)
(* caller's goroutine, Exclusive sections (asyncengine/exclusive.go) and    *)
(* the stop sequence.  A panic in a section's callback or in a release is   *)
(* not modelled: the code recovers it and takes the same steps.             *)
(***************************************************************************)
EXTENDS KeyQueue

CONSTANTS
    Stoppers,      \* the stop calls: a subset of {"graceful", "hard"}
    StopTimeouts   \* TRUE if the ctx of a stop call may fire

ASSUME StoppersAssumption ==
    /\ Stoppers \subseteq {"graceful", "hard"}
    /\ StopTimeouts \in BOOLEAN

VARIABLE stpc      \* where each stop call is

-----------------------------------------------------------------------------
(* Handing a release over after a failed submit.                            *)

HandoffFrame ==
    UNCHANGED <<at, ticket, seen, reg, workerVars, stopped, hard, crashed,
                historyVars, stpc>>

\* enqueueSubmitFailureCleanup under the registration of beginSubmit.
EnqueueCleanup(o) ==
    LET l == at[o]
    IN  /\ pc[o] = "enqueue"
        /\ IF TakesMandatory(l)
           THEN /\ EnqueueMandatory(l, Entry("release", o, l, FALSE))
                /\ pc' = [pc EXCEPT ![o] = "taken"]
           ELSE /\ pc' = [pc EXCEPT ![o] = "refused"]
                /\ UNCHANGED laneVars
        /\ UNCHANGED <<inFlight, fence, cleanupVars, sectionVars, outcome>>
        /\ HandoffFrame

\* Variant of EndHandoff: the handoff goes on after the lane took the release.
EndHandoffAlwaysRetries(o, retry) ==
    /\ \/ LeaveSubmit(o, "taken", "refusedTest", retry)
       \/ LeaveSubmit(o, "refused", "refusedTest", retry)
    /\ UNCHANGED <<laneVars, fence, cleanupVars, sectionVars, outcome>>
    /\ HandoffFrame

\* endSubmit after the handoff; retry is where a refused handoff continues.
EndHandoff(o, retry) ==
    /\ \/ LeaveSubmit(o, "taken", "takenTest", Return(o))
       \/ LeaveSubmit(o, "refused", "refusedTest", retry)
    /\ UNCHANGED <<laneVars, fence, cleanupVars, sectionVars, outcome>>
    /\ HandoffFrame

EndHandoffTest(o, retry) ==
    /\ \/ TestStop(o, "takenTest", Return(o))
       \/ TestStop(o, "refusedTest", retry)
    /\ UNCHANGED stpc

\* The handoff after stop was signalled: the lane l keeps the release back
\* until the submit fence, and a lane that takes nothing leaves it to
\* runLifecycleCleanup.
HandoffLate(o, l) ==
    /\ pc[o] = "late"
    /\ IF l # NoLane /\ TakesMandatory(l)
       THEN /\ EnqueueMandatory(l, Entry("release", o, l, TRUE))
            /\ pc' = [pc EXCEPT ![o] = Return(o)]
       ELSE /\ pc' = [pc EXCEPT ![o] = "off"]
            /\ UNCHANGED laneVars
    /\ UNCHANGED <<inFlight, fence, cleanupVars, sectionVars, outcome>>
    /\ HandoffFrame

\* beginLifecycleCleanup: postponed to the active section, or begun on this
\* goroutine, counted unless a completed stop sealed the count.
BeginLifecycleCleanup(o) ==
    LET postponed == ~sealed /\ active # NoSection
    IN  /\ pc[o] = "off"
        /\ pc' = [pc EXCEPT ![o] = IF postponed THEN Return(o) ELSE "cleanup"]
        /\ deferred' = IF postponed THEN Append(deferred, o) ELSE deferred
        /\ tracked' = IF postponed \/ sealed THEN tracked ELSE tracked \cup {o}
        /\ UNCHANGED <<laneVars, inFlight, fence, sealed, spc, active, todo,
                       expected, parked, aborted, outcome>>
        /\ HandoffFrame

\* The release ran; endLifecycleCleanup.
EndLifecycleCleanup(o) ==
    /\ pc[o] = "cleanup"
    /\ Resolve(o, "failed")
    /\ tracked' = tracked \ {o}
    /\ pc' = [pc EXCEPT ![o] = Return(o)]
    /\ UNCHANGED <<laneVars, inFlight, fence, sealed, sectionVars>>
    /\ HandoffFrame

-----------------------------------------------------------------------------
(* Exclusive sections.                                                      *)

SectionFrame ==
    UNCHANGED <<submitVars, workerVars, stopVars, crashed, cleanupVars,
                historyVars, stpc>>

\* A step that only moves the section on.
SectionMoves(s, to) ==
    /\ spc' = [spc EXCEPT ![s] = to]
    /\ UNCHANGED <<laneVars, active, todo, expected, parked, aborted, deferred,
                   outcome>>
    /\ SectionFrame

\* exclusiveTurn holds one token.
TurnFree == \A s \in Sections : spc[s] \in {"idle", "ended"}

\* The select for the turn.
TakeTurn(s) ==
    /\ spc[s] = "idle"
    /\ \/ TurnFree /\ SectionMoves(s, "begin")
       \/ SectionMoves(s, "ended")      \* <-ctx.Done(), <-b.stopCh

\* beginSection: a stop either refuses the section or waits for it.
BeginSection(s) ==
    /\ spc[s] = "begin"
    /\ SectionMoves(s, IF stopped THEN "ended" ELSE "install")

\* installExclusive; queues are the lanes that need a barrier.
InstallExclusive(s, queues) ==
    /\ spc[s] = "install"
    /\ active' = s
    /\ todo' = queues
    /\ spc' = [spc EXCEPT ![s] = "running"]
    /\ UNCHANGED <<laneVars, expected, parked, aborted, deferred, outcome>>
    /\ SectionFrame

\* The wait for the off-lane releases already running.  No other begins while
\* the section is installed.
AwaitRunning(s, done) ==
    /\ spc[s] = "running"
    /\ tracked = {} /\ done
    /\ SectionMoves(s, "barriers")

\* enqueueBarrier on the next lane; then the section collects.
PlaceBarrier(s) ==
    /\ spc[s] = "barriers"
    /\ \/ \E l \in todo :
            /\ todo' = todo \ {l}
            /\ IF TakesMandatory(l)
               THEN /\ EnqueueMandatory(l, Entry("barrier", s, l, FALSE))
                    /\ expected' = [expected EXCEPT ![s] = @ + 1]
               ELSE UNCHANGED <<laneVars, expected>>
            /\ UNCHANGED spc
       \/ /\ todo = {}
          /\ spc' = [spc EXCEPT ![s] = "collect"]
          /\ UNCHANGED <<laneVars, todo, expected>>
    /\ UNCHANGED <<active, parked, aborted, deferred, outcome>>
    /\ SectionFrame

\* Variant of CollectDone: one barrier too few.
CollectDoneEarly(s) ==
    /\ spc[s] = "collect"
    /\ parked[s] + 1 >= expected[s]
    /\ SectionMoves(s, "check")

\* Every expected barrier has parked.
CollectDone(s) ==
    /\ spc[s] = "collect"
    /\ parked[s] >= expected[s]
    /\ SectionMoves(s, "check")

\* A wait of the section ends with an error and fn does not run.  ctx is the
\* caller's, which must be cancellable.
SectionFails(s, reason) ==
    /\ \/ spc[s] \in {"running", "check"}
       \/ spc[s] = "collect" /\ parked[s] < expected[s]
    /\ \/ reason = "ctx"
       \/ reason = "stop" /\ stopped
       \/ reason = "abort" /\ spc[s] = "collect" /\ aborted[s]
    /\ SectionMoves(s, "drain")

\* The last check passed and fn runs.
StartFn(s) ==
    /\ spc[s] = "check"
    /\ ~stopped
    /\ SectionMoves(s, "fn")

EndFn(s) ==
    /\ spc[s] = "fn"
    /\ SectionMoves(s, "drain")

\* withdrawExclusive: removed when nothing is postponed, else the next
\* postponed release starts on the section's goroutine.
WithdrawExclusive(s) ==
    /\ spc[s] = "drain"
    /\ IF deferred = <<>>
       THEN /\ active' = NoSection
            /\ spc' = [spc EXCEPT ![s] = "release"]
       ELSE /\ spc' = [spc EXCEPT ![s] = "releasing"]
            /\ UNCHANGED active
    /\ UNCHANGED <<laneVars, todo, expected, parked, aborted, deferred, outcome>>
    /\ SectionFrame

\* A postponed release ends.
EndDeferred(s) ==
    /\ spc[s] = "releasing"
    /\ Resolve(Head(deferred), "failed")
    /\ deferred' = Tail(deferred)
    /\ spc' = [spc EXCEPT ![s] = "drain"]
    /\ UNCHANGED <<laneVars, active, todo, expected, parked, aborted>>
    /\ SectionFrame

\* close(section.release), sections.Done and the turn goes back.
ReleaseLanes(s) ==
    /\ spc[s] = "release"
    /\ SectionMoves(s, "ended")

\* The steps of a section that neither the ctx nor the strategy decides.
SectionStep(s) ==
    \/ BeginSection(s) \/ PlaceBarrier(s) \/ CollectDone(s)
    \/ SectionFails(s, "stop") \/ SectionFails(s, "abort")
    \/ StartFn(s) \/ EndFn(s) \/ WithdrawExclusive(s) \/ EndDeferred(s)
    \/ ReleaseLanes(s)

SectionRegistered(s) == spc[s] \notin {"idle", "begin", "ended"}

-----------------------------------------------------------------------------
(* stopGraceful and stopHard.                                               *)

StopFrame ==
    UNCHANGED <<submitVars, workerVars, inFlight, crashed, sectionVars, outcome,
                accepted, handled, owes, early>>

\* A step that only moves the stop call on.
StopMoves(x, to) ==
    /\ stpc' = [stpc EXCEPT ![x] = to]
    /\ UNCHANGED <<laneVars, stopped, hard, fence, cleanupVars>>
    /\ StopFrame

\* signalHardStopOnce.
SignalHardStop ==
    /\ stpc["hard"] = "begin"
    /\ hard' = TRUE
    /\ stpc' = [stpc EXCEPT !["hard"] = "signal"]
    /\ UNCHANGED <<laneVars, stopped, fence, cleanupVars>>
    /\ StopFrame

\* signalStopOnce.
SignalStop(x) ==
    /\ stpc[x] = "signal"
    /\ stopped' = TRUE
    /\ fence' = (fence \/ (~stopped /\ inFlight = 0))
    /\ stpc' = [stpc EXCEPT ![x] = "fence"]
    /\ UNCHANGED <<laneVars, hard, cleanupVars>>
    /\ StopFrame

\* waitInFlightSubmits.
WaitInFlightSubmits(x) ==
    /\ stpc[x] = "fence"
    /\ fence
    /\ StopMoves(x, "close")

\* closeQueueChannels on the lanes ls.
CloseQueueChannels(x, ls) ==
    /\ stpc[x] = "close"
    /\ closed' = [l \in Lanes |-> closed[l] \/ l \in ls]
    /\ stpc' = [stpc EXCEPT ![x] = "workers"]
    /\ UNCHANGED <<ch, retired, backlog, progress, wake, admitted, settled,
                   pending, stopped, hard, fence, cleanupVars>>
    /\ StopFrame

\* waitWorkers: every started worker has exited.
WaitWorkers(x) ==
    /\ stpc[x] = "workers"
    /\ \A l \in Lanes : wpc[l] \in {"exited", "unborn"}
    /\ StopMoves(x, "sections")

\* Variant of WaitSections: the stop overtakes a section.
WaitNoSections(x) ==
    /\ stpc[x] = "sections"
    /\ StopMoves(x, "cleanups")

\* waitSections.
WaitSections(x) ==
    /\ stpc[x] = "sections"
    /\ \A s \in Sections : ~SectionRegistered(s)
    /\ StopMoves(x, "cleanups")

\* finishLifecycleCleanups; the stop succeeds and releases the engine.
FinishLifecycleCleanups(x) ==
    /\ stpc[x] = "cleanups"
    /\ tracked = {}
    /\ sealed' = TRUE
    /\ stpc' = [stpc EXCEPT ![x] = "returned"]
    /\ UNCHANGED <<laneVars, stopped, hard, fence, tracked>>
    /\ StopFrame

\* The ctx of a stop call fires in one of its waits.  The caller may stop
\* again.
StopTimeout(x) ==
    /\ StopTimeouts
    /\ stpc[x] \in {"fence", "workers", "sections", "cleanups"}
    /\ StopMoves(x, "idle")

StopStep(x) ==
    \/ x = "hard" /\ SignalHardStop
    \/ SignalStop(x) \/ WaitInFlightSubmits(x) \/ WaitWorkers(x)
    \/ WaitSections(x) \/ FinishLifecycleCleanups(x)

\* A stop call returned without error: releaseUnderlying has run.
EngineReleased == \E x \in Stoppers : stpc[x] = "returned"

-----------------------------------------------------------------------------
allVars == <<submitVars, laneVars, workerVars, stopVars, crashed, cleanupVars,
             sectionVars, outcome, historyVars, stpc>>

\* Nothing submitted, nothing stopped; first is the state of every worker and
\* lane the lane each operation starts on.
LifecycleInit(first, lane) ==
    /\ pc = [o \in Ops |-> "idle"]
    /\ at = lane
    /\ ticket = [o \in Ops |-> 0]
    /\ seen = [o \in Ops |-> 0]
    /\ reg = [o \in Ops |-> FALSE]
    /\ ch = [l \in Lanes |-> <<>>]
    /\ closed = [l \in Lanes |-> FALSE]
    /\ retired = [l \in Lanes |-> FALSE]
    /\ backlog = [l \in Lanes |-> <<>>]
    /\ progress = [l \in Lanes |-> 0]
    /\ wake = [l \in Lanes |-> FALSE]
    /\ admitted = [l \in Lanes |-> 0]
    /\ settled = [l \in Lanes |-> 0]
    /\ pending = [l \in Lanes |-> 0]
    /\ wpc = [l \in Lanes |-> first]
    /\ cur = [l \in Lanes |-> NoEntry]
    /\ wfence = [l \in Lanes |-> FALSE]
    /\ ended = [l \in Lanes |-> FALSE]
    /\ stopped = FALSE /\ hard = FALSE /\ inFlight = 0 /\ fence = FALSE
    /\ crashed = FALSE
    /\ tracked = {} /\ sealed = FALSE
    /\ spc = [s \in Sections |-> "idle"]
    /\ active = NoSection
    /\ todo = {}
    /\ expected = [s \in Sections |-> 0]
    /\ parked = [s \in Sections |-> 0]
    /\ aborted = [s \in Sections |-> FALSE]
    /\ deferred = <<>>
    /\ outcome = [o \in Ops |-> <<>>]
    /\ accepted = [l \in Lanes |-> 0]
    /\ handled = [l \in Lanes |-> 0]
    /\ owes = [o \in Ops |-> {}]
    /\ early = FALSE
    /\ stpc = [x \in Stoppers |-> "idle"]

-----------------------------------------------------------------------------
(* Properties both strategies share.                                        *)

PcType ==
    {"idle", "route", "lookup", "waitBarrier", "create", "gate", "wait",
     "fenced", "admit", "send", "blocked", "end", "endTest", "done", "handoff",
     "hlookup", "hwaitBarrier", "hcreate", "hbegin", "hlimit", "nolane",
     "cleanupHere", "enqueue", "taken", "takenTest", "refused", "refusedTest",
     "late", "off", "cleanup"}

WpcType ==
    {"unborn", "poll", "select", "run", "abort", "barrier", "held", "finish",
     "park", "exited"}

SpcType ==
    {"idle", "begin", "install", "running", "barriers", "collect", "check",
     "fn", "drain", "releasing", "release", "ended"}

StpcType ==
    {"idle", "scan", "begin", "signal", "fence", "close", "closing", "workers",
     "sections", "cleanups", "returned"}

Results == {"ran", "aborted", "failed"}

SubmitType ==
    /\ pc \in [Ops -> PcType]
    /\ at \in [Ops -> Lanes \cup {NoLane}]
    /\ ticket \in [Ops -> Nat]
    /\ seen \in [Ops -> Nat]
    /\ reg \in [Ops -> BOOLEAN]

LaneType ==
    /\ ch \in [Lanes -> Seq(Ops)]
    /\ closed \in [Lanes -> BOOLEAN]
    /\ retired \in [Lanes -> BOOLEAN]
    /\ backlog \in [Lanes -> Seq(EntryType)]
    /\ progress \in [Lanes -> Nat]
    /\ wake \in [Lanes -> BOOLEAN]
    /\ admitted \in [Lanes -> Nat]
    /\ settled \in [Lanes -> Nat]
    /\ pending \in [Lanes -> Int]

WorkerType ==
    /\ wpc \in [Lanes -> WpcType]
    /\ cur \in [Lanes -> EntryType]
    /\ wfence \in [Lanes -> BOOLEAN]
    /\ ended \in [Lanes -> BOOLEAN]

StopType ==
    /\ stopped \in BOOLEAN /\ hard \in BOOLEAN /\ fence \in BOOLEAN
    /\ crashed \in BOOLEAN
    /\ stpc \in [Stoppers -> StpcType]
    /\ tracked \in SUBSET Ops /\ sealed \in BOOLEAN

SectionType ==
    /\ spc \in [Sections -> SpcType]
    /\ active \in Sections \cup {NoSection}
    /\ todo \in SUBSET Lanes
    /\ expected \in [Sections -> Nat]
    /\ parked \in [Sections -> Nat]
    /\ aborted \in [Sections -> BOOLEAN]
    /\ deferred \in Seq(Ops)

HistoryType ==
    /\ outcome \in [Ops -> Seq(Results)]
    /\ accepted \in [Lanes -> Nat]
    /\ handled \in [Lanes -> Nat]
    /\ owes \in [Ops -> SUBSET Closing]
    /\ early \in BOOLEAN

\* Every variable of strategy.go, exclusive.go and the stop sequence keeps its
\* type; in particular inFlightSubmits never goes below zero.
TypeOK ==
    /\ SubmitType
    /\ LaneType
    /\ WorkerType
    /\ StopType
    /\ SectionType
    /\ HistoryType
    /\ inFlight \in Nat

\* A lane works on a task or a release.
Executing(l) == wpc[l] \in {"run", "abort"}

\* A release or a barrier never overtakes a task the lane had accepted before
\* it was queued, whatever producers abandon their sends in between
\* (admittedCutoff and settleTarget in enqueueMandatory, unmarkSent and
\* takeMandatoryCleanup).
BacklogOrder ==
    \A l \in Lanes :
        cur[l].kind \in {"release", "barrier"} => handled[l] >= cur[l].before

\* A task submitted after a release was queued for its routing key does not
\* start before that release has run (waitForMandatoryCleanup).
NoOvertake ==
    \A l \in Lanes :
        (Executing(l) /\ cur[l].kind = "task") =>
            \A r \in owes[cur[l].op] : outcome[r] # <<>>

\* A release queued after stop was signalled runs when its lane has nothing
\* left to do and no producer can still send to it (waitSubmitFence).  Holds
\* as long as the submit fence was not closed early.
LateReleaseLast ==
    \A l \in Lanes :
        (Executing(l) /\ cur[l].late /\ ~early) =>
            /\ ch[l] = <<>>
            /\ \A o \in Ops :
                  at[o] = l => pc[o] \notin {"wait", "fenced", "admit", "send",
                                             "blocked"}

\* No operation is resolved twice: of the run, the abort, the failed submit,
\* the queued release, the off-lane release and the section's release, at most
\* one happens, so no handle is released twice.
ResolvedOnce == \A o \in Ops : Len(outcome[o]) <= 1

\* When a stop has returned without error nothing is left behind: no lane, no
\* section and no counted release runs, and every submit call that returned
\* has been resolved, so the engine can be released under them.
StopQuiescent ==
    EngineReleased =>
        /\ \A l \in Lanes : wpc[l] \in {"exited", "unborn"} /\ ch[l] = <<>>
        /\ \A s \in Sections : ~SectionRegistered(s)
        /\ tracked = {}
        /\ \A o \in Ops : pc[o] = "done" => outcome[o] # <<>>

\* While the callback of an Exclusive section runs, no lane runs a task or a
\* release and no release runs off the lanes.
ExclusiveAlone ==
    \A s \in Sections : spc[s] = "fn" =>
        /\ \A l \in Lanes : ~Executing(l)
        /\ \A o \in Ops : pc[o] \notin {"cleanup", "cleanupHere"}
        /\ \A t \in Sections : spc[t] \in {"fn", "releasing"} => t = s

\* Under the same comment, taken as it stands.
NoSendOnClosed == ~crashed

\* The goroutines that now work for key k: lanes, callers that run a release
\* themselves, and a section that runs postponed releases.
WorkersOf(k) ==
    {l \in Lanes : Executing(l) /\ OpKey[cur[l].op] = k}
    \cup {o \in Ops : pc[o] \in {"cleanup", "cleanupHere"} /\ OpKey[o] = k}
    \cup {s \in Sections : spc[s] = "releasing" /\ OpKey[Head(deferred)] = k}

\* Every submit call that was begun resolves its future, and a closing one
\* therefore releases its handle.
OpsResolve ==
    \A o \in Ops : pc[o] # "idle" ~> (outcome[o] # <<>> \/ crashed)

\* A stop call whose ctx never fires returns: producers leave, lanes drain,
\* sections and counted releases end.
StopReturns ==
    \A x \in Stoppers : stpc[x] # "idle" ~> (stpc[x] = "returned" \/ crashed)

\* A section that took the turn ends, and with it the lanes it stopped go on.
SectionsEnd ==
    \A s \in Sections : spc[s] = "begin" ~> (spc[s] = "ended" \/ crashed)

\* doc.go: "operations routed by the same key never overlap", of a lane: it
\* never works for a key while a release for that key runs elsewhere.
LaneAlone ==
    \A l \in Lanes : Executing(l) => WorkersOf(OpKey[cur[l].op]) = {l}

=============================================================================
