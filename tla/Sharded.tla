------------------------------ MODULE Sharded ------------------------------
(***************************************************************************)
(* The Sharded strategy (asyncengine/sharded.go): a fixed set of lanes, each *)
(* routing key hashed to one of them.  A shard carries several keys and is   *)
(* never retired.  The hash that picks the shard is left out: ShardOf is any *)
(* assignment of keys to shards.                                             *)
(***************************************************************************)
EXTENDS Lifecycle

CONSTANT ShardOf   \* shardFor

ASSUME ShardAssumption == ShardOf \in [Keys -> Lanes]

Init == LifecycleInit("poll", [o \in Ops |-> ShardOf[OpKey[o]]])

\* scheduleSubmitFailureCleanup up to its beginSubmit.
ScheduleCleanup(o) ==
    /\ pc[o] = "handoff"
    /\ pc' = [pc EXCEPT ![o] = IF stopped THEN "late" ELSE "enqueue"]
    /\ inFlight' = IF stopped THEN inFlight ELSE inFlight + 1
    /\ UNCHANGED <<laneVars, fence, cleanupVars, sectionVars, outcome>>
    /\ HandoffFrame

\* The steps of an operation that its ctx does not decide.
OpStep(o) ==
    \/ /\ \/ WaitForMandatoryCleanup(o) \/ FenceProgress(o) \/ FenceStopped(o)
          \/ AdmitTask(o) \/ SendTask(o) \/ SendOnClosed(o) \/ SendBlocks(o)
          \/ AbandonSend(o, "stop") \/ EndSubmit(o) \/ EndSubmitTest(o)
       /\ UNCHANGED stpc
    \/ ScheduleCleanup(o) \/ EnqueueCleanup(o)
    \/ EndHandoff(o, "late") \/ EndHandoffTest(o, "late")
    \/ HandoffLate(o, at[o]) \/ BeginLifecycleCleanup(o)
    \/ EndLifecycleCleanup(o)

Submit(o) == BeginSubmit(o, "wait") /\ UNCHANGED stpc

Cancel(o) ==
    /\ CancelBeforeAdmit(o) \/ AbandonSend(o, "ctx")
    /\ UNCHANGED stpc

LaneStep(l) == WorkerStep(l) /\ UNCHANGED stpc

InstallSection(s) == InstallExclusive(s, Lanes)

SectionRuns(s) == SectionStep(s) \/ InstallSection(s) \/ AwaitRunning(s, TRUE)

\* stopGraceful begins with signalStopOnce, stopHard with signalHardStopOnce.
BeginStop(x) ==
    /\ stpc[x] = "idle"
    /\ StopMoves(x, IF x = "hard" THEN "begin" ELSE "signal")

StopRuns(x) == StopStep(x) \/ CloseQueueChannels(x, Lanes)

\* All calls have returned and the lanes are quiet: nothing is left to do.
Finished ==
    /\ \/ crashed
       \/ /\ \A o \in Ops : pc[o] = "done"
          /\ \A s \in Sections : spc[s] = "ended"
          /\ \A x \in Stoppers : stpc[x] = "returned"
    /\ UNCHANGED allVars

Next ==
    \/ /\ ~crashed
       /\ \/ \E o \in Ops : Submit(o) \/ OpStep(o) \/ Cancel(o)
          \/ \E l \in Lanes : LaneStep(l)
          \/ \E s \in Sections :
                TakeTurn(s) \/ SectionRuns(s) \/ SectionFails(s, "ctx")
          \/ \E x \in Stoppers : BeginStop(x) \/ StopRuns(x) \/ StopTimeout(x)
    \/ Finished

Spec == Init /\ [][Next]_allVars

\* The Go scheduler runs every goroutine that can run, and tasks, releases and
\* section callbacks return.  Nobody is made to call, cancel or time out.
Fairness ==
    /\ \A o \in Ops : WF_allVars(~crashed /\ OpStep(o))
    /\ \A l \in Lanes : WF_allVars(~crashed /\ LaneStep(l))
    /\ \A s \in Sections : WF_allVars(~crashed /\ SectionRuns(s))
    /\ \A x \in Stoppers : WF_allVars(~crashed /\ StopRuns(x))

FairSpec == Spec /\ Fairness

=============================================================================
