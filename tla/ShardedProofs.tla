--------------------------- MODULE ShardedProofs ---------------------------
(***************************************************************************)
(* Theorems about the Sharded strategy, for any set of calls, keys, shards, *)
(* sections and stop calls and any queue capacity.                          *)
(***************************************************************************)
EXTENDS Sharded, FenceProofs

\* Every call works on the shard of its key.
AtShard == \A o \in Ops : at[o] = ShardOf[OpKey[o]]

\* The inductive invariant.
ShardedInv ==
    /\ BaseType
    /\ AtShard
    /\ Registrations
    /\ Turn
    /\ OrderInv

\* Each call is on a lane.
LEMMA OnLane ==
    ASSUME AtShard, NEW o \in Ops
    PROVE  at[o] \in Lanes
BY ConstantsAssumption, ShardAssumption
   DEF AtShard, ConstantsAssumption, ShardAssumption

\* The initial state of newShardedStrategy satisfies the invariant.
LEMMA InitInv == Init => ShardedInv
<1> SUFFICES ASSUME Init PROVE ShardedInv
  OBVIOUS
<1> USE DEF Init, LifecycleInit
<1>1. SubmitType /\ AtShard
  BY ConstantsAssumption, ShardAssumption
     DEF ConstantsAssumption, ShardAssumption, SubmitType, AtShard, PcType
<1>2. LaneType
  BY DEF LaneType
<1>3. WorkerType
  BY EntriesTyped DEF WorkerType, WpcType
<1>4. StopType
  BY DEF StopType, StpcType
<1>5. SectionType
  BY DEF SectionType, SpcType
<1>6. HistoryType
  <2>1. <<>> \in Seq(Results)
    OBVIOUS
  <2> QED BY <2>1 DEF HistoryType
<1>7. Registrations
  BY RegNone DEF Init, LifecycleInit
<1>8. Turn
  BY DEF Turn
<1>9. OrderInv
  <2>1. \A l \in Lanes : Unsent(l) = {}
    BY DEF Unsent
  <2>2. Admissions
    <3> SUFFICES ASSUME NEW l \in Lanes
                 PROVE  /\ 0 = 0 + (0 - 0) + Cardinality(Unsent(l))
                        /\ \A o \in Unsent(l) : ticket[o] <= 0
      BY DEF Admissions
    <3>1. Unsent(l) = {} /\ Cardinality(Unsent(l)) = 0
      BY <2>1, FS_EmptySet
    <3> HIDE DEF Init, LifecycleInit
    <3> QED BY <3>1
  <2>3. Targets
    BY DEF Targets
  <2>4. BacklogOrder
    BY DEF BacklogOrder, NoEntry
  <2> QED BY <2>2, <2>3, <2>4 DEF OrderInv
<1> QED
  BY <1>1, <1>2, <1>3, <1>4, <1>5, <1>6, <1>7, <1>8, <1>9
     DEF ShardedInv, BaseType

-----------------------------------------------------------------------------
(* The steps of the specification.                                          *)

\* beginSubmit of a handoff.
LEMMA RegSchedule ==
    ASSUME BaseType, Registrations, NEW o \in Ops, ScheduleCleanup(o)
    PROVE  Registrations'
<1>1. pc[o] = "handoff" /\ reg' = reg /\ pc[o] \notin HandPc
  BY DEF ScheduleCleanup, HandoffFrame, HandPc
<1>2. CASE stopped
  BY <1>1, <1>2, RegKept DEF ScheduleCleanup, HandPc, QueuePc
<1>3. CASE ~stopped
  <2>1. /\ "enqueue" \in HandPc /\ pc' = [pc EXCEPT ![o] = "enqueue"]
        /\ inFlight' = inFlight + 1
    BY <1>3 DEF ScheduleCleanup, HandPc
  <2> QED BY <1>1, <2>1, RegHand
<1> QED BY <1>2, <1>3

\* What remains of the invariant when no section moves.
LEMMA Combine ==
    ASSUME ShardedInv, BaseType', Registrations', OrderInv',
           UNCHANGED <<at, spc>>, deferred' = deferred \/ deferred' # <<>>
    PROVE  ShardedInv'
<1>1. AtShard'
  BY DEF ShardedInv, AtShard
<1>2. Turn'
  BY DEF ShardedInv, Turn
<1> QED BY <1>1, <1>2 DEF ShardedInv

\* A submit call begins.
LEMMA SubmitInv ==
    ASSUME ShardedInv, NEW o \in Ops, Submit(o)
    PROVE  ShardedInv'
<1>1. BeginSubmit(o, "wait") /\ stpc' = stpc
  BY DEF Submit
<1>2. BaseType'
  BY <1>1, BeginTyped DEF ShardedInv, PcType
<1>3. Registrations'
  BY <1>1, RegBegin DEF ShardedInv, QueuePc
<1>4. UNCHANGED <<at, ticket, backlog, admitted, settled, accepted, handled, cur,
                  spc, deferred>>
  BY <1>1 DEF BeginSubmit, laneVars, workerVars, sectionVars
<1>5. \A p \in Ops : pc'[p] \in {"send", "blocked"}
                        <=> pc[p] \in {"send", "blocked"}
  BY <1>1 DEF BeginSubmit, Fail, Return, ShardedInv, BaseType, SubmitType
<1>6. OrderInv'
  BY <1>4, <1>5, OrderKept DEF ShardedInv
<1> QED BY <1>2, <1>3, <1>4, <1>6, Combine

\* The steps of sendToQueue and endSubmit.
LEMMA SendingInv ==
    ASSUME ShardedInv, NEW o \in Ops, stpc' = stpc,
           \/ WaitForMandatoryCleanup(o) \/ FenceProgress(o) \/ FenceStopped(o)
           \/ CancelBeforeAdmit(o) \/ AdmitTask(o) \/ SendTask(o)
           \/ SendOnClosed(o) \/ SendBlocks(o) \/ EndSubmit(o)
           \/ EndSubmitTest(o) \/ \E r : AbandonSend(o, r)
    PROVE  ShardedInv'
<1> USE DEF ShardedInv
<1>1. at[o] \in Lanes
  BY OnLane
<1>2. CASE WaitForMandatoryCleanup(o) \/ FenceProgress(o) \/ SendBlocks(o)
  <2>1. BaseType'
    BY <1>1, <1>2, WaitTyped, FenceProgressTyped, BlocksTyped
  <2>2. ProducerFrame
    BY <1>2 DEF WaitForMandatoryCleanup, FenceProgress, SendBlocks
  <2>3. PICK x \in {"admit", "fenced", "wait", "blocked"} :
           /\ pc' = [pc EXCEPT ![o] = x]
           /\ pc[o] \in QueuePc
           /\ x = "blocked" <=> pc[o] = "send"
           /\ pc[o] # "blocked"
    BY <1>2 DEF WaitForMandatoryCleanup, FenceProgress, SendBlocks, QueuePc
  <2>4. Registrations'
    <3>1. reg[o]
      BY <2>3 DEF Registrations
    <3> QED BY <2>2, <2>3, <3>1, RegKept
            DEF ProducerFrame, HandPc, QueuePc, stopVars
  <2>5. \A p \in Ops : pc'[p] \in {"send", "blocked"}
                          <=> pc[p] \in {"send", "blocked"}
    BY <2>3 DEF BaseType, SubmitType
  <2>6. OrderInv'
    BY <2>2, <2>5, OrderKept DEF ProducerFrame, laneVars, workerVars, historyVars
  <2> QED
    BY <2>1, <2>2, <2>4, <2>6, Combine DEF ProducerFrame, sectionVars
<1>3. CASE FenceStopped(o) \/ CancelBeforeAdmit(o)
  <2>1. BaseType'
    BY <1>3, FenceStoppedTyped, CancelTyped
  <2>2. ProducerFrame /\ Fail(o) /\ pc[o] \in {"fenced", "admit"}
    BY <1>3 DEF FenceStopped, CancelBeforeAdmit
  <2>3. Registrations'
    BY <2>2, RegFail DEF ProducerFrame, HandPc, stopVars
  <2>4. \A p \in Ops : pc'[p] \in {"send", "blocked"}
                          <=> pc[p] \in {"send", "blocked"}
    BY <2>2 DEF Fail, Return, BaseType, SubmitType
  <2>5. OrderInv'
    BY <2>2, <2>4, OrderKept DEF ProducerFrame, laneVars, workerVars, historyVars
  <2> QED
    BY <2>1, <2>2, <2>3, <2>5, Combine DEF ProducerFrame, sectionVars
<1>4. CASE AdmitTask(o)
  <2>1. BaseType' /\ OrderInv'
    BY <1>1, <1>4, AdmitTyped, OrderAdmit
  <2>2. Registrations'
    BY <1>4, RegKept DEF AdmitTask, Registrations, HandPc, QueuePc, stopVars
  <2> QED BY <1>4, <2>1, <2>2, Combine DEF AdmitTask, sectionVars
<1>5. CASE SendTask(o)
  <2>1. BaseType' /\ OrderInv'
    BY <1>1, <1>5, SendTyped, OrderSend
  <2>2. Registrations'
    BY <1>5, RegKept DEF SendTask, Registrations, HandPc, QueuePc, stopVars
  <2> QED BY <1>5, <2>1, <2>2, Combine DEF SendTask, sectionVars
<1>6. CASE SendOnClosed(o)
  <2>1. BaseType'
    BY <1>6, CrashTyped
  <2>2. Registrations'
    BY <1>6, RegSame DEF SendOnClosed, submitVars, stopVars
  <2>3. OrderInv'
    BY <1>6, OrderKept
       DEF SendOnClosed, submitVars, laneVars, workerVars, historyVars
  <2> QED BY <1>6, <2>1, <2>2, <2>3, Combine
          DEF SendOnClosed, submitVars, sectionVars
<1>7. CASE EndSubmit(o)
  <2>1. BaseType' /\ Registrations'
    BY <1>7, EndSubmitTyped, RegEnd
  <2>2. \A p \in Ops : pc'[p] \in {"send", "blocked"}
                          <=> pc[p] \in {"send", "blocked"}
    BY <1>7 DEF EndSubmit, LeaveSubmit, BaseType, SubmitType
  <2>3. OrderInv'
    BY <1>7, <2>2, OrderKept DEF EndSubmit, laneVars, workerVars, historyVars
  <2> QED BY <1>7, <2>1, <2>3, Combine DEF EndSubmit, sectionVars
<1>8. CASE EndSubmitTest(o)
  <2>1. BaseType'
    BY <1>8, EndTestTyped
  <2>2. Registrations'
    BY <1>8, RegKept DEF EndSubmitTest, TestStop, HandPc, QueuePc
  <2>3. \A p \in Ops : pc'[p] \in {"send", "blocked"}
                          <=> pc[p] \in {"send", "blocked"}
    BY <1>8 DEF EndSubmitTest, TestStop, BaseType, SubmitType
  <2>4. OrderInv'
    BY <1>8, <2>3, OrderKept DEF EndSubmitTest, TestStop, laneVars, workerVars
  <2> QED BY <1>8, <2>1, <2>2, <2>4, Combine
          DEF EndSubmitTest, TestStop, sectionVars
<1>9. ASSUME NEW r, AbandonSend(o, r)
      PROVE  ShardedInv'
  <2>1. BaseType' /\ OrderInv'
    BY <1>1, <1>9, AbandonTyped, OrderAbandon
  <2>2. Registrations'
    BY <1>9, RegFail DEF AbandonSend, HandPc, stopVars
  <2> QED BY <1>9, <2>1, <2>2, Combine DEF AbandonSend, sectionVars
<1> QED
  BY <1>2, <1>3, <1>4, <1>5, <1>6, <1>7, <1>8, <1>9

\* The steps of a handoff and of a release on the caller's goroutine.
LEMMA HandoffInv ==
    ASSUME ShardedInv, NEW o \in Ops,
           \/ ScheduleCleanup(o) \/ EnqueueCleanup(o) \/ EndHandoff(o, "late")
           \/ EndHandoffTest(o, "late") \/ HandoffLate(o, at[o])
           \/ BeginLifecycleCleanup(o) \/ EndLifecycleCleanup(o)
    PROVE  ShardedInv'
<1> USE DEF ShardedInv
<1>1. PICK l \in Lanes : l = at[o]
  BY OnLane
<1>2. CASE ScheduleCleanup(o)
  <2>1. pc' \in [Ops -> PcType] /\ inFlight' \in Int
    BY <1>2 DEF ScheduleCleanup, BaseType, SubmitType, PcType
  <2>2. BaseType'
    BY <1>2, <2>1 DEF BaseType, SubmitType, LaneType, WorkerType, StopType,
       SectionType, HistoryType, laneVars, workerVars, cleanupVars, sectionVars,
       historyVars, ScheduleCleanup, HandoffFrame
  <2>3. \A p \in Ops : pc'[p] \in {"send", "blocked"}
                          <=> pc[p] \in {"send", "blocked"}
    BY <1>2 DEF ScheduleCleanup, BaseType, SubmitType
  <2>4. OrderInv'
    BY <1>2, <2>3, OrderKept
       DEF ScheduleCleanup, HandoffFrame, laneVars, workerVars, historyVars
  <2> QED BY <1>2, <2>2, <2>4, RegSchedule, Combine
          DEF ScheduleCleanup, HandoffFrame, sectionVars
<1>3. CASE EnqueueCleanup(o)
  <2>1. BaseType'
    BY <1>1, <1>3, EnqueueCleanupTyped
  <2>2. PICK x \in {"taken", "refused"} : pc' = [pc EXCEPT ![o] = x]
    BY <1>3 DEF EnqueueCleanup
  <2>3. pc[o] = "enqueue" /\ HandoffFrame /\ UNCHANGED <<inFlight, sectionVars>>
    BY <1>3 DEF EnqueueCleanup
  <2>4. Registrations'
    BY <2>2, <2>3, RegKept DEF HandoffFrame, HandPc, QueuePc
  <2>5. \A p \in Ops : pc'[p] \in {"send", "blocked"}
                          <=> pc[p] \in {"send", "blocked"}
    BY <2>2, <2>3 DEF BaseType, SubmitType
  <2>6. OrderInv'
    <3>1. CASE EnqueueMandatory(l, Entry("release", o, l, FALSE))
      BY <3>1, <2>3, <2>5, OrderEnqueue DEF HandoffFrame, workerVars, historyVars
    <3>2. CASE UNCHANGED laneVars
      BY <3>2, <2>3, <2>5, OrderKept
         DEF HandoffFrame, laneVars, workerVars, historyVars
    <3> QED BY <1>1, <1>3, <3>1, <3>2 DEF EnqueueCleanup
  <2> QED BY <2>1, <2>3, <2>4, <2>6, Combine DEF HandoffFrame, sectionVars
<1>4. CASE EndHandoff(o, "late")
  <2>1. BaseType' /\ Registrations'
    BY <1>4, EndHandoffTyped, RegEndHandoff DEF PcType
  <2>2. \A p \in Ops : pc'[p] \in {"send", "blocked"}
                          <=> pc[p] \in {"send", "blocked"}
    BY <1>4 DEF EndHandoff, LeaveSubmit, Return, BaseType, SubmitType
  <2>3. OrderInv'
    BY <1>4, <2>2, OrderKept
       DEF EndHandoff, HandoffFrame, laneVars, workerVars, historyVars
  <2> QED BY <1>4, <2>1, <2>3, Combine DEF EndHandoff, HandoffFrame, sectionVars
<1>5. CASE EndHandoffTest(o, "late")
  <2>1. BaseType'
    BY <1>5, EndHandoffTestTyped DEF PcType
  <2>2. PICK x \in {"late", "end", "done"} :
           pc' = [pc EXCEPT ![o] = x] /\ (x = "end" => reg[o])
    BY <1>5 DEF EndHandoffTest, TestStop, Return
  <2>3. /\ pc[o] \in {"takenTest", "refusedTest"}
        /\ UNCHANGED <<at, ticket, reg, inFlight, laneVars, workerVars,
                       sectionVars, accepted, handled>>
    BY <1>5 DEF EndHandoffTest, TestStop
  <2>4. Registrations'
    BY <2>2, <2>3, RegKept DEF HandPc, QueuePc
  <2>5. \A p \in Ops : pc'[p] \in {"send", "blocked"}
                          <=> pc[p] \in {"send", "blocked"}
    BY <2>2, <2>3 DEF BaseType, SubmitType
  <2>6. OrderInv'
    BY <2>3, <2>5, OrderKept DEF laneVars, workerVars
  <2> QED BY <2>1, <2>3, <2>4, <2>6, Combine DEF sectionVars
<1>6. CASE HandoffLate(o, at[o])
  <2>1. HandoffLate(o, l)
    BY <1>1, <1>6
  <2>2. BaseType'
    BY <2>1, HandoffLateTyped
  <2>3. PICK x \in {"off", "end", "done"} :
           pc' = [pc EXCEPT ![o] = x] /\ (x = "end" => reg[o])
    BY <2>1 DEF HandoffLate, Return
  <2>4. pc[o] = "late" /\ HandoffFrame /\ UNCHANGED <<inFlight, sectionVars>>
    BY <2>1 DEF HandoffLate
  <2>5. Registrations'
    BY <2>3, <2>4, RegKept DEF HandoffFrame, HandPc, QueuePc
  <2>6. \A p \in Ops : pc'[p] \in {"send", "blocked"}
                          <=> pc[p] \in {"send", "blocked"}
    BY <2>3, <2>4 DEF BaseType, SubmitType
  <2>7. OrderInv'
    <3>1. CASE EnqueueMandatory(l, Entry("release", o, l, TRUE))
      BY <3>1, <2>4, <2>6, OrderEnqueue DEF HandoffFrame, workerVars, historyVars
    <3>2. CASE UNCHANGED laneVars
      BY <3>2, <2>4, <2>6, OrderKept
         DEF HandoffFrame, laneVars, workerVars, historyVars
    <3> QED BY <2>1, <3>1, <3>2 DEF HandoffLate
  <2> QED BY <2>2, <2>4, <2>5, <2>7, Combine DEF HandoffFrame, sectionVars
<1>7. CASE BeginLifecycleCleanup(o) \/ EndLifecycleCleanup(o)
  <2>1. BaseType'
    BY <1>7, BeginCleanupTyped, EndCleanupTyped
  <2>2. PICK x \in {"cleanup", "end", "done"} :
           pc' = [pc EXCEPT ![o] = x] /\ (x = "end" => reg[o])
    BY <1>7 DEF BeginLifecycleCleanup, EndLifecycleCleanup, Return
  <2>3. /\ pc[o] \in {"off", "cleanup"} /\ HandoffFrame
        /\ UNCHANGED <<inFlight, laneVars, spc>>
    BY <1>7 DEF BeginLifecycleCleanup, EndLifecycleCleanup, sectionVars
  <2>4. deferred' = deferred \/ deferred' # <<>>
    <3>1. Append(deferred, o) # <<>>
      <4>1. deferred \in Seq(Ops)
        BY DEF BaseType, SectionType
      <4> HIDE DEF ShardedInv
      <4>2. Len(Append(deferred, o)) = Len(deferred) + 1 /\ Len(deferred) \in Nat
        BY <4>1
      <4> QED BY <4>2
    <3> QED BY <1>7, <3>1
            DEF BeginLifecycleCleanup, EndLifecycleCleanup, sectionVars
  <2>5. Registrations'
    BY <2>2, <2>3, RegKept DEF HandoffFrame, HandPc, QueuePc
  <2>6. \A p \in Ops : pc'[p] \in {"send", "blocked"}
                          <=> pc[p] \in {"send", "blocked"}
    BY <2>2, <2>3 DEF BaseType, SubmitType
  <2>7. OrderInv'
    BY <2>3, <2>6, OrderKept DEF HandoffFrame, laneVars, workerVars, historyVars
  <2> QED BY <2>1, <2>3, <2>4, <2>5, <2>7, Combine DEF HandoffFrame
<1> QED BY <1>2, <1>3, <1>4, <1>5, <1>6, <1>7

\* The steps of a call.
LEMMA CallInv ==
    ASSUME ShardedInv, NEW o \in Ops, Submit(o) \/ OpStep(o) \/ Cancel(o)
    PROVE  ShardedInv'
<1>1. CASE Submit(o)
  BY <1>1, SubmitInv
<1>2. CASE OpStep(o)
  BY <1>2, SendingInv, HandoffInv DEF OpStep
<1>3. CASE Cancel(o)
  BY <1>3, SendingInv DEF Cancel
<1> QED BY <1>1, <1>2, <1>3

\* The steps of a worker.
LEMMA LaneInv ==
    ASSUME ShardedInv, NEW l \in Lanes, LaneStep(l)
    PROVE  ShardedInv'
<1> USE DEF ShardedInv
<1>1. WorkerStep(l) /\ stpc' = stpc
  BY DEF LaneStep
<1>2. BaseType' /\ OrderInv'
  BY <1>1, WorkerTyped, OrderWorker
<1>3. UNCHANGED <<submitVars, stopVars, spc, deferred>>
  BY <1>1 DEF WorkerStep, TakeMandatory, NoMandatory, Receive, Complete,
     TakeWake, SeeFence, SeeClosed, FinishWorker, ParkBarrier, LeaveBarrier,
     IdleFrame, WorkerFrame, sectionVars
<1>4. Registrations'
  BY <1>3, RegSame DEF submitVars, stopVars
<1> QED BY <1>2, <1>3, <1>4, Combine DEF submitVars

\* The steps of an Exclusive call.
LEMMA SectionInv ==
    ASSUME ShardedInv, NEW s \in Sections,
           TakeTurn(s) \/ SectionRuns(s) \/ SectionFails(s, "ctx")
    PROVE  ShardedInv'
<1> USE DEF ShardedInv
<1>0. SectionMove(s, Lanes, TRUE)
  BY DEF SectionMove, SectionRuns, InstallSection
<1>1. BaseType' /\ Turn'
  BY <1>0, SectionMoveTyped, TurnKept
<1>2. SectionFrame
  BY <1>0, SectionFramed
<1>3. AtShard'
  BY <1>2 DEF SectionFrame, submitVars, AtShard
<1>4. Registrations'
  BY <1>2, RegSame DEF SectionFrame, submitVars, stopVars
<1>5. OrderInv'
  <2>1. CASE UNCHANGED laneVars
    BY <1>2, <2>1, OrderKept
       DEF SectionFrame, submitVars, laneVars, workerVars, historyVars
  <2>2. ASSUME NEW l \in Lanes, EnqueueMandatory(l, Entry("barrier", s, l, FALSE))
        PROVE  OrderInv'
    BY <1>2, <2>2, OrderEnqueue
       DEF SectionFrame, submitVars, workerVars, historyVars
  <2>3. CASE PlaceBarrier(s)
    BY <2>1, <2>2, <2>3 DEF PlaceBarrier, BaseType, SectionType
  <2>4. CASE ~PlaceBarrier(s)
    BY <1>0, <2>1, <2>4, SectionLanes
  <2> QED BY <2>3, <2>4
<1> QED BY <1>1, <1>3, <1>4, <1>5

\* The steps of a stop call.
LEMMA StopInv ==
    ASSUME ShardedInv, NEW x \in Stoppers,
           BeginStop(x) \/ StopRuns(x) \/ StopTimeout(x)
    PROVE  ShardedInv'
<1> USE DEF ShardedInv
<1>1. BaseType'
  <2>1. CASE BeginStop(x)
    BY <2>1, StopMovesTyped DEF BeginStop, StpcType
  <2> QED BY <2>1, StopTyped, CloseTyped DEF StopRuns
<1>2. /\ StopFrame
      /\ UNCHANGED <<backlog, admitted, settled>>
  BY DEF BeginStop, StopRuns, StopStep, StopTimeout, CloseQueueChannels,
     SignalHardStop, SignalStop, WaitInFlightSubmits, WaitWorkers, WaitSections,
     FinishLifecycleCleanups, StopMoves, laneVars
<1>3. Registrations'
  BY <1>2, RegSame DEF StopFrame, submitVars
<1>4. OrderInv'
  BY <1>2, OrderKept DEF StopFrame, submitVars, workerVars
<1> QED BY <1>1, <1>2, <1>3, <1>4, Combine DEF StopFrame, submitVars, sectionVars

\* Every step keeps the invariant.
LEMMA NextInv == ShardedInv /\ [Next]_allVars => ShardedInv'
<1> SUFFICES ASSUME ShardedInv, [Next]_allVars PROVE ShardedInv'
  OBVIOUS
<1>1. CASE UNCHANGED allVars
  <2> USE <1>1 DEF ShardedInv, allVars, submitVars, laneVars, workerVars,
      stopVars, cleanupVars, sectionVars, historyVars
  <2>1. BaseType'
    BY DEF BaseType, SubmitType, LaneType, WorkerType, StopType, SectionType,
       HistoryType
  <2>2. Registrations'
    BY RegSame
  <2>3. OrderInv'
    BY OrderKept
  <2> QED BY <2>1, <2>2, <2>3, Combine
<1>2. CASE Next
  BY <1>1, <1>2, CallInv, LaneInv, SectionInv, StopInv DEF Next, Finished
<1> QED BY <1>1, <1>2

-----------------------------------------------------------------------------
(* The theorems.                                                            *)

\* The inductive invariant holds in every reachable state.
THEOREM Invariance == Spec => []ShardedInv
BY InitInv, NextInv, PTL DEF Spec

\* The state of strategy.go, exclusive.go and sharded.go keeps its types, and
\* inFlightSubmits is never negative however endSubmit interleaves.
THEOREM TypeCorrect == Spec => []TypeOK
<1>1. ShardedInv => TypeOK
  <2> SUFFICES ASSUME ShardedInv PROVE inFlight \in Nat
    BY DEF ShardedInv, BaseType, TypeOK
  <2> QED BY RegFinite DEF ShardedInv, Registrations
<1> QED BY Invariance, <1>1, PTL

\* No release and no barrier overtakes a task its lane had accepted before it,
\* for any number of producers, abandoned sends and queued entries.
THEOREM OrderCorrect == Spec => []BacklogOrder
<1>1. ShardedInv => BacklogOrder
  BY DEF ShardedInv, OrderInv
<1> QED BY Invariance, <1>1, PTL

-----------------------------------------------------------------------------
(***************************************************************************)
(* What the Sharded strategy leaves behind, for any set of calls, keys,     *)
(* shards, sections and stop calls.                                         *)
(*                                                                         *)
(* A call's work is always at one place: with the call, in a channel, in a  *)
(* backlog, in a worker's hand, with a section, or done (OnePlace).  So it  *)
(* is resolved at most once; and a stop, which ends the workers only when   *)
(* channel and backlog are empty and then waits for sections and counted    *)
(* releases, leaves no place but the last.  A section counts its barriers   *)
(* (Barriers): when as many lanes reported as were given one, all of them   *)
(* are held.                                                               *)
(***************************************************************************)
\* What the worker of a lane has in hand and how its end is reached: the
\* channel is closed after the submit fence, the worker sees it drained and
\* exits with nothing queued.  A shard is never retired.
Workers ==
    \A l \in Lanes :
        /\ ~retired[l]
        /\ wpc[l] # "unborn"
        /\ wpc[l] \in {"run", "abort"} => cur[l].kind \in {"task", "release"}
        /\ wpc[l] \in {"barrier", "held"} => cur[l].kind = "barrier"
        /\ wpc[l] \notin {"run", "abort", "barrier", "held"} => cur[l].kind = "none"
        /\ wpc[l] \in {"finish", "park", "exited"} => ended[l]
        /\ ended[l] => closed[l] /\ ch[l] = <<>>
        /\ wpc[l] = "exited" => backlog[l] = <<>>
        /\ closed[l] => fence

\* What is on a lane belongs to it.
LaneOps ==
    \A l \in Lanes :
        /\ \A i \in DOMAIN ch[l] : at[ch[l][i]] = l
        /\ \A i \in DOMAIN backlog[l] :
              \/ /\ backlog[l][i].kind = "release"
                 /\ backlog[l][i].op \in Ops
                 /\ at[backlog[l][i].op] = l
              \/ /\ backlog[l][i].kind = "barrier"
                 /\ backlog[l][i].op \in Sections
                 /\ ~backlog[l][i].late
        /\ cur[l].kind \in {"task", "release"} => cur[l].op \in Ops /\ at[cur[l].op] = l
        /\ cur[l].kind = "barrier" => cur[l].op \in Sections /\ ~cur[l].late

\* The order of a stop: the signal, the submit fence, the workers, the
\* sections, the counted releases.
StopOrder ==
    /\ fence => stopped
    /\ sealed => /\ stopped /\ tracked = {}
                 /\ \A s \in Sections : ~SectionRegistered(s)
    /\ \A x \in Stoppers :
          /\ stpc[x] = "fence" => stopped
          /\ stpc[x] \in {"close", "workers", "sections", "cleanups", "returned"}
                => fence
          /\ stpc[x] \in {"sections", "cleanups", "returned"}
                => \A l \in Lanes : wpc[l] = "exited"
          /\ stpc[x] \in {"cleanups", "returned"}
                => \A s \in Sections : ~SectionRegistered(s)
          /\ stpc[x] = "returned" => sealed
    /\ \A o \in Ops : pc[o] \in {"late", "off", "cleanup", "refused", "refusedTest"}
                         => stopped

\* Where lanes, calls and stop calls are in their protocol.
ControlInv == Workers /\ LaneOps /\ StopOrder

-----------------------------------------------------------------------------
(* ControlInv.                                                              *)

\* Workers, when no worker moves.
LEMMA WorkersKept ==
    ASSUME Workers, UNCHANGED <<retired, wpc, cur, ended>>, fence => fence',
           \A l \in Lanes : closed'[l] => closed[l] \/ fence',
           \A l \in Lanes : closed[l] => closed'[l],
           \A l \in Lanes : ended[l] => ch'[l] = ch[l],
           \A l \in Lanes : wpc[l] = "exited" => backlog'[l] = backlog[l]
    PROVE  Workers'
BY DEF Workers

\* LaneOps, when nothing is queued.
LEMMA LaneOpsKept ==
    ASSUME LaneOps, UNCHANGED <<at, ch, backlog, cur>>
    PROVE  LaneOps'
BY DEF LaneOps

\* LaneOps, when an entry is queued.
LEMMA LaneOpsEnqueue ==
    ASSUME BaseType, LaneOps, NEW l \in Lanes, NEW e \in EntryType,
           backlog' = [backlog EXCEPT ![l] = Append(@, e)],
           \/ e.kind = "release" /\ e.op \in Ops /\ at[e.op] = l
           \/ e.kind = "barrier" /\ e.op \in Sections /\ ~e.late,
           UNCHANGED <<at, ch, cur>>
    PROVE  LaneOps'
<1>1. ASSUME NEW m \in Lanes, NEW i \in DOMAIN backlog'[m]
      PROVE  \/ backlog'[m][i] = e /\ m = l
             \/ i \in DOMAIN backlog[m] /\ backlog'[m][i] = backlog[m][i]
  <2>1. CASE m # l
    <3>1. backlog'[m] = backlog[m]
      BY <2>1 DEF BaseType, LaneType
    <3> QED BY <3>1
  <2>2. CASE m = l
    <3>1. backlog'[m] = Append(backlog[l], e)
      BY <2>2 DEF BaseType, LaneType
    <3>2. backlog[l] \in Seq(EntryType)
      BY DEF BaseType, LaneType
    <3> QED BY <1>1, <2>2, <3>1, <3>2, SeqElements
  <2> QED BY <2>1, <2>2
<1> QED BY <1>1 DEF LaneOps

\* StopOrder, when no call, stop or section moves on.
LEMMA StopOrderKept ==
    ASSUME StopOrder, UNCHANGED <<stopped, sealed, tracked, spc, stpc>>,
           fence => fence', fence' => stopped,
           \A l \in Lanes : wpc[l] = "exited" => wpc'[l] = "exited",
           \A o \in Ops : pc'[o] \in {"late", "off", "cleanup", "refused",
                                      "refusedTest"} => stopped
    PROVE  StopOrder'
BY DEF StopOrder, SectionRegistered

\* The steps of a call that leave lanes alone.
LEMMA ControlMoves ==
    ASSUME ControlInv, UNCHANGED <<at, laneVars, workerVars, stopped, sealed, tracked,
                                   spc, stpc>>,
           fence => fence', fence' => stopped,
           \A o \in Ops : pc'[o] \in {"late", "off", "cleanup", "refused",
                                      "refusedTest"} => stopped
    PROVE  ControlInv'
<1>1. Workers'
  BY WorkersKept DEF ControlInv, laneVars, workerVars
<1>2. LaneOps'
  BY LaneOpsKept DEF ControlInv, laneVars, workerVars
<1>3. StopOrder'
  BY StopOrderKept DEF ControlInv, workerVars
<1> QED BY <1>1, <1>2, <1>3 DEF ControlInv

\* Producers.
LEMMA ControlSubmit ==
    ASSUME ShardedInv, ControlInv, NEW o \in Ops, stpc' = stpc,
           \/ BeginSubmit(o, "wait")
           \/ WaitForMandatoryCleanup(o) \/ FenceProgress(o) \/ FenceStopped(o)
           \/ CancelBeforeAdmit(o) \/ SendOnClosed(o) \/ SendBlocks(o)
           \/ EndSubmit(o) \/ EndSubmitTest(o)
    PROVE  ControlInv'
<1>1. UNCHANGED <<at, laneVars, workerVars, stopped, sealed, tracked, spc>>
  BY DEF BeginSubmit, WaitForMandatoryCleanup, FenceProgress, FenceStopped,
     CancelBeforeAdmit, SendOnClosed, SendBlocks, EndSubmit, EndSubmitTest,
     TestStop, ProducerFrame, submitVars, stopVars, cleanupVars, sectionVars
<1>2. (fence => fence') /\ (fence' => stopped)
  BY DEF BeginSubmit, WaitForMandatoryCleanup, FenceProgress, FenceStopped,
     CancelBeforeAdmit, SendOnClosed, SendBlocks, EndSubmit, EndSubmitTest,
     TestStop, ProducerFrame, stopVars, ControlInv, StopOrder, ShardedInv,
     BaseType, StopType
<1>3. \A p \in Ops : pc'[p] = pc[p] \/ pc'[p] \notin {"late", "off", "cleanup",
                                                      "refused", "refusedTest"}
  BY DEF BeginSubmit, WaitForMandatoryCleanup, FenceProgress, FenceStopped,
     CancelBeforeAdmit, SendOnClosed, SendBlocks, EndSubmit, EndSubmitTest,
     LeaveSubmit, TestStop, ProducerFrame, submitVars, Fail, Return, ShardedInv,
     BaseType, SubmitType
<1>4. \A p \in Ops : pc'[p] \in {"late", "off", "cleanup", "refused",
                                 "refusedTest"} => stopped
  BY <1>3 DEF ControlInv, StopOrder
<1> QED BY <1>1, <1>2, <1>4, ControlMoves

\* The steps of sendToQueue that change the lane.
LEMMA ControlSend ==
    ASSUME ShardedInv, ControlInv, NEW o \in Ops, stpc' = stpc,
           AdmitTask(o) \/ SendTask(o) \/ \E r : AbandonSend(o, r)
    PROVE  ControlInv'
<1> USE DEF ShardedInv
<1>1. PICK l \in Lanes : l = at[o]
  BY OnLane
<1>2. UNCHANGED <<at, closed, retired, workerVars, stopped, fence, sealed, tracked,
                  spc>>
  BY DEF AdmitTask, SendTask, AbandonSend, cleanupVars, sectionVars, stopVars
<1>3. \A p \in Ops : pc'[p] = pc[p] \/ pc'[p] \notin {"late", "off", "cleanup",
                                                      "refused", "refusedTest"}
  BY DEF AdmitTask, SendTask, AbandonSend, Fail, Return, BaseType, SubmitType
<1>4. StopOrder'
  <2>1. \A p \in Ops : pc'[p] \in {"late", "off", "cleanup", "refused",
                                   "refusedTest"} => stopped
    BY <1>3 DEF ControlInv, StopOrder
  <2>2. fence => stopped
    BY DEF ControlInv, StopOrder
  <2> QED BY <1>2, <2>1, <2>2, StopOrderKept DEF ControlInv, workerVars
<1>5. CASE AdmitTask(o)
  <2>1. UNCHANGED <<ch, backlog>>
    BY <1>5 DEF AdmitTask
  <2> QED BY <1>2, <1>4, <2>1, WorkersKept, LaneOpsKept DEF ControlInv, workerVars
<1>6. CASE SendTask(o)
  <2>1. ch' = [ch EXCEPT ![l] = Append(@, o)] /\ UNCHANGED backlog
        /\ ~(closed[l] /\ ~retired[l])
    BY <1>1, <1>6 DEF SendTask, ChannelClosed
  <2>2. ~ended[l] /\ \A m \in Lanes : m # l => ch'[m] = ch[m]
    BY <2>1 DEF ControlInv, Workers, BaseType, LaneType
  <2>3. Workers'
    BY <1>2, <2>1, <2>2, WorkersKept DEF ControlInv, workerVars
  <2>4. \A m \in Lanes : \A i \in DOMAIN ch'[m] : at[ch'[m][i]] = m
    <3>1. ASSUME NEW m \in Lanes, NEW i \in DOMAIN ch'[m] PROVE at[ch'[m][i]] = m
      <4>1. CASE m # l
        BY <2>2, <3>1, <4>1 DEF ControlInv, LaneOps
      <4>2. CASE m = l
        <5> DEFINE q == Append(ch[l], o)
        <5>1. ch'[m] = q
          BY <2>1, <4>2 DEF BaseType, LaneType
        <5>2. ch[l] \in Seq(Ops) /\ q \in Seq(Ops)
          BY DEF BaseType, LaneType
        <5>3. i \in Nat
          BY <5>1, <5>2
        <5>4. /\ i \in DOMAIN q <=> i \in DOMAIN ch[l] \/ i = Len(ch[l]) + 1
              /\ i \in DOMAIN ch[l] => q[i] = ch[l][i]
              /\ q[Len(ch[l]) + 1] = o
          BY <5>2, <5>3, SeqAppend
        <5> HIDE DEF q
        <5> QED BY <1>1, <4>2, <5>1, <5>4 DEF ControlInv, LaneOps
      <4> QED BY <4>1, <4>2
    <3> QED BY <3>1
  <2>5. LaneOps'
    BY <1>2, <2>1, <2>4 DEF ControlInv, LaneOps, workerVars
  <2> QED BY <1>4, <2>3, <2>5 DEF ControlInv
<1>7. ASSUME NEW r, AbandonSend(o, r)
      PROVE  ControlInv'
  <2>1. /\ backlog' = [backlog EXCEPT ![l] = RaiseTargets(@, ticket[o])]
        /\ UNCHANGED ch
    BY <1>1, <1>7 DEF AbandonSend, UnmarkSent
  <2>2. /\ backlog[l] \in Seq(EntryType)
        /\ RaiseTargets(backlog[l], ticket[o]) \in Seq(EntryType)
    BY RaiseTyped DEF BaseType, LaneType
  <2>3. /\ backlog'[l] = RaiseTargets(backlog[l], ticket[o])
        /\ \A m \in Lanes : m # l => backlog'[m] = backlog[m]
    BY <2>1 DEF BaseType, LaneType
  <2>4. \A m \in Lanes :
           /\ DOMAIN backlog'[m] = DOMAIN backlog[m]
           /\ \A i \in DOMAIN backlog[m] :
                 /\ backlog'[m][i].kind = backlog[m][i].kind
                 /\ backlog'[m][i].op = backlog[m][i].op
                 /\ backlog'[m][i].late = backlog[m][i].late
    BY <2>2, <2>3, RaiseKeeps
  <2>5. LaneOps'
    BY <1>2, <2>1, <2>4 DEF ControlInv, LaneOps, workerVars
  <2>6. \A m \in Lanes : wpc[m] = "exited" => backlog'[m] = backlog[m]
    <3>1. backlog[l] = <<>> => backlog'[l] = <<>>
      BY <2>2, <2>3, <2>4
    <3> QED BY <2>3, <3>1 DEF ControlInv, Workers
  <2>7. Workers'
    BY <1>2, <2>1, <2>6, WorkersKept DEF ControlInv, workerVars
  <2> QED BY <1>4, <2>5, <2>7 DEF ControlInv
<1> QED BY <1>5, <1>6, <1>7

\* EnqueueMandatory of a release or a barrier.
LEMMA ControlEnqueue ==
    ASSUME ShardedInv, ControlInv, NEW l \in Lanes, NEW e \in EntryType,
           EnqueueMandatory(l, e), StopOrder',
           \/ e.kind = "release" /\ e.op \in Ops /\ at[e.op] = l
           \/ e.kind = "barrier" /\ e.op \in Sections /\ ~e.late,
           UNCHANGED <<at, workerVars, fence>>
    PROVE  ControlInv'
<1> USE DEF ShardedInv
<1>1. /\ backlog' = [backlog EXCEPT ![l] = Append(@, e)]
      /\ UNCHANGED <<ch, closed, retired>>
      /\ wpc[l] # "exited"
  BY DEF EnqueueMandatory, TakesMandatory
<1>2. LaneOps'
  BY <1>1, LaneOpsEnqueue DEF ControlInv, workerVars
<1>3. \A m \in Lanes : wpc[m] = "exited" => backlog'[m] = backlog[m]
  BY <1>1 DEF BaseType, LaneType
<1>4. Workers'
  BY <1>1, <1>3, WorkersKept DEF ControlInv, workerVars
<1> QED BY <1>2, <1>4 DEF ControlInv

\* The steps of a handoff.
LEMMA ControlHandoff ==
    ASSUME ShardedInv, ControlInv, NEW o \in Ops,
           \/ ScheduleCleanup(o) \/ EnqueueCleanup(o) \/ EndHandoff(o, "late")
           \/ EndHandoffTest(o, "late") \/ HandoffLate(o, at[o])
           \/ BeginLifecycleCleanup(o) \/ EndLifecycleCleanup(o)
    PROVE  ControlInv'
<1> USE DEF ShardedInv
<1>1. PICK l \in Lanes : l = at[o]
  BY OnLane
<1>2. UNCHANGED <<at, workerVars, stopped, sealed, spc, stpc>>
  BY DEF ScheduleCleanup, EnqueueCleanup, EndHandoff, EndHandoffTest, TestStop,
     HandoffLate, BeginLifecycleCleanup, EndLifecycleCleanup, HandoffFrame,
     cleanupVars, sectionVars
<1>3. (fence => fence') /\ (fence' => stopped)
  <2>1. fence => stopped
    BY DEF ControlInv, StopOrder
  <2>2. fence' = fence \/ fence' = (fence \/ stopped)
    BY DEF ScheduleCleanup, EnqueueCleanup, EndHandoff, EndHandoffTest, TestStop,
       HandoffLate, BeginLifecycleCleanup, EndLifecycleCleanup
  <2>3. fence \in BOOLEAN /\ stopped \in BOOLEAN
    BY DEF BaseType, StopType
  <2> QED BY <2>1, <2>2, <2>3
<1>4. \A p \in Ops : pc'[p] \in {"late", "off", "cleanup", "refused",
                                 "refusedTest"} => stopped
  <2>1. pc[o] \in {"late", "off", "cleanup", "refused", "refusedTest"} => stopped
    BY DEF ControlInv, StopOrder
  <2>2. \A p \in Ops : p # o => pc'[p] = pc[p]
    BY DEF ScheduleCleanup, EnqueueCleanup, EndHandoff, EndHandoffTest, TestStop,
       LeaveSubmit, HandoffLate, BeginLifecycleCleanup, EndLifecycleCleanup,
       HandoffFrame, BaseType, SubmitType
  <2>3. ~TakesMandatory(l) => stopped
    BY DEF TakesMandatory, ControlInv, Workers, StopOrder
  <2>4. pc'[o] \in {"late", "off", "cleanup", "refused", "refusedTest"} => stopped
    <3>1. CASE EnqueueCleanup(o)
      BY <1>1, <2>3, <3>1 DEF EnqueueCleanup, BaseType, SubmitType
    <3>2. CASE ScheduleCleanup(o)
      BY <3>2 DEF ScheduleCleanup, BaseType, SubmitType
    <3>3. CASE EndHandoff(o, "late") \/ EndHandoffTest(o, "late")
      BY <2>1, <3>3 DEF EndHandoff, EndHandoffTest, TestStop, LeaveSubmit, Return,
         BaseType, SubmitType
    <3>4. CASE HandoffLate(o, at[o]) \/ BeginLifecycleCleanup(o) \/ EndLifecycleCleanup(o)
      BY <2>1, <3>4 DEF HandoffLate, BeginLifecycleCleanup, EndLifecycleCleanup,
         Return, BaseType, SubmitType
    <3> QED BY <3>1, <3>2, <3>3, <3>4
  <2> QED BY <2>2, <2>4 DEF ControlInv, StopOrder
<1>5. CASE tracked' = tracked /\ UNCHANGED laneVars
  BY <1>2, <1>3, <1>4, <1>5, ControlMoves
<1>6. CASE tracked' # tracked
  <2>1. BeginLifecycleCleanup(o) \/ EndLifecycleCleanup(o)
    BY <1>6 DEF ScheduleCleanup, EnqueueCleanup, EndHandoff, EndHandoffTest,
       TestStop, HandoffLate, cleanupVars
  <2>2. UNCHANGED <<laneVars, fence>> /\ (sealed => tracked' \subseteq tracked)
    BY <2>1 DEF BeginLifecycleCleanup, EndLifecycleCleanup
  <2>3. Workers' /\ LaneOps'
    BY <1>2, <2>2, WorkersKept, LaneOpsKept DEF ControlInv, laneVars, workerVars
  <2>4. StopOrder'
    BY <1>2, <1>4, <2>2 DEF ControlInv, StopOrder, SectionRegistered, workerVars
  <2> QED BY <2>3, <2>4 DEF ControlInv
<1>7. CASE ~UNCHANGED laneVars
  <2>1. EnqueueCleanup(o) \/ HandoffLate(o, at[o])
    BY <1>7 DEF ScheduleCleanup, EndHandoff, EndHandoffTest, TestStop,
       BeginLifecycleCleanup, EndLifecycleCleanup
  <2>2. PICK w \in BOOLEAN : EnqueueMandatory(l, Entry("release", o, l, w))
    BY <1>1, <1>7, <2>1 DEF EnqueueCleanup, HandoffLate
  <2>3. fence' = fence /\ tracked' = tracked
    BY <2>1 DEF EnqueueCleanup, HandoffLate, cleanupVars
  <2>4. StopOrder'
    BY <1>2, <1>3, <1>4, <2>3, StopOrderKept DEF ControlInv, workerVars
  <2>5. PICK e \in EntryType : e = Entry("release", o, l, w)
    BY EntryTyped
  <2>6. e.kind = "release" /\ e.op = o
    BY <2>5 DEF Entry
  <2> QED BY <1>1, <1>2, <2>2, <2>3, <2>4, <2>5, <2>6, ControlEnqueue
<1> QED BY <1>5, <1>6, <1>7

\* The steps of a worker.
LEMMA ControlLane ==
    ASSUME ShardedInv, ControlInv, NEW l \in Lanes, WorkerStep(l), stpc' = stpc
    PROVE  ControlInv'
<1> USE DEF ShardedInv
<1>1. /\ UNCHANGED <<submitVars, closed, retired, stopVars, cleanupVars, spc>>
      /\ wpc[l] # "exited"
      /\ \A m \in Lanes : m # l => /\ wpc'[m] = wpc[m] /\ cur'[m] = cur[m]
                                   /\ ended'[m] = ended[m] /\ ch'[m] = ch[m]
                                   /\ backlog'[m] = backlog[m]
  <2> USE DEF WorkerStep, TakeMandatory, NoMandatory, Receive, Complete,
      TakeWake, SeeFence, SeeClosed, FinishWorker, ParkBarrier, LeaveBarrier, IdleFrame
  <2>1. UNCHANGED <<submitVars, closed, retired, stopVars, cleanupVars, spc>>
    BY DEF WorkerFrame, sectionVars
  <2>2. wpc[l] # "exited"
    OBVIOUS
  <2>3. \A m \in Lanes : m # l => wpc'[m] = wpc[m] /\ cur'[m] = cur[m]
    BY DEF BaseType, WorkerType
  <2>4. \A m \in Lanes : m # l => ended'[m] = ended[m] /\ ch'[m] = ch[m]
    BY DEF BaseType, WorkerType, LaneType
  <2>5. \A m \in Lanes : m # l => backlog'[m] = backlog[m]
    BY DEF BaseType, LaneType
  <2> QED BY <2>1, <2>2, <2>3, <2>4, <2>5
<1>2. StopOrder'
  <2>1. \A m \in Lanes : wpc[m] = "exited" => wpc'[m] = "exited"
    BY <1>1
  <2> QED BY <1>1, <2>1, StopOrderKept
          DEF ControlInv, StopOrder, submitVars, stopVars, cleanupVars
<1>3. /\ (wpc[l] \notin {"run", "abort", "barrier", "held"} => cur[l].kind = "none")
      /\ (ended[l] => closed[l] /\ ch[l] = <<>>)
      /\ ~retired[l] /\ wpc[l] # "unborn"
  BY DEF ControlInv, Workers
<1> DEFINE Mine ==
      /\ wpc'[l] # "unborn"
      /\ wpc'[l] \in {"run", "abort"} => cur'[l].kind \in {"task", "release"}
      /\ wpc'[l] \in {"barrier", "held"} => cur'[l].kind = "barrier"
      /\ wpc'[l] \notin {"run", "abort", "barrier", "held"} => cur'[l].kind = "none"
      /\ wpc'[l] \in {"finish", "park", "exited"} => ended'[l]
      /\ ended'[l] => closed[l] /\ ch'[l] = <<>>
      /\ wpc'[l] = "exited" => backlog'[l] = <<>>
<1> DEFINE Ops1 ==
      /\ \A i \in DOMAIN ch'[l] : at[ch'[l][i]] = l
      /\ \A i \in DOMAIN backlog'[l] :
            \/ /\ backlog'[l][i].kind = "release"
               /\ backlog'[l][i].op \in Ops
               /\ at[backlog'[l][i].op] = l
            \/ /\ backlog'[l][i].kind = "barrier"
               /\ backlog'[l][i].op \in Sections
               /\ ~backlog'[l][i].late
      /\ cur'[l].kind \in {"task", "release"} => cur'[l].op \in Ops /\ at[cur'[l].op] = l
      /\ cur'[l].kind = "barrier" => cur'[l].op \in Sections /\ ~cur'[l].late
<1>4. SUFFICES Mine /\ Ops1
  <2>1. Workers'
    BY <1>1, <1>4 DEF ControlInv, Workers, stopVars
  <2>2. LaneOps'
    BY <1>1, <1>4 DEF ControlInv, LaneOps, submitVars
  <2> QED BY <1>2, <2>1, <2>2 DEF ControlInv
<1>5. CASE TakeMandatory(l)
  <2>1. /\ wpc[l] = "poll" /\ backlog[l] # <<>>
        /\ backlog' = [backlog EXCEPT ![l] = Tail(@)]
        /\ cur' = [cur EXCEPT ![l] = Head1(l)]
        /\ UNCHANGED <<ch, ended>>
        /\ wpc' = [wpc EXCEPT ![l] = IF Head1(l).kind = "barrier"
                     THEN IF hard THEN "held" ELSE "barrier"
                     ELSE IF hard THEN "abort" ELSE "run"]
    BY <1>5 DEF TakeMandatory, MandatoryReady
  <2>2. backlog'[l] = Tail(backlog[l]) /\ cur'[l] = Head1(l)
        /\ wpc'[l] = IF Head1(l).kind = "barrier"
                     THEN IF hard THEN "held" ELSE "barrier"
                     ELSE IF hard THEN "abort" ELSE "run"
    BY <2>1 DEF BaseType, LaneType, WorkerType
  <2>3. \A i \in DOMAIN backlog'[l] :
           i + 1 \in DOMAIN backlog[l] /\ backlog'[l][i] = backlog[l][i + 1]
    <3> DEFINE q == Tail(backlog[l])
    <3>1. backlog[l] \in Seq(EntryType)
      BY DEF BaseType, LaneType
    <3>2. /\ \A i \in DOMAIN q : i + 1 \in DOMAIN backlog[l] /\ q[i] = backlog[l][i + 1]
          /\ 1 \in DOMAIN backlog[l] /\ Head(backlog[l]) = backlog[l][1]
          /\ backlog[l][1] \in EntryType
      BY <2>1, <3>1, SeqElements
    <3>3. backlog'[l] = q
      BY <2>2
    <3> HIDE DEF q
    <3> QED BY <3>2, <3>3
  <2>4. /\ 1 \in DOMAIN backlog[l]
        /\ Head1(l).kind = backlog[l][1].kind
        /\ Head1(l).op = backlog[l][1].op
        /\ Head1(l).late = backlog[l][1].late
    BY <2>1, HeadKeeps
  <2>5. backlog[l][1].kind \in {"release", "barrier"}
    BY <2>4 DEF ControlInv, LaneOps
  <2>6. Mine
    BY <1>3, <2>1, <2>2, <2>4, <2>5
  <2>7. Ops1
    BY <2>1, <2>2, <2>3, <2>4 DEF ControlInv, LaneOps
  <2> QED BY <2>6, <2>7
<1>6. CASE NoMandatory(l)
  <2>1. /\ wpc[l] = "poll"
        /\ UNCHANGED <<ch, cur, ended>>
        /\ wpc' = [wpc EXCEPT ![l] = IF ended[l] THEN "finish" ELSE "select"]
    BY <1>6 DEF NoMandatory
  <2>2. Mine
    BY <1>3, <2>1 DEF BaseType, WorkerType
  <2>3. /\ DOMAIN backlog'[l] = DOMAIN backlog[l]
        /\ \A i \in DOMAIN backlog[l] :
              /\ backlog'[l][i].kind = backlog[l][i].kind
              /\ backlog'[l][i].op = backlog[l][i].op
              /\ backlog'[l][i].late = backlog[l][i].late
    <3>1. CASE backlog' = backlog
      BY <3>1
    <3>2. CASE backlog[l] # <<>> /\ backlog' = [backlog EXCEPT ![l][1] = Head1(l)]
      <4>1. backlog'[l] = [backlog[l] EXCEPT ![1] = Head1(l)]
        BY <3>2 DEF BaseType, LaneType
      <4> QED BY <3>2, <4>1, HeadKeeps DEF BaseType, LaneType
    <3> QED BY <1>6, <3>1, <3>2 DEF NoMandatory
  <2>4. Ops1
    BY <2>1, <2>3 DEF ControlInv, LaneOps
  <2> QED BY <2>2, <2>4
<1>7. CASE Receive(l)
  <2>1. /\ wpc[l] = "select" /\ ch[l] # <<>>
        /\ ch' = [ch EXCEPT ![l] = Tail(@)]
        /\ cur' = [cur EXCEPT ![l] = TaskEntry(Head(ch[l]))]
        /\ wpc' = [wpc EXCEPT ![l] = IF hard THEN "abort" ELSE "run"]
        /\ UNCHANGED <<backlog, ended>>
    BY <1>7 DEF Receive
  <2>2. /\ ch'[l] = Tail(ch[l]) /\ cur'[l] = TaskEntry(Head(ch[l]))
        /\ wpc'[l] \in {"abort", "run"}
    BY <2>1 DEF BaseType, LaneType, WorkerType
  <2>3. /\ \A i \in DOMAIN ch'[l] :
              i + 1 \in DOMAIN ch[l] /\ ch'[l][i] = ch[l][i + 1]
        /\ 1 \in DOMAIN ch[l] /\ Head(ch[l]) = ch[l][1] /\ ch[l][1] \in Ops
    <3> DEFINE q == Tail(ch[l])
    <3>1. ch[l] \in Seq(Ops)
      BY DEF BaseType, LaneType
    <3>2. /\ \A i \in DOMAIN q : i + 1 \in DOMAIN ch[l] /\ q[i] = ch[l][i + 1]
          /\ 1 \in DOMAIN ch[l] /\ Head(ch[l]) = ch[l][1] /\ ch[l][1] \in Ops
      BY <2>1, <3>1, SeqElements
    <3>3. ch'[l] = q
      BY <2>2
    <3> HIDE DEF q
    <3> QED BY <3>2, <3>3
  <2>4. cur'[l].kind = "task" /\ cur'[l].op = ch[l][1]
    BY <2>2, <2>3 DEF TaskEntry
  <2>5. Mine
    BY <1>3, <2>1, <2>2, <2>4
  <2>6. Ops1
    BY <2>1, <2>3, <2>4 DEF ControlInv, LaneOps
  <2> QED BY <2>5, <2>6
<1>8. CASE Complete(l) \/ LeaveBarrier(l)
  <2>1. /\ cur' = [cur EXCEPT ![l] = NoEntry]
        /\ wpc' = [wpc EXCEPT ![l] = "poll"]
        /\ UNCHANGED <<ch, backlog, ended>>
    BY <1>8 DEF Complete, LeaveBarrier
  <2>2. cur'[l].kind = "none" /\ wpc'[l] = "poll"
    BY <2>1 DEF BaseType, WorkerType, NoEntry
  <2>3. Mine
    BY <1>3, <2>1, <2>2
  <2>4. Ops1
    BY <2>1, <2>2 DEF ControlInv, LaneOps
  <2> QED BY <2>3, <2>4
<1>9. CASE TakeWake(l) \/ SeeFence(l) \/ SeeClosed(l) \/ FinishWorker(l) \/ ParkBarrier(l)
  <2>1. UNCHANGED <<ch, backlog, cur>>
    BY <1>9 DEF TakeWake, SeeFence, SeeClosed, FinishWorker, ParkBarrier, IdleFrame
  <2>2. Ops1
    BY <2>1 DEF ControlInv, LaneOps
  <2>3. Mine
    <3>1. CASE TakeWake(l) \/ SeeFence(l)
      BY <1>3, <2>1, <3>1 DEF TakeWake, SeeFence, BaseType, WorkerType
    <3>2. CASE SeeClosed(l)
      BY <1>3, <2>1, <3>2 DEF SeeClosed, ChannelClosed, BaseType, WorkerType
    <3>3. CASE FinishWorker(l)
      BY <1>3, <2>1, <3>3 DEF FinishWorker, BaseType, WorkerType, ControlInv, Workers
    <3>4. CASE ParkBarrier(l)
      BY <1>3, <2>1, <3>4 DEF ParkBarrier, BaseType, WorkerType, ControlInv, Workers
    <3> QED BY <1>9, <3>1, <3>2, <3>3, <3>4
  <2> QED BY <2>2, <2>3
<1> QED BY <1>5, <1>6, <1>7, <1>8, <1>9 DEF WorkerStep

\* What every step of a section leaves alone.
LEMMA SectionFrames ==
    ASSUME NEW s \in Sections,
           TakeTurn(s) \/ SectionRuns(s) \/ SectionFails(s, "ctx")
    PROVE  /\ UNCHANGED <<submitVars, workerVars, stopVars, crashed, cleanupVars,
                          historyVars, stpc>>
           /\ \/ UNCHANGED laneVars
              \/ \E l \in todo : /\ EnqueueMandatory(l, Entry("barrier", s, l, FALSE))
                                 /\ UNCHANGED <<deferred, outcome, spc>>
           /\ \E x : spc' = spc \/ spc' = [spc EXCEPT ![s] = x]
BY DEF TakeTurn, SectionRuns, SectionStep, SectionFails, InstallSection,
   InstallExclusive, AwaitRunning, BeginSection, PlaceBarrier, CollectDone,
   StartFn, EndFn, WithdrawExclusive, EndDeferred, ReleaseLanes, SectionMoves,
   SectionFrame

\* The steps of an Exclusive call.
LEMMA ControlSection ==
    ASSUME ShardedInv, ControlInv, NEW s \in Sections,
           TakeTurn(s) \/ SectionRuns(s) \/ SectionFails(s, "ctx")
    PROVE  ControlInv'
<1> USE DEF ShardedInv
<1>1. UNCHANGED <<submitVars, workerVars, stopVars, cleanupVars, stpc>>
  BY SectionFrames
<1>2. \A t \in Sections : t # s => spc'[t] = spc[t]
  BY SectionFrames DEF BaseType, SectionType
<1>3. spc'[s] \in {"idle", "begin", "ended"} \/ SectionRegistered(s) \/ ~stopped
  BY DEF TakeTurn, SectionRuns, SectionStep, SectionFails, InstallSection,
     InstallExclusive, AwaitRunning, BeginSection, PlaceBarrier, CollectDone,
     StartFn, EndFn, WithdrawExclusive, EndDeferred, ReleaseLanes, SectionMoves,
     SectionRegistered, BaseType, SectionType
<1>4. StopOrder'
  <2>1. (stopped /\ \A t \in Sections : ~SectionRegistered(t))
           => \A t \in Sections : ~SectionRegistered(t)'
    BY <1>2, <1>3 DEF SectionRegistered
  <2> QED BY <1>1, <2>1 DEF ControlInv, StopOrder, submitVars, workerVars, stopVars,
             cleanupVars
<1>5. CASE UNCHANGED laneVars
  BY <1>1, <1>4, <1>5, WorkersKept, LaneOpsKept
     DEF ControlInv, laneVars, workerVars, submitVars, stopVars
<1>6. ASSUME NEW l \in Lanes, EnqueueMandatory(l, Entry("barrier", s, l, FALSE))
      PROVE  ControlInv'
  <2>1. PICK e \in EntryType : e = Entry("barrier", s, l, FALSE)
    BY EntryTyped
  <2>2. e.kind = "barrier" /\ e.op = s /\ ~e.late
    BY <2>1 DEF Entry
  <2> QED BY <1>1, <1>4, <1>6, <2>1, <2>2, ControlEnqueue DEF submitVars, stopVars
<1> QED BY <1>5, <1>6, SectionFrames DEF BaseType, SectionType

\* The steps of a stop call.
LEMMA ControlStop ==
    ASSUME ShardedInv, ControlInv, NEW x \in Stoppers,
           BeginStop(x) \/ StopRuns(x) \/ StopTimeout(x)
    PROVE  ControlInv'
<1> USE DEF ShardedInv
<1>1. /\ UNCHANGED <<submitVars, workerVars, sectionVars>>
      /\ UNCHANGED <<ch, retired, backlog, tracked>>
  BY DEF BeginStop, StopRuns, StopStep, StopTimeout, CloseQueueChannels,
     SignalHardStop, SignalStop, WaitInFlightSubmits, WaitWorkers, WaitSections,
     FinishLifecycleCleanups, StopMoves, laneVars, StopFrame, cleanupVars
<1>2. (fence => fence') /\ (stopped => stopped') /\ (sealed => sealed')
  <2>1. fence \in BOOLEAN /\ stopped \in BOOLEAN
    BY DEF BaseType, StopType
  <2>2. /\ fence' = fence \/ fence' = (fence \/ (~stopped /\ inFlight = 0))
        /\ stopped' = stopped \/ stopped' = TRUE
        /\ sealed' = sealed \/ sealed' = TRUE
    BY DEF BeginStop, StopRuns, StopStep, StopTimeout, CloseQueueChannels,
       SignalHardStop, SignalStop, WaitInFlightSubmits, WaitWorkers, WaitSections,
       FinishLifecycleCleanups, StopMoves, cleanupVars
  <2> QED BY <2>1, <2>2
<1>3. LaneOps'
  BY <1>1, LaneOpsKept DEF ControlInv, submitVars, workerVars
<1>4. Workers'
  <2>1. CASE CloseQueueChannels(x, Lanes)
    <3>1. fence /\ \A l \in Lanes : closed[l] => closed'[l]
      BY <2>1 DEF CloseQueueChannels, ControlInv, StopOrder
    <3> QED BY <1>1, <1>2, <3>1, WorkersKept DEF ControlInv, workerVars
  <2>2. CASE ~CloseQueueChannels(x, Lanes)
    <3>1. closed' = closed
      BY <2>2 DEF BeginStop, StopRuns, StopStep, StopTimeout,
         SignalHardStop, SignalStop, WaitInFlightSubmits, WaitWorkers, WaitSections,
         FinishLifecycleCleanups, StopMoves, laneVars
    <3> QED BY <1>1, <1>2, <3>1, WorkersKept DEF ControlInv, workerVars
  <2> QED BY <2>1, <2>2
<1>5. StopOrder'
  <2>1. \A y \in Stoppers : y # x => stpc'[y] = stpc[y]
    BY DEF BeginStop, StopRuns, StopStep, StopTimeout, CloseQueueChannels,
       SignalHardStop, SignalStop, WaitInFlightSubmits, WaitWorkers, WaitSections,
       FinishLifecycleCleanups, StopMoves, BaseType, StopType
  <2>2. fence' => stopped'
    BY DEF BeginStop, StopRuns, StopStep, StopTimeout, CloseQueueChannels,
       SignalHardStop, SignalStop, WaitInFlightSubmits, WaitWorkers, WaitSections,
       FinishLifecycleCleanups, StopMoves, ControlInv, StopOrder
  <2>3. /\ stpc'[x] = "fence" => stopped'
        /\ stpc'[x] \in {"close", "workers", "sections", "cleanups", "returned"}
              => fence
        /\ stpc'[x] \in {"sections", "cleanups", "returned"}
              => \A l \in Lanes : wpc[l] = "exited"
        /\ stpc'[x] \in {"cleanups", "returned"}
              => \A s \in Sections : ~SectionRegistered(s)
        /\ stpc'[x] = "returned" => sealed' /\ tracked = {}
        /\ sealed' # sealed => stpc'[x] = "returned"
    BY DEF BeginStop, StopRuns, StopStep, StopTimeout, CloseQueueChannels,
       SignalHardStop, SignalStop, WaitInFlightSubmits, WaitWorkers, WaitSections,
       FinishLifecycleCleanups, StopMoves, ControlInv, StopOrder, Workers,
       BaseType, StopType, cleanupVars
  <2> QED BY <1>1, <1>2, <2>1, <2>2, <2>3
          DEF ControlInv, StopOrder, SectionRegistered, submitVars, workerVars,
              sectionVars
<1> QED BY <1>3, <1>4, <1>5 DEF ControlInv

\* The initial state.
LEMMA ControlInit == Init => ControlInv
<1> SUFFICES ASSUME Init PROVE ControlInv
  OBVIOUS
<1> USE DEF Init, LifecycleInit
<1>1. Workers
  BY DEF Workers, NoEntry
<1>2. LaneOps
  BY DEF LaneOps, NoEntry
<1>3. StopOrder
  BY DEF StopOrder
<1> QED BY <1>1, <1>2, <1>3 DEF ControlInv

\* Every step.
LEMMA ControlNext == ShardedInv /\ ControlInv /\ [Next]_allVars => ControlInv'
<1> SUFFICES ASSUME ShardedInv, ControlInv, [Next]_allVars PROVE ControlInv'
  OBVIOUS
<1>1. CASE UNCHANGED allVars
  <2>1. UNCHANGED <<pc, at, laneVars, workerVars, stopped, fence, sealed, tracked,
                    spc, stpc>>
    BY <1>1 DEF allVars, submitVars, stopVars, cleanupVars, sectionVars
  <2>2. \A o \in Ops : pc'[o] \in {"late", "off", "cleanup", "refused",
                                   "refusedTest"} => stopped
    BY <2>1 DEF ControlInv, StopOrder
  <2>3. fence => stopped
    BY DEF ControlInv, StopOrder
  <2> QED BY <2>1, <2>2, <2>3, ControlMoves
<1>2. ASSUME NEW o \in Ops, Submit(o) \/ OpStep(o) \/ Cancel(o)
      PROVE  ControlInv'
  BY <1>2, ControlSubmit, ControlSend, ControlHandoff DEF Submit, OpStep, Cancel
<1>3. ASSUME NEW l \in Lanes, LaneStep(l)
      PROVE  ControlInv'
  BY <1>3, ControlLane DEF LaneStep
<1> QED BY <1>1, <1>2, <1>3, ControlSection, ControlStop DEF Next, Finished

-----------------------------------------------------------------------------
(* OnePlace.                                                                *)

\* The steps of a call.
LEMMA PlaceCall ==
    ASSUME ShardedInv, OnePlace, NEW o \in Ops, Submit(o) \/ OpStep(o) \/ Cancel(o)
    PROVE  OnePlace'
<1>1. BaseType /\ at[o] \in Lanes /\ {"wait", "late"} \subseteq CallPc
  BY OnLane, CallPcFacts DEF ShardedInv
<1>2. CASE ScheduleCleanup(o)
  <2>1. UNCHANGED <<ch, backlog, cur, deferred, outcome>>
    BY <1>2 DEF ScheduleCleanup, HandoffFrame, laneVars, workerVars, sectionVars
  <2>2. \A p \in Ops : \/ pc'[p] = pc[p]
                       \/ pc[p] = "handoff" /\ pc'[p] \in {"late", "enqueue"}
    BY <1>1, <1>2 DEF ScheduleCleanup, BaseType, SubmitType
  <2>3. \A p \in Ops : pc'[p] \in CallPc <=> pc[p] \in CallPc
    BY <2>2, CallPcFacts
  <2> QED BY <2>1, <2>3, PlaceMoves
<1>3. CASE ~ScheduleCleanup(o)
  BY <1>1, <1>3, PlaceProducer, PlaceRelease DEF Submit, OpStep, Cancel
<1> QED BY <1>2, <1>3

\* The steps of a worker.
LEMMA PlaceLane ==
    ASSUME ShardedInv, ControlInv, OnePlace, NEW l \in Lanes, WorkerStep(l)
    PROVE  OnePlace'
<1>1. /\ wpc[l] \in {"poll", "select"} => cur[l].kind = "none"
      /\ wpc[l] \in {"run", "abort"} =>
            cur[l].kind \in {"task", "release"} /\ cur[l].op \in Ops
      /\ wpc[l] \in {"barrier", "held"} => cur[l].kind = "barrier"
      /\ \A i \in DOMAIN backlog[l] : backlog[l][i].kind \in {"release", "barrier"}
  BY DEF ControlInv, Workers, LaneOps
<1> QED BY <1>1, PlaceWorker DEF ShardedInv

\* The steps of an Exclusive call.
LEMMA PlaceSection ==
    ASSUME ShardedInv, OnePlace, NEW s \in Sections,
           TakeTurn(s) \/ SectionRuns(s) \/ SectionFails(s, "ctx")
    PROVE  OnePlace'
<1>1. SectionMove(s, Lanes, TRUE)
  BY DEF SectionRuns, InstallSection, SectionMove
<1> QED BY <1>1, PlaceExclusive DEF ShardedInv

\* The initial state.
LEMMA PlaceInit == Init => OnePlace
<1> SUFFICES ASSUME Init, NEW o \in Ops PROVE Held(o, "call", NoLane, 0)
  BY DEF OnePlace, PlaceKind
<1>1. pc[o] \in CallPc
  BY CallPcFacts DEF Init, LifecycleInit
<1>2. \A l \in Lanes : \A i \in Nat : ~InCh(o, l, i) /\ ~InBacklog(o, l, i)
  BY DEF InCh, InBacklog, Init, LifecycleInit
<1>3. \A l \in Lanes : ~InHand(o, l)
  BY DEF InHand, Init, LifecycleInit, NoEntry
<1>4. \A i \in Nat : ~Postponed(o, i)
  BY DEF Postponed, Init, LifecycleInit
<1>5. outcome[o] = <<>> /\ Len(outcome[o]) <= 1
  BY DEF Init, LifecycleInit
<1> QED BY <1>1, <1>2, <1>3, <1>4, <1>5 DEF Held

\* Every step.
LEMMA PlaceNext ==
    ShardedInv /\ ControlInv /\ OnePlace /\ [Next]_allVars => OnePlace'
<1> SUFFICES ASSUME ShardedInv, ControlInv, OnePlace, [Next]_allVars PROVE OnePlace'
  OBVIOUS
<1>1. CASE UNCHANGED allVars
  BY <1>1, PlaceMoves DEF allVars, submitVars, laneVars, workerVars, sectionVars
<1>2. ASSUME NEW o \in Ops, Submit(o) \/ OpStep(o) \/ Cancel(o)
      PROVE  OnePlace'
  BY <1>2, PlaceCall
<1>3. ASSUME NEW l \in Lanes, LaneStep(l)
      PROVE  OnePlace'
  BY <1>3, PlaceLane DEF LaneStep
<1>4. ASSUME NEW x \in Stoppers, BeginStop(x) \/ StopRuns(x) \/ StopTimeout(x)
      PROVE  OnePlace'
  <2>1. UNCHANGED <<pc, ch, backlog, cur, deferred, outcome>>
    BY <1>4 DEF BeginStop, StopRuns, StopStep, StopTimeout, CloseQueueChannels,
       SignalHardStop, SignalStop, WaitInFlightSubmits, WaitWorkers, WaitSections,
       FinishLifecycleCleanups, StopMoves, laneVars, StopFrame, submitVars,
       workerVars, sectionVars
  <2> QED BY <2>1, PlaceMoves
<1> QED BY <1>1, <1>2, <1>3, <1>4, PlaceSection DEF Next, Finished

-----------------------------------------------------------------------------
(* Exclusive sections.                                                      *)

\* A section counts its barriers, every lane it does not hold has exited or
\* still gets one, and no more barriers report than lanes are held.
Barriers(s) ==
    /\ spc[s] \in {"idle", "begin", "install", "running"} =>
          Placed(s) = {} /\ parked[s] = 0
    /\ spc[s] = "running" => todo = Lanes
    /\ spc[s] # "ended" =>
          /\ IsFiniteSet(Placed(s))
          /\ expected[s] = Cardinality(Placed(s))
          /\ parked[s] <= Cardinality(HeldLanes(s))
    /\ spc[s] = "barriers" =>
          /\ todo \cap Placed(s) = {}
          /\ \A l \in Lanes : l \in todo \/ l \in Placed(s) \/ wpc[l] = "exited"
    /\ spc[s] \in {"collect", "check", "fn"} =>
          \A l \in Lanes : l \in Placed(s) \/ wpc[l] = "exited"
    /\ spc[s] \in {"check", "fn"} => parked[s] >= expected[s]

\* While a section is installed releases are postponed to it, and once it has
\* waited for the ones that ran none runs off the lanes.
Postponing ==
    /\ deferred # <<>> => active # NoSection
    /\ \A s \in Sections : active = s <=> spc[s] \in {"running", "barriers", "collect",
                                                      "check", "fn", "drain", "releasing"}
    /\ \A o \in Ops : pc[o] = "cleanup" => o \in tracked \/ sealed
    /\ \A s \in Sections : spc[s] \in {"barriers", "collect", "check", "fn"} =>
          \A o \in Ops : pc[o] # "cleanup"
    /\ \A o \in Ops : pc[o] # "cleanupHere"

SectionHold == Postponing /\ \A s \in Sections : Barriers(s)

\* A step that leaves the section and its barriers alone.
LEMMA BarriersKept ==
    ASSUME BaseType, ControlInv', NEW s \in Sections, Barriers(s),
           spc'[s] = spc[s], expected'[s] = expected[s], parked'[s] = parked[s],
           spc[s] \in {"running", "barriers"} => todo' = todo,
           spc[s] # "ended" => \A l \in Lanes : HasBarrier(s, l)' <=> HasBarrier(s, l),
           spc[s] # "ended" => HeldLanes(s) \subseteq HeldLanes(s)',
           \A l \in Lanes : wpc[l] = "exited" => wpc'[l] = "exited"
    PROVE  Barriers(s)'
<1>1. CASE spc[s] = "ended"
  BY <1>1 DEF Barriers
<1>2. CASE spc[s] # "ended"
  <2>1. Placed(s)' = Placed(s)
    BY <1>2 DEF Placed
  <2>2. HeldLanes(s)' \subseteq Placed(s)
    <3>1. HeldLanes(s)' \subseteq Placed(s)'
      BY DEF HeldLanes, Placed, HasBarrier, ControlInv, Workers
    <3> QED BY <2>1, <3>1
  <2>3. IsFiniteSet(Placed(s)) /\ parked[s] <= Cardinality(HeldLanes(s))
    BY <1>2 DEF Barriers
  <2>4. /\ Cardinality(HeldLanes(s)) <= Cardinality(HeldLanes(s)')
        /\ Cardinality(HeldLanes(s)) \in Nat /\ Cardinality(HeldLanes(s)') \in Nat
    BY <1>2, <2>2, <2>3, FS_Subset, FS_CardinalityType
  <2>5. parked[s] \in Nat
    BY DEF BaseType, SectionType
  <2>6. parked'[s] <= Cardinality(HeldLanes(s)')
    BY <2>3, <2>4, <2>5
  <2> QED BY <1>2, <2>1, <2>6 DEF Barriers
<1> QED BY <1>1, <1>2

\* No call touches a barrier.
LEMMA BarriersCall ==
    ASSUME BaseType, ControlInv', NEW s \in Sections, Barriers(s),
           UNCHANGED <<workerVars, spc, todo, expected, parked>>,
           \A l \in Lanes : HasBarrier(s, l)' <=> HasBarrier(s, l)
    PROVE  Barriers(s)'
<1>1. HeldLanes(s)' = HeldLanes(s)
  BY DEF HeldLanes, workerVars
<1> QED BY <1>1, BarriersKept DEF workerVars

\* The steps of a call.
LEMMA HoldCall ==
    ASSUME ShardedInv, ControlInv, ControlInv', SectionHold, NEW o \in Ops,
           Submit(o) \/ OpStep(o) \/ Cancel(o)
    PROVE  SectionHold'
<1> USE DEF ShardedInv
<1>1. PICK l \in Lanes : l = at[o]
  BY OnLane
<1>2. UNCHANGED <<workerVars, spc, active, todo, expected, parked, sealed>>
  BY DEF Submit, OpStep, Cancel, BeginSubmit, WaitForMandatoryCleanup, FenceProgress,
     FenceStopped, CancelBeforeAdmit, AdmitTask, SendTask, SendOnClosed, SendBlocks,
     AbandonSend, EndSubmit, EndSubmitTest, TestStop, ProducerFrame,
     ScheduleCleanup, EnqueueCleanup, EndHandoff, EndHandoffTest, HandoffLate,
     BeginLifecycleCleanup, EndLifecycleCleanup, HandoffFrame, sectionVars, cleanupVars
<1>3. \/ backlog' = backlog
      \/ backlog' = [backlog EXCEPT ![l] = RaiseTargets(@, ticket[o])]
      \/ \E w \in BOOLEAN :
            backlog' = [backlog EXCEPT ![l] = Append(@, Entry("release", o, l, w))]
  BY <1>1 DEF Submit, OpStep, Cancel, BeginSubmit, WaitForMandatoryCleanup,
     FenceProgress, FenceStopped, CancelBeforeAdmit, AdmitTask, SendTask,
     SendOnClosed, SendBlocks, AbandonSend, UnmarkSent, EndSubmit, EndSubmitTest,
     TestStop, ProducerFrame, ScheduleCleanup, EnqueueCleanup, EndHandoff,
     EndHandoffTest, HandoffLate, BeginLifecycleCleanup, EndLifecycleCleanup,
     EnqueueMandatory, laneVars
<1>4. ASSUME NEW s \in Sections, NEW m \in Lanes
      PROVE  HasBarrier(s, m)' <=> HasBarrier(s, m)
  <2>1. CASE backlog' = backlog
    BY <1>2, <2>1 DEF HasBarrier, workerVars
  <2>2. CASE backlog' = [backlog EXCEPT ![l] = RaiseTargets(@, ticket[o])]
    <3>1. backlog[l] \in Seq(EntryType)
      BY DEF BaseType, LaneType
    <3>2. /\ backlog'[l] = RaiseTargets(backlog[l], ticket[o])
          /\ m # l => backlog'[m] = backlog[m]
      BY <2>2 DEF BaseType, LaneType
    <3> QED BY <1>2, <3>1, <3>2, RaiseKeeps DEF HasBarrier, workerVars
  <2>3. ASSUME NEW w \in BOOLEAN,
               backlog' = [backlog EXCEPT ![l] = Append(@, Entry("release", o, l, w))]
        PROVE  HasBarrier(s, m)' <=> HasBarrier(s, m)
    <3>1. PICK e \in EntryType : e = Entry("release", o, l, w)
      BY EntryTyped
    <3>2. e.kind = "release"
      BY <3>1 DEF Entry
    <3> QED BY <1>2, <2>3, <3>1, <3>2, BarrierAppend DEF workerVars
  <2> QED BY <1>3, <2>1, <2>2, <2>3
<1>5. \A s \in Sections : Barriers(s)'
  BY <1>2, <1>4, BarriersCall DEF SectionHold
<1>6. Postponing'
  <2>1. \A p \in Ops : p # o => pc'[p] = pc[p]
    BY DEF Submit, OpStep, Cancel, BeginSubmit, WaitForMandatoryCleanup, FenceProgress,
       FenceStopped, CancelBeforeAdmit, AdmitTask, SendTask, SendOnClosed, SendBlocks,
       AbandonSend, EndSubmit, EndSubmitTest, TestStop, ProducerFrame, LeaveSubmit,
       ScheduleCleanup, EnqueueCleanup, EndHandoff, EndHandoffTest, HandoffLate,
       BeginLifecycleCleanup, EndLifecycleCleanup, HandoffFrame, submitVars, Fail,
       BaseType, SubmitType
  <2>2. CASE BeginLifecycleCleanup(o)
    <3>1. CASE ~sealed /\ active # NoSection
      <4>1. pc'[o] \in {"end", "done"} /\ tracked' = tracked
        BY <2>2, <3>1 DEF BeginLifecycleCleanup, Return, BaseType, SubmitType
      <4> QED BY <1>2, <2>1, <3>1, <4>1 DEF SectionHold, Postponing
    <3>2. CASE ~(~sealed /\ active # NoSection)
      <4>1. /\ pc'[o] = "cleanup" /\ deferred' = deferred
            /\ tracked' = IF sealed THEN tracked ELSE tracked \cup {o}
        BY <2>2, <3>2 DEF BeginLifecycleCleanup, BaseType, SubmitType
      <4>2. \A s \in Sections : spc[s] \notin {"barriers", "collect", "check", "fn"}
        <5>1. CASE sealed
          BY <5>1 DEF ControlInv, StopOrder, SectionRegistered
        <5>2. CASE active = NoSection
          BY <5>2, ConstantsAssumption DEF SectionHold, Postponing, ConstantsAssumption
        <5> QED BY <3>2, <5>1, <5>2
      <4> QED BY <1>2, <2>1, <4>1, <4>2 DEF SectionHold, Postponing
    <3> QED BY <3>1, <3>2
  <2>3. CASE EndLifecycleCleanup(o)
    <3>1. pc'[o] \in {"end", "done"} /\ tracked' = tracked \ {o} /\ deferred' = deferred
      BY <2>3 DEF EndLifecycleCleanup, Return, BaseType, SubmitType, sectionVars
    <3> QED BY <1>2, <2>1, <3>1 DEF SectionHold, Postponing
  <2>4. CASE ~BeginLifecycleCleanup(o) /\ ~EndLifecycleCleanup(o)
    <3>1. UNCHANGED <<deferred, tracked>>
      BY <2>4 DEF Submit, OpStep, Cancel, BeginSubmit, WaitForMandatoryCleanup,
         FenceProgress, FenceStopped, CancelBeforeAdmit, AdmitTask, SendTask,
         SendOnClosed, SendBlocks, AbandonSend, EndSubmit, EndSubmitTest, TestStop,
         ProducerFrame, ScheduleCleanup, EnqueueCleanup, EndHandoff, EndHandoffTest,
         HandoffLate, HandoffFrame, sectionVars, cleanupVars
    <3>2. pc'[o] \notin {"cleanup", "cleanupHere"} \/ pc'[o] = pc[o]
      BY <2>4 DEF Submit, OpStep, Cancel, BeginSubmit, WaitForMandatoryCleanup,
         FenceProgress, FenceStopped, CancelBeforeAdmit, AdmitTask, SendTask,
         SendOnClosed, SendBlocks, AbandonSend, EndSubmit, EndSubmitTest, TestStop,
         LeaveSubmit, ScheduleCleanup, EnqueueCleanup, EndHandoff, EndHandoffTest,
         HandoffLate, Fail, Return, submitVars, BaseType, SubmitType
    <3> QED BY <1>2, <2>1, <3>1, <3>2 DEF SectionHold, Postponing
  <2> QED BY <2>2, <2>3, <2>4
<1> QED BY <1>5, <1>6 DEF SectionHold

\* The steps of a worker.
LEMMA HoldLane ==
    ASSUME ShardedInv, ControlInv, ControlInv', SectionHold, NEW l \in Lanes,
           WorkerStep(l)
    PROVE  SectionHold'
<1> USE DEF ShardedInv
<1>1. /\ UNCHANGED <<pc, sealed, tracked, spc, active, todo, expected, deferred>>
      /\ wpc[l] # "exited"
      /\ \A m \in Lanes : m # l => /\ wpc'[m] = wpc[m] /\ cur'[m] = cur[m]
                                   /\ backlog'[m] = backlog[m]
  BY DEF WorkerStep, TakeMandatory, NoMandatory, Receive, Complete,
     TakeWake, SeeFence, SeeClosed, FinishWorker, ParkBarrier, LeaveBarrier,
     IdleFrame, WorkerFrame, sectionVars, submitVars, cleanupVars, BaseType,
     LaneType, WorkerType
<1>2. Postponing'
  BY <1>1 DEF SectionHold, Postponing
<1>3. ASSUME NEW s \in Sections
      PROVE  Barriers(s)'
  <2>1. Barriers(s)
    BY DEF SectionHold
  <2>2. \A m \in Lanes : wpc[m] = "exited" => wpc'[m] = "exited"
    BY <1>1
  <2>3. SUFFICES /\ spc[s] # "ended" => HasBarrier(s, l)' <=> HasBarrier(s, l)
                 /\ spc[s] # "ended" /\ wpc[l] = "held" /\ cur[l].op = s =>
                       wpc'[l] = "held" /\ cur'[l].op = s
                 /\ parked'[s] # parked[s] => ParkBarrier(l)
    <3>1. spc[s] # "ended" => \A m \in Lanes : HasBarrier(s, m)' <=> HasBarrier(s, m)
      BY <1>1, <2>3, BarrierSame
    <3>2. spc[s] # "ended" => HeldLanes(s) \subseteq HeldLanes(s)'
      BY <1>1, <2>3 DEF HeldLanes
    <3>3. CASE parked'[s] = parked[s]
      BY <1>1, <2>1, <2>2, <3>1, <3>2, <3>3, BarriersKept
    <3>4. CASE parked'[s] # parked[s]
      <4>1. /\ ParkBarrier(l) /\ cur[l].op = s /\ spc[s] = "collect"
            /\ parked'[s] = parked[s] + 1 /\ parked[s] < expected[s]
            /\ wpc[l] = "barrier" /\ wpc'[l] = "held" /\ cur' = cur
        BY <2>3, <3>4 DEF ParkBarrier, BaseType, WorkerType, SectionType
      <4>2. Placed(s)' = Placed(s)
        BY <3>1, <4>1 DEF Placed
      <4>3. HeldLanes(s)' = HeldLanes(s) \cup {l} /\ l \notin HeldLanes(s)
        BY <1>1, <4>1 DEF HeldLanes
      <4>4. HeldLanes(s) \subseteq Placed(s)
        BY DEF HeldLanes, Placed, HasBarrier, ControlInv, Workers
      <4>5. IsFiniteSet(HeldLanes(s)) /\ parked[s] <= Cardinality(HeldLanes(s))
        BY <2>1, <4>1, <4>4, FS_Subset DEF Barriers
      <4>6. Cardinality(HeldLanes(s)') = Cardinality(HeldLanes(s)) + 1
        BY <4>3, <4>5, FS_AddElement
      <4>7. parked[s] \in Nat /\ Cardinality(HeldLanes(s)) \in Nat
        BY <4>5, FS_CardinalityType DEF BaseType, SectionType
      <4>8. parked'[s] <= Cardinality(HeldLanes(s)')
        BY <4>1, <4>5, <4>6, <4>7
      <4> QED BY <1>1, <2>1, <2>2, <4>1, <4>2, <4>8 DEF Barriers
    <3> QED BY <3>3, <3>4
  <2> QED BY BarrierWorker DEF ControlInv, Workers
<1> QED BY <1>2, <1>3 DEF SectionHold

\* The steps of an Exclusive call.
LEMMA HoldSection ==
    ASSUME ShardedInv, ShardedInv', ControlInv, ControlInv', SectionHold,
           NEW s \in Sections,
           TakeTurn(s) \/ SectionRuns(s) \/ SectionFails(s, "ctx")
    PROVE  SectionHold'
<1> USE DEF ShardedInv
<1>1. UNCHANGED <<pc, wpc, cur, tracked, sealed>>
  BY SectionFrames DEF submitVars, workerVars, cleanupVars
<1>2. /\ \A t \in Sections : t # s =>
            /\ spc'[t] = spc[t] /\ expected'[t] = expected[t] /\ parked'[t] = parked[t]
      /\ parked' = parked
  BY DEF TakeTurn, SectionRuns, SectionStep, SectionFails, InstallSection,
     InstallExclusive, AwaitRunning, BeginSection, PlaceBarrier, CollectDone,
     StartFn, EndFn, WithdrawExclusive, EndDeferred, ReleaseLanes, SectionMoves,
     BaseType, SectionType
<1>3. \A t \in Sections : t # s /\ (todo' # todo \/ active' # active) =>
         spc[t] \in {"idle", "ended"}
  <2>1. todo' # todo \/ active' # active => spc[s] \notin {"idle", "ended"}
    BY DEF TakeTurn, SectionRuns, SectionStep, SectionFails, InstallSection,
       InstallExclusive, AwaitRunning, BeginSection, PlaceBarrier, CollectDone,
       StartFn, EndFn, WithdrawExclusive, EndDeferred, ReleaseLanes, SectionMoves
  <2> QED BY <2>1 DEF Turn
<1>4. \A t \in Sections : \A m \in Lanes :
         HasBarrier(t, m)' <=>
            HasBarrier(t, m) \/ (t = s /\ PlaceBarrier(s) /\ m \in todo
                                 /\ m \notin todo' /\ TakesMandatory(m))
  BY BarrierSection DEF SectionRuns, InstallSection, SectionMove
<1>5. ASSUME NEW t \in Sections, t # s
      PROVE  Barriers(t)'
  <2>1. \A m \in Lanes : HasBarrier(t, m)' <=> HasBarrier(t, m)
    BY <1>4, <1>5
  <2>2. HeldLanes(t)' = HeldLanes(t)
    BY <1>1 DEF HeldLanes
  <2>3. spc[t] \in {"running", "barriers"} => todo' = todo
    BY <1>3, <1>5
  <2> QED BY <1>1, <1>2, <1>5, <2>1, <2>2, <2>3, BarriersKept DEF SectionHold
<1>6. Barriers(s)'
  <2>1. HeldLanes(s)' = HeldLanes(s) /\ Barriers(s)
    BY <1>1 DEF HeldLanes, SectionHold
  <2>2. CASE ~PlaceBarrier(s)
    <3>1. Placed(s)' = Placed(s)
      BY <1>4, <2>2 DEF Placed
    <3>2. expected' = expected
      BY <2>2 DEF TakeTurn, SectionRuns, SectionStep, SectionFails, InstallSection,
         InstallExclusive, AwaitRunning, BeginSection, CollectDone, StartFn,
         EndFn, WithdrawExclusive, EndDeferred, ReleaseLanes, SectionMoves
    <3>3. \/ spc'[s] = "ended"
          \/ /\ spc'[s] \in {"begin", "install", "running"} /\ UNCHANGED todo
             /\ spc[s] \in {"idle", "begin"} /\ spc'[s] # "running"
          \/ spc[s] = "install" /\ spc'[s] = "running" /\ todo' = Lanes
          \/ spc[s] = "running" /\ spc'[s] = "barriers" /\ UNCHANGED todo
          \/ spc[s] = "collect" /\ spc'[s] = "check" /\ parked[s] >= expected[s]
          \/ spc[s] = "check" /\ spc'[s] = "fn"
          \/ spc[s] # "ended" /\ spc'[s] \in {"drain", "releasing", "release"}
      BY <2>2 DEF TakeTurn, SectionRuns, SectionStep, SectionFails, InstallSection,
         InstallExclusive, AwaitRunning, BeginSection, CollectDone, StartFn,
         EndFn, WithdrawExclusive, EndDeferred, ReleaseLanes, SectionMoves,
         BaseType, SectionType
    <3> QED BY <1>1, <1>2, <2>1, <3>1, <3>2, <3>3 DEF Barriers
  <2>3. CASE PlaceBarrier(s) /\ todo = {}
    <3>1. Placed(s)' = Placed(s)
      BY <1>4, <2>3 DEF Placed
    <3>2. /\ spc[s] = "barriers" /\ spc'[s] = "collect"
          /\ UNCHANGED <<todo, expected>>
      BY <2>3 DEF PlaceBarrier, BaseType, SectionType
    <3> QED BY <1>1, <1>2, <2>1, <2>3, <3>1, <3>2 DEF Barriers
  <2>4. ASSUME PlaceBarrier(s), NEW l \in todo, todo' = todo \ {l}, ~TakesMandatory(l)
        PROVE  Barriers(s)'
    <3>1. l \in Lanes /\ wpc[l] = "exited"
      BY <2>4 DEF TakesMandatory, ControlInv, Workers, BaseType, SectionType
    <3>2. spc[s] = "barriers" /\ spc' = spc /\ expected' = expected
      BY <2>4 DEF PlaceBarrier, BaseType, SectionType
    <3>3. Placed(s)' = Placed(s)
      BY <1>4, <2>4 DEF Placed
    <3> QED BY <1>1, <1>2, <2>1, <2>4, <3>1, <3>2, <3>3 DEF Barriers
  <2>5. ASSUME PlaceBarrier(s), NEW l \in todo, todo' = todo \ {l}, TakesMandatory(l)
        PROVE  Barriers(s)'
    <3>1. /\ spc[s] = "barriers" /\ spc' = spc
          /\ expected' = [expected EXCEPT ![s] = @ + 1]
      BY <2>5 DEF PlaceBarrier
    <3>2. l \in Lanes
      BY DEF BaseType, SectionType
    <3>3. Placed(s)' = Placed(s) \cup {l} /\ l \notin Placed(s)
      BY <1>4, <2>1, <2>5, <3>1, <3>2 DEF Placed, Barriers
    <3>4. IsFiniteSet(Placed(s)) /\ expected[s] = Cardinality(Placed(s))
      BY <2>1, <3>1 DEF Barriers
    <3>5. /\ IsFiniteSet(Placed(s)')
          /\ Cardinality(Placed(s)') = Cardinality(Placed(s)) + 1
      BY <3>3, <3>4, FS_AddElement
    <3>6. expected'[s] = Cardinality(Placed(s)')
      BY <3>1, <3>4, <3>5 DEF BaseType, SectionType
    <3> QED BY <1>1, <1>2, <2>1, <2>5, <3>1, <3>3, <3>5, <3>6 DEF Barriers
  <2>6. PlaceBarrier(s) => todo = {} \/ \E l \in todo : todo' = todo \ {l}
    BY DEF PlaceBarrier
  <2> QED BY <2>2, <2>3, <2>4, <2>5, <2>6
<1>7. Postponing'
  <2>1. CASE TakeTurn(s) \/ BeginSection(s)
    <3>1. /\ UNCHANGED <<active, deferred>>
          /\ spc[s] \in {"idle", "begin"} /\ spc'[s] \in {"begin", "ended", "install"}
      BY <2>1 DEF TakeTurn, BeginSection, SectionMoves, BaseType, SectionType
    <3> QED BY <1>1, <1>2, <3>1 DEF SectionHold, Postponing
  <2>2. CASE InstallSection(s)
    <3>1. /\ active' = s /\ deferred' = deferred /\ spc'[s] = "running"
          /\ spc[s] = "install"
      BY <2>2 DEF InstallSection, InstallExclusive, BaseType, SectionType
    <3>2. \A t \in Sections : t # s => spc[t] \in {"idle", "ended"}
      BY <3>1 DEF Turn
    <3>3. s # NoSection
      BY ConstantsAssumption DEF ConstantsAssumption
    <3> QED BY <1>1, <1>2, <3>1, <3>2, <3>3 DEF SectionHold, Postponing
  <2>3. CASE AwaitRunning(s, TRUE)
    <3>1. /\ UNCHANGED <<active, deferred>> /\ tracked = {}
          /\ spc[s] = "running" /\ spc'[s] = "barriers"
      BY <2>3 DEF AwaitRunning, SectionMoves, BaseType, SectionType
    <3>2. ~sealed
      BY <3>1 DEF ControlInv, StopOrder, SectionRegistered
    <3> QED BY <1>1, <1>2, <3>1, <3>2 DEF SectionHold, Postponing
  <2>4. CASE PlaceBarrier(s) \/ CollectDone(s) \/ StartFn(s)
    <3>1. /\ UNCHANGED <<active, deferred>>
          /\ spc[s] \in {"barriers", "collect", "check"}
          /\ spc'[s] \in {"barriers", "collect", "check", "fn"}
      BY <2>4 DEF PlaceBarrier, CollectDone, StartFn, SectionMoves, BaseType,
         SectionType
    <3> QED BY <1>1, <1>2, <3>1 DEF SectionHold, Postponing
  <2>5. CASE EndFn(s) \/ EndDeferred(s) \/ \E r : SectionFails(s, r)
    <3>1. /\ UNCHANGED active
          /\ spc[s] \in {"running", "collect", "check", "fn", "releasing"}
          /\ spc'[s] = "drain"
      BY <2>5 DEF EndFn, EndDeferred, SectionFails, SectionMoves, BaseType,
         SectionType
    <3>2. active = s /\ s # NoSection
      BY <3>1, ConstantsAssumption DEF SectionHold, Postponing, ConstantsAssumption
    <3> QED BY <1>1, <1>2, <3>1, <3>2 DEF SectionHold, Postponing
  <2>6. CASE WithdrawExclusive(s)
    <3>1. /\ spc[s] = "drain" /\ UNCHANGED deferred
          /\ \/ deferred = <<>> /\ active' = NoSection /\ spc'[s] = "release"
             \/ spc'[s] = "releasing" /\ UNCHANGED active
      BY <2>6 DEF WithdrawExclusive, BaseType, SectionType
    <3>2. active = s /\ \A t \in Sections : t # NoSection
      BY <3>1, ConstantsAssumption DEF SectionHold, Postponing, ConstantsAssumption
    <3> QED BY <1>1, <1>2, <3>1, <3>2 DEF SectionHold, Postponing
  <2>7. CASE ReleaseLanes(s)
    <3>1. UNCHANGED <<active, deferred>> /\ spc[s] = "release" /\ spc'[s] = "ended"
      BY <2>7 DEF ReleaseLanes, SectionMoves, BaseType, SectionType
    <3> QED BY <1>1, <1>2, <3>1 DEF SectionHold, Postponing
  <2> QED BY <2>1, <2>2, <2>3, <2>4, <2>5, <2>6, <2>7 DEF SectionRuns, SectionStep
<1> QED BY <1>5, <1>6, <1>7 DEF SectionHold

\* The initial state.
LEMMA HoldInit == Init => SectionHold
<1> SUFFICES ASSUME Init PROVE SectionHold
  OBVIOUS
<1>1. Postponing
  BY ConstantsAssumption DEF Postponing, Init, LifecycleInit, ConstantsAssumption
<1>2. ASSUME NEW s \in Sections PROVE Barriers(s)
  <2>1. Placed(s) = {} /\ HeldLanes(s) = {}
    BY DEF Placed, HasBarrier, HeldLanes, Init, LifecycleInit, NoEntry
  <2>2. spc[s] = "idle" /\ expected[s] = 0 /\ parked[s] = 0
    BY DEF Init, LifecycleInit
  <2> QED BY <2>1, <2>2, FS_EmptySet DEF Barriers
<1> QED BY <1>1, <1>2 DEF SectionHold

\* Every step.
LEMMA HoldNext ==
    /\ ShardedInv /\ ShardedInv' /\ ControlInv /\ ControlInv' /\ SectionHold
    /\ [Next]_allVars
    => SectionHold'
<1> SUFFICES ASSUME ShardedInv, ShardedInv', ControlInv, ControlInv', SectionHold,
                    [Next]_allVars
             PROVE  SectionHold'
  OBVIOUS
<1>1. CASE UNCHANGED <<pc, backlog, workerVars, tracked, sectionVars>>
           /\ (sealed => sealed')
  <2>1. Postponing'
    BY <1>1 DEF SectionHold, Postponing, sectionVars
  <2>2. \A s \in Sections : \A m \in Lanes : HasBarrier(s, m)' <=> HasBarrier(s, m)
    BY <1>1 DEF HasBarrier, workerVars
  <2>3. \A s \in Sections : Barriers(s)'
    BY <1>1, <2>2, BarriersCall DEF SectionHold, ShardedInv, sectionVars
  <2> QED BY <2>1, <2>3 DEF SectionHold
<1>2. CASE UNCHANGED allVars
  BY <1>1, <1>2 DEF allVars, submitVars, laneVars, cleanupVars
<1>3. ASSUME NEW l \in Lanes, LaneStep(l)
      PROVE  SectionHold'
  BY <1>3, HoldLane DEF LaneStep
<1>4. ASSUME NEW x \in Stoppers, BeginStop(x) \/ StopRuns(x) \/ StopTimeout(x)
      PROVE  SectionHold'
  <2>1. /\ UNCHANGED <<pc, backlog, workerVars, tracked, sectionVars>>
        /\ sealed' = sealed \/ sealed' = TRUE
    BY <1>4 DEF BeginStop, StopRuns, StopStep, StopTimeout, CloseQueueChannels,
       SignalHardStop, SignalStop, WaitInFlightSubmits, WaitWorkers, WaitSections,
       FinishLifecycleCleanups, StopMoves, laneVars, StopFrame, submitVars,
       cleanupVars
  <2> QED BY <1>1, <2>1
<1> QED BY <1>2, <1>3, <1>4, HoldCall, HoldSection DEF Next, Finished

-----------------------------------------------------------------------------
(* The theorems.                                                            *)

\* No call is resolved twice: it is never at two places.
LEMMA PlaceImplies == OnePlace => ResolvedOnce
BY DEF OnePlace, Held, ResolvedOnce

\* At fn every lane is held or has exited.
LEMMA HoldImplies ==
    ShardedInv /\ ControlInv /\ SectionHold => ExclusiveAlone
<1> SUFFICES ASSUME ShardedInv, ControlInv, SectionHold, NEW s \in Sections,
                    spc[s] = "fn"
             PROVE  /\ \A l \in Lanes : ~Executing(l)
                    /\ \A o \in Ops : pc[o] \notin {"cleanup", "cleanupHere"}
                    /\ \A t \in Sections : spc[t] \in {"fn", "releasing"} => t = s
  BY DEF ExclusiveAlone
<1>1. HeldLanes(s) = Placed(s)
  <2>1. /\ IsFiniteSet(Placed(s)) /\ expected[s] = Cardinality(Placed(s))
        /\ parked[s] <= Cardinality(HeldLanes(s)) /\ parked[s] >= expected[s]
    BY DEF SectionHold, Barriers
  <2>2. HeldLanes(s) \subseteq Placed(s)
    BY DEF HeldLanes, Placed, HasBarrier, ControlInv, Workers
  <2>3. parked[s] \in Nat /\ expected[s] \in Nat
    BY DEF ShardedInv, BaseType, SectionType
  <2>4. /\ Cardinality(HeldLanes(s)) \in Nat /\ Cardinality(Placed(s)) \in Nat
        /\ Cardinality(HeldLanes(s)) <= Cardinality(Placed(s))
        /\ Cardinality(HeldLanes(s)) = Cardinality(Placed(s)) => HeldLanes(s) = Placed(s)
    BY <2>1, <2>2, FS_Subset, FS_CardinalityType
  <2> QED BY <2>1, <2>3, <2>4
<1>2. \A l \in Lanes : wpc[l] = "held" \/ wpc[l] = "exited"
  BY <1>1 DEF SectionHold, Barriers, HeldLanes
<1>3. \A l \in Lanes : ~Executing(l)
  BY <1>2 DEF Executing
<1>4. \A o \in Ops : pc[o] \notin {"cleanup", "cleanupHere"}
  BY DEF SectionHold, Postponing
<1>5. \A t \in Sections : spc[t] \in {"fn", "releasing"} => t = s
  BY DEF ShardedInv, Turn
<1> QED BY <1>3, <1>4, <1>5

\* A returned stop leaves nothing behind.
LEMMA StopImplies ==
    ShardedInv /\ ControlInv /\ OnePlace /\ SectionHold => StopQuiescent
<1> SUFFICES ASSUME ShardedInv, ControlInv, OnePlace, SectionHold,
                    NEW x \in Stoppers, stpc[x] = "returned"
             PROVE  /\ \A l \in Lanes : wpc[l] \in {"exited", "unborn"} /\ ch[l] = <<>>
                    /\ \A s \in Sections : ~SectionRegistered(s)
                    /\ tracked = {}
                    /\ \A o \in Ops : pc[o] = "done" => outcome[o] # <<>>
  BY DEF StopQuiescent, EngineReleased
<1>1. /\ tracked = {} /\ \A s \in Sections : ~SectionRegistered(s)
      /\ \A l \in Lanes : wpc[l] = "exited"
  BY DEF ControlInv, StopOrder
<1>2. \A l \in Lanes : ch[l] = <<>> /\ backlog[l] = <<>> /\ cur[l].kind = "none"
  BY <1>1 DEF ControlInv, Workers
<1>3. deferred = <<>>
  BY <1>1 DEF SectionHold, Postponing, SectionRegistered, ShardedInv, BaseType, SectionType
<1>4. ASSUME NEW o \in Ops, pc[o] = "done" PROVE outcome[o] # <<>>
  <2>1. PICK k \in PlaceKind, m \in Lanes \cup {NoLane}, j \in Nat : Held(o, k, m, j)
    BY DEF OnePlace
  <2>2. pc[o] \notin CallPc
    BY <1>4, CallPcFacts
  <2>3. /\ \A l \in Lanes : \A i \in Nat : ~InCh(o, l, i) /\ ~InBacklog(o, l, i)
        /\ \A l \in Lanes : ~InHand(o, l)
        /\ \A i \in Nat : ~Postponed(o, i)
    BY <1>2, <1>3 DEF InCh, InBacklog, InHand, Postponed
  <2> QED BY <2>1, <2>2, <2>3 DEF Held, PlaceKind
<1> QED BY <1>1, <1>2, <1>4

\* The inductive invariant.
DrainInv == ShardedInv /\ ControlInv /\ OnePlace /\ SectionHold

\* It holds in every reachable state.
THEOREM DrainInvariance == Spec => []DrainInv
<1>1. Init => DrainInv
  BY InitInv, ControlInit, PlaceInit, HoldInit DEF DrainInv
<1>2. DrainInv /\ [Next]_allVars => DrainInv'
  BY NextInv, ControlNext, PlaceNext, HoldNext DEF DrainInv
<1> QED BY <1>1, <1>2, PTL DEF Spec

\* No operation is resolved twice and no handle released twice, whichever of
\* the lane, the caller and a section comes to do it.
THEOREM AlwaysResolvedOnce == Spec => []ResolvedOnce
<1>1. DrainInv => ResolvedOnce
  BY PlaceImplies DEF DrainInv
<1> QED BY <1>1, DrainInvariance, PTL

\* While the callback of an Exclusive section runs nothing else does, on any
\* number of lanes.
THEOREM AlwaysExclusiveAlone == Spec => []ExclusiveAlone
<1>1. DrainInv => ExclusiveAlone
  BY HoldImplies DEF DrainInv
<1> QED BY <1>1, DrainInvariance, PTL

\* A stop that returned without error left no work, no section and no call
\* unresolved.
THEOREM AlwaysStopQuiescent == Spec => []StopQuiescent
<1>1. DrainInv => StopQuiescent
  BY StopImplies DEF DrainInv
<1> QED BY <1>1, DrainInvariance, PTL

-----------------------------------------------------------------------------
(* The two fences on shards.                                                *)

\* The worker of a shard has in hand what fits where it is.
LEMMA ShardHandling ==
    ASSUME ControlInv
    PROVE  \A l \in Lanes : Handling(l)
BY DEF ControlInv, Workers, LaneOps, Handling

\* A key has one shard, on which its releases are queued and its work is done.
LEMMA ShardOfKey ==
    ASSUME AtShard, ControlInv, NEW o \in Ops
    PROVE  QueuedOn(OpKey[o], at[o]) /\ InHandOn(OpKey[o], at[o])
BY DEF AtShard, ControlInv, LaneOps, QueuedOn, InHandOn, ReleasesFor

\* Every step moves the submit fence as FenceInv says: a shard is closed behind
\* the fence.
LEMMA FenceNext ==
    ASSUME ShardedInv, ControlInv, FenceInv, [Next]_allVars
    PROVE  FenceMoves
<1> USE DEF ShardedInv
<1>1. CASE UNCHANGED allVars
  BY <1>1, FenceSame DEF allVars, historyVars
<1>2. ASSUME NEW o \in Ops, Submit(o) \/ OpStep(o) \/ Cancel(o)
      PROVE  FenceMoves
  <2>1. CASE ScheduleCleanup(o)
    BY <2>1, FenceEnters DEF ScheduleCleanup, HandoffFrame, historyVars
  <2>2. CASE ~ScheduleCleanup(o)
    <3>1. closed[at[o]] => fence
      BY OnLane DEF ControlInv, Workers
    <3>2. "late" \in {"late", "handoff"} /\ "wait" \in QueuePc
      BY DEF QueuePc
    <3> QED BY <1>2, <2>2, <3>1, <3>2, FenceProducer, FenceRelease DEF Submit, OpStep, Cancel
  <2> QED BY <2>1, <2>2
<1>3. ASSUME NEW l \in Lanes, LaneStep(l)
      PROVE  FenceMoves
  <2>1. UNCHANGED <<stopVars, crashed, early>>
    BY <1>3 DEF LaneStep, WorkerStep, TakeMandatory, NoMandatory, Receive, Complete,
       TakeWake, SeeFence, SeeClosed, FinishWorker, ParkBarrier, LeaveBarrier,
       IdleFrame, WorkerFrame
  <2> QED BY <2>1, FenceSame
<1>4. ASSUME NEW s \in Sections, TakeTurn(s) \/ SectionRuns(s) \/ SectionFails(s, "ctx")
      PROVE  FenceMoves
  BY <1>4, SectionFrames, FenceSame DEF historyVars
<1>5. ASSUME NEW x \in Stoppers, BeginStop(x) \/ StopRuns(x) \/ StopTimeout(x)
      PROVE  FenceMoves
  <2>1. /\ UNCHANGED <<inFlight, crashed, early>>
        /\ \/ UNCHANGED <<stopped, fence>>
           \/ stopped' = TRUE /\ fence' = (fence \/ (~stopped /\ inFlight = 0))
    BY <1>5 DEF BeginStop, StopRuns, StopStep, StopTimeout, CloseQueueChannels,
       SignalHardStop, SignalStop, WaitInFlightSubmits, WaitWorkers, WaitSections,
       FinishLifecycleCleanups, StopMoves, laneVars, StopFrame
  <2> QED BY <2>1, FenceStop
<1> QED BY <1>1, <1>2, <1>3, <1>4, <1>5 DEF Next, Finished

\* Every step keeps the marks of late releases.
LEMMA LateNext ==
    ASSUME ShardedInv, ControlInv, FenceInv, LateInv, [Next]_allVars
    PROVE  FenceInv' /\ LateInv'
<1> USE DEF ShardedInv
<1>1. FenceMoves /\ FenceInv'
  BY FenceNext DEF FenceMoves
<1>2. CASE UNCHANGED allVars
  BY <1>1, <1>2, LateKept DEF allVars, laneVars, workerVars, historyVars
<1>3. ASSUME NEW o \in Ops, Submit(o) \/ OpStep(o) \/ Cancel(o)
      PROVE  LateInv'
  <2>1. CASE ScheduleCleanup(o)
    BY <1>1, <2>1, LateKept
       DEF ScheduleCleanup, HandoffFrame, laneVars, workerVars, historyVars
  <2>2. CASE ~ScheduleCleanup(o)
    <3>1. PICK n \in Lanes \cup {NoLane} : n = at[o] /\ at[o] \in Lanes
      BY OnLane
    <3>2. pc[o] = "late" => stopped
      BY DEF ControlInv, StopOrder
    <3> QED BY <1>1, <1>3, <2>2, <3>1, <3>2, LateProducer, LateRelease
            DEF Submit, OpStep, Cancel
  <2> QED BY <2>1, <2>2
<1>4. ASSUME NEW l \in Lanes, LaneStep(l)
      PROVE  LateInv'
  BY <1>1, <1>4, LateLane, ShardHandling DEF LaneStep
<1>5. ASSUME NEW s \in Sections, TakeTurn(s) \/ SectionRuns(s) \/ SectionFails(s, "ctx")
      PROVE  LateInv'
  BY <1>1, <1>5, LateSection DEF SectionRuns, InstallSection, SectionMove
<1>6. ASSUME NEW x \in Stoppers, BeginStop(x) \/ StopRuns(x) \/ StopTimeout(x)
      PROVE  LateInv'
  <2>1. UNCHANGED <<ch, backlog, admitted>> /\ StopFrame
    BY <1>6 DEF BeginStop, StopRuns, StopStep, StopTimeout, CloseQueueChannels,
       SignalHardStop, SignalStop, WaitInFlightSubmits, WaitWorkers, WaitSections,
       FinishLifecycleCleanups, StopMoves, laneVars
  <2> QED BY <1>1, <2>1, LateStop
<1> QED BY <1>1, <1>2, <1>3, <1>4, <1>5, <1>6 DEF Next, Finished

\* Every step keeps what calls are owed.
LEMMA OwesNext ==
    ASSUME ShardedInv, ControlInv, OnePlace, LateInv, OwesInv, [Next]_allVars
    PROVE  OwesInv'
<1> USE DEF ShardedInv
<1>1. CASE UNCHANGED allVars
  BY <1>1, OwesSame DEF allVars, submitVars, laneVars, workerVars, historyVars
<1>2. ASSUME NEW o \in Ops, Submit(o) \/ OpStep(o) \/ Cancel(o)
      PROVE  OwesInv'
  <2>1. CASE ScheduleCleanup(o)
    <3>1. UNCHANGED <<owes, ch, cur, backlog, outcome>>
      BY <2>1 DEF ScheduleCleanup, HandoffFrame, laneVars, workerVars, historyVars
    <3>2. PICK x : x = IF stopped THEN "late" ELSE "enqueue"
      OBVIOUS
    <3>3. pc' = [pc EXCEPT ![o] = x] /\ x \notin {"admit", "send", "blocked"}
      BY <2>1, <3>2 DEF ScheduleCleanup
    <3> QED BY <3>1, <3>3, OwesPlace, OwesMoves DEF SameMarks
  <2>2. CASE ~ScheduleCleanup(o)
    <3>1. PICK n \in Lanes \cup {NoLane} : n = at[o] /\ at[o] \in Lanes
      BY OnLane
    <3>2. "wait" \in QueuePc \ {"admit", "send", "blocked"} /\ "late" \in {"late", "handoff"}
      BY DEF QueuePc
    <3>3. QueuedOn(OpKey[o], at[o])
      BY ShardOfKey
    <3> QED BY <1>2, <2>2, <3>1, <3>2, <3>3, OwesProducer, OwesRelease
            DEF Submit, OpStep, Cancel
  <2> QED BY <2>1, <2>2
<1>3. ASSUME NEW l \in Lanes, LaneStep(l)
      PROVE  OwesInv'
  <2>1. ASSUME ch[l] # <<>> PROVE InHandOn(OpKey[Head(ch[l])], l)
    <3>1. PICK o \in Ops : o = ch[l][1] /\ 1 \in DOMAIN ch[l] /\ o = Head(ch[l])
      BY <2>1 DEF BaseType, LaneType
    <3>2. at[o] = l
      BY <3>1 DEF ControlInv, LaneOps
    <3> QED BY <3>1, <3>2, ShardOfKey
  <2> QED BY <1>3, <2>1, OwesLane, ShardHandling DEF LaneStep
<1>4. ASSUME NEW s \in Sections, TakeTurn(s) \/ SectionRuns(s) \/ SectionFails(s, "ctx")
      PROVE  OwesInv'
  BY <1>4, OwesSection DEF SectionRuns, InstallSection, SectionMove
<1>5. ASSUME NEW x \in Stoppers, BeginStop(x) \/ StopRuns(x) \/ StopTimeout(x)
      PROVE  OwesInv'
  <2>1. UNCHANGED <<pc, owes, ch, backlog, cur, outcome>>
    BY <1>5 DEF BeginStop, StopRuns, StopStep, StopTimeout, CloseQueueChannels,
       SignalHardStop, SignalStop, WaitInFlightSubmits, WaitWorkers, WaitSections,
       FinishLifecycleCleanups, StopMoves, laneVars, StopFrame, submitVars, workerVars
  <2> QED BY <2>1, OwesSame
<1> QED BY <1>1, <1>2, <1>3, <1>4, <1>5 DEF Next, Finished

\* The initial state.
LEMMA FenceInit == Init => FenceInv /\ LateInv /\ OwesInv
BY LateNone DEF FenceInv, OwesInv, Init, LifecycleInit

\* The inductive invariant of the fences.
QueueInv == DrainInv /\ FenceInv /\ LateInv /\ OwesInv

\* It holds in every reachable state.
THEOREM FenceInvariance == Spec => []QueueInv
<1>1. DrainInv /\ FenceInv /\ LateInv /\ OwesInv /\ [Next]_allVars
         => FenceInv' /\ LateInv' /\ OwesInv'
  BY LateNext, OwesNext DEF DrainInv
<1>2. QueueInv <=> DrainInv /\ FenceInv /\ LateInv /\ OwesInv
  BY DEF QueueInv
<1> QED BY <1>1, <1>2, FenceInit, DrainInvariance, PTL DEF Spec

\* A task submitted after a release was queued for its key does not start
\* before that release has run.
THEOREM NeverOvertakes == Spec => []NoOvertake
<1>1. QueueInv => NoOvertake
  BY OwesImplies, ShardHandling DEF QueueInv, DrainInv
<1> QED BY <1>1, FenceInvariance, PTL

\* A release queued after the stop signal runs when its lane is drained and no
\* producer can send to it, unless the submit fence was closed early.
THEOREM AlwaysLateReleaseLast == Spec => []LateReleaseLast
<1>1. QueueInv => LateReleaseLast
  BY LateImplies DEF QueueInv, DrainInv, ShardedInv
<1> QED BY <1>1, FenceInvariance, PTL

\* closeQueueChannels panics a producer only after the submit fence was closed
\* with that producer in flight: the early fence is the one way to the panic.
THEOREM CrashNeedsEarlyFence == Spec => [](crashed => early)
<1>1. QueueInv => (crashed => early)
  BY DEF QueueInv, FenceInv
<1> QED BY <1>1, FenceInvariance, PTL

=============================================================================
