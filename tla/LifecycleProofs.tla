-------------------------- MODULE LifecycleProofs --------------------------
(***************************************************************************)
(* What the actions of KeyQueue and Lifecycle preserve, one lemma per group *)
(* of actions, for any strategy built on them.                              *)
(***************************************************************************)
EXTENDS Lifecycle, FiniteSetTheorems, TLAPS

\* The types alone, without the sign of inFlightSubmits.
BaseType ==
    /\ SubmitType
    /\ LaneType
    /\ WorkerType
    /\ StopType
    /\ SectionType
    /\ HistoryType
    /\ inFlight \in Int


\* Appending to an outcome keeps the type, whichever operation it is.
LEMMA OutcomeTyped ==
    ASSUME outcome \in [Ops -> Seq(Results)], NEW o, NEW how \in Results
    PROVE  [outcome EXCEPT ![o] = Append(@, how)] \in [Ops -> Seq(Results)]
<1>1. \A p \in Ops : Append(outcome[p], how) \in Seq(Results)
  OBVIOUS
<1> QED BY <1>1

\* A submit that returns an error resolves its call and leaves or hands off.
LEMMA FailTyped ==
    ASSUME BaseType, NEW o \in Ops, Fail(o)
    PROVE  pc' \in [Ops -> PcType] /\ outcome' \in [Ops -> Seq(Results)]
<1>1. outcome' \in [Ops -> Seq(Results)]
  BY OutcomeTyped DEF BaseType, HistoryType, Fail, Results
<1>2. pc' \in [Ops -> PcType]
  BY DEF BaseType, SubmitType, Fail, Return, PcType
<1> QED BY <1>1, <1>2

\* The steps of a producer keep the types.
LEMMA BeginTyped ==
    ASSUME BaseType, NEW o \in Ops, NEW first \in PcType,
           BeginSubmit(o, first), stpc' = stpc
    PROVE  BaseType'
<1>1. CASE stopped
  <2>1. Fail(o) /\ UNCHANGED <<reg, inFlight, owes>>
    BY <1>1 DEF BeginSubmit
  <2> QED
    BY <2>1, FailTyped DEF BaseType, SubmitType, LaneType, WorkerType, StopType,
       SectionType, HistoryType, BeginSubmit, laneVars, workerVars, cleanupVars,
       sectionVars
<1>2. CASE ~stopped
  <2> DEFINE mine == {r \in Closing : \E l \in Lanes :
                      \E i \in ReleasesFor(l, OpKey[o]) : backlog[l][i].op = r}
  <2>1. /\ inFlight' = inFlight + 1
        /\ reg' = [reg EXCEPT ![o] = TRUE]
        /\ pc' = [pc EXCEPT ![o] = first]
        /\ owes' = [owes EXCEPT ![o] = mine]
        /\ UNCHANGED outcome
    BY <1>2 DEF BeginSubmit
  <2>2. mine \in SUBSET Closing
    OBVIOUS
  <2> HIDE DEF mine
  <2>3. owes' \in [Ops -> SUBSET Closing]
    BY <2>1, <2>2 DEF BaseType, HistoryType
  <2>4. inFlight' \in Int /\ pc' \in [Ops -> PcType] /\ reg' \in [Ops -> BOOLEAN]
    BY <2>1 DEF BaseType, SubmitType
  <2> QED
    BY <2>1, <2>3, <2>4 DEF BaseType, SubmitType, LaneType, WorkerType, StopType,
       SectionType, HistoryType, BeginSubmit, laneVars, workerVars, cleanupVars,
       sectionVars
<1> QED BY <1>1, <1>2

\* endSubmit keeps the types.
LEMMA EndSubmitTyped ==
    ASSUME BaseType, NEW o \in Ops, EndSubmit(o),
           stpc' = stpc
    PROVE  BaseType'
<1>1. SubmitType' /\ inFlight' \in Int
  BY DEF BaseType, SubmitType, EndSubmit, LeaveSubmit, PcType
<1>2. LaneType' /\ WorkerType'
  BY DEF BaseType, LaneType, WorkerType, laneVars, workerVars, EndSubmit
<1>3. StopType' /\ SectionType' /\ HistoryType'
  BY DEF BaseType, StopType, SectionType, HistoryType, cleanupVars, sectionVars,
     historyVars, EndSubmit
<1> QED BY <1>1, <1>2, <1>3 DEF BaseType

\* So does its test of stopCh.
LEMMA EndTestTyped ==
    ASSUME BaseType, NEW o \in Ops, EndSubmitTest(o),
           stpc' = stpc
    PROVE  BaseType'
BY DEF BaseType, SubmitType, LaneType, WorkerType, StopType, SectionType,
   HistoryType, submitVars, laneVars, workerVars, stopVars, cleanupVars,
   sectionVars, historyVars, EndSubmitTest, TestStop, PcType

\* waitForMandatoryCleanup.
LEMMA WaitTyped ==
    ASSUME BaseType, NEW o \in Ops, at[o] \in Lanes,
           WaitForMandatoryCleanup(o), stpc' = stpc
    PROVE  BaseType'
BY DEF BaseType, SubmitType, LaneType, WorkerType, StopType, SectionType,
   HistoryType, submitVars, laneVars, workerVars, stopVars, cleanupVars,
   sectionVars, historyVars, WaitForMandatoryCleanup, ProducerFrame, PcType

\* Its progress case.
LEMMA FenceProgressTyped ==
    ASSUME BaseType, NEW o \in Ops, FenceProgress(o),
           stpc' = stpc
    PROVE  BaseType'
BY DEF BaseType, SubmitType, LaneType, WorkerType, StopType, SectionType,
   HistoryType, submitVars, laneVars, workerVars, stopVars, cleanupVars,
   sectionVars, historyVars, FenceProgress, ProducerFrame, PcType

\* Its stop case.
LEMMA FenceStoppedTyped ==
    ASSUME BaseType, NEW o \in Ops, FenceStopped(o),
           stpc' = stpc
    PROVE  BaseType'
BY FailTyped DEF BaseType, SubmitType, LaneType, WorkerType, StopType,
   SectionType, HistoryType, submitVars, laneVars, workerVars, stopVars,
   cleanupVars, sectionVars, historyVars, FenceStopped, ProducerFrame

\* Its ctx case.
LEMMA CancelTyped ==
    ASSUME BaseType, NEW o \in Ops, CancelBeforeAdmit(o),
           stpc' = stpc
    PROVE  BaseType'
BY FailTyped DEF BaseType, SubmitType, LaneType, WorkerType, StopType,
   SectionType, HistoryType, submitVars, laneVars, workerVars, stopVars,
   cleanupVars, sectionVars, historyVars, CancelBeforeAdmit, ProducerFrame

\* admitTask.
LEMMA AdmitTyped ==
    ASSUME BaseType, NEW o \in Ops, at[o] \in Lanes, AdmitTask(o), stpc' = stpc
    PROVE  BaseType'
<1>1. /\ admitted' = [admitted EXCEPT ![at[o]] = @ + 1]
      /\ ticket' = [ticket EXCEPT ![o] = admitted[at[o]] + 1]
      /\ pc' = [pc EXCEPT ![o] = "send"]
      /\ PendingBump(at[o], 1)
  BY DEF AdmitTask
<1>2. /\ admitted' \in [Lanes -> Nat]
      /\ ticket' \in [Ops -> Nat]
      /\ pc' \in [Ops -> PcType]
  BY <1>1 DEF BaseType, LaneType, SubmitType, PcType
<1>3. pending' \in [Lanes -> Int]
  BY <1>1 DEF PendingBump, BaseType, LaneType
<1> QED
  BY <1>2, <1>3 DEF BaseType, SubmitType, LaneType, WorkerType, StopType,
     SectionType, HistoryType, workerVars, stopVars, cleanupVars, sectionVars,
     historyVars, AdmitTask

\* The send.
LEMMA SendTyped ==
    ASSUME BaseType, NEW o \in Ops, at[o] \in Lanes, SendTask(o), stpc' = stpc
    PROVE  BaseType'
<1>1. /\ ch' = [ch EXCEPT ![at[o]] = Append(@, o)]
      /\ accepted' = [accepted EXCEPT ![at[o]] = @ + 1]
      /\ pc' = [pc EXCEPT ![o] = "end"]
  BY DEF SendTask
<1>2. \A l \in Lanes : Append(ch[l], o) \in Seq(Ops)
  BY DEF BaseType, LaneType
<1>3. ch' \in [Lanes -> Seq(Ops)]
  BY <1>1, <1>2 DEF BaseType, LaneType
<1>4. accepted' \in [Lanes -> Nat] /\ pc' \in [Ops -> PcType]
  BY <1>1 DEF BaseType, HistoryType, SubmitType, PcType
<1> QED
  BY <1>3, <1>4 DEF BaseType, SubmitType, LaneType, WorkerType, StopType,
     SectionType, HistoryType, workerVars, stopVars, cleanupVars, sectionVars,
     SendTask

\* The panic.
LEMMA CrashTyped ==
    ASSUME BaseType, NEW o \in Ops, SendOnClosed(o),
           stpc' = stpc
    PROVE  BaseType'
BY DEF BaseType, SubmitType, LaneType, WorkerType, StopType, SectionType,
   HistoryType, submitVars, laneVars, workerVars, stopVars, cleanupVars,
   sectionVars, historyVars, SendOnClosed

\* A full channel.
LEMMA BlocksTyped ==
    ASSUME BaseType, NEW o \in Ops, SendBlocks(o),
           stpc' = stpc
    PROVE  BaseType'
BY DEF BaseType, SubmitType, LaneType, WorkerType, StopType, SectionType,
   HistoryType, submitVars, laneVars, workerVars, stopVars, cleanupVars,
   sectionVars, historyVars, SendBlocks, ProducerFrame, PcType

\* Raising the targets of a backlog keeps its type.
LEMMA RaiseTyped ==
    ASSUME NEW es \in Seq(EntryType), NEW t
    PROVE  RaiseTargets(es, t) \in Seq(EntryType)
<1>1. ASSUME NEW e \in EntryType
      PROVE  [e EXCEPT !.target = @ + 1] \in EntryType
  <2>1. e.target + 1 \in Nat
    BY DEF EntryType
  <2> QED BY <2>1 DEF EntryType
<1>2. \A i \in DOMAIN es : RaiseTargets(es, t)[i] \in EntryType
  BY <1>1 DEF RaiseTargets
<1>3. DOMAIN RaiseTargets(es, t) = 1 .. Len(es) /\ Len(es) \in Nat
  BY DEF RaiseTargets
<1> QED BY <1>2, <1>3 DEF RaiseTargets

\* A send given up, unmarkSent.
LEMMA AbandonTyped ==
    ASSUME BaseType, NEW o \in Ops, NEW reason, at[o] \in Lanes,
           AbandonSend(o, reason), stpc' = stpc
    PROVE  BaseType'
<1>1. UnmarkSent(at[o], ticket[o]) /\ Fail(o)
  BY DEF AbandonSend
<1>2. backlog' \in [Lanes -> Seq(EntryType)]
  BY <1>1, RaiseTyped DEF UnmarkSent, BaseType, LaneType
<1>3. settled' \in [Lanes -> Nat] /\ wake' \in [Lanes -> BOOLEAN]
  BY <1>1 DEF UnmarkSent, BaseType, LaneType
<1>4. pending' \in [Lanes -> Int]
  BY <1>1 DEF UnmarkSent, PendingBump, BaseType, LaneType
<1> QED
  BY <1>1, <1>2, <1>3, <1>4, FailTyped DEF BaseType, SubmitType, LaneType,
     WorkerType, StopType, SectionType, HistoryType, workerVars, stopVars,
     cleanupVars, sectionVars, historyVars, AbandonSend

-----------------------------------------------------------------------------
(* The worker.                                                              *)

\* The records the worker handles are entries.
LEMMA EntriesTyped ==
    /\ NoEntry \in EntryType
    /\ \A o \in Ops : TaskEntry(o) \in EntryType
BY DEF NoEntry, TaskEntry, EntryType

\* So are the entries queued for a release or a barrier.
LEMMA EntryTyped ==
    ASSUME BaseType, NEW l \in Lanes, NEW kind \in {"release", "barrier"},
           NEW op \in Ops \cup Sections, NEW w \in BOOLEAN
    PROVE  Entry(kind, op, l, w) \in EntryType
BY DEF BaseType, LaneType, HistoryType, Entry, EntryType

\* The head of a backlog, refreshed or not, and the rest of it.
LEMMA HeadTyped ==
    ASSUME BaseType, NEW l \in Lanes, backlog[l] # <<>>
    PROVE  Head1(l) \in EntryType /\ Tail(backlog[l]) \in Seq(EntryType)
<1>1. backlog[l] \in Seq(EntryType)
  BY DEF BaseType, LaneType
<1>2. Head(backlog[l]) \in EntryType /\ Tail(backlog[l]) \in Seq(EntryType)
  BY <1>1
<1>3. admitted[l] \in Nat /\ accepted[l] \in Nat
  BY DEF BaseType, LaneType, HistoryType
<1>4. \A e \in EntryType :
         [e EXCEPT !.wsf = FALSE, !.cutoff = admitted[l],
                   !.target = admitted[l], !.before = accepted[l]] \in EntryType
  BY <1>3 DEF EntryType
<1> QED BY <1>2, <1>4 DEF Head1

\* takeMandatoryCleanup takes the head of the backlog.
LEMMA TakeTyped ==
    ASSUME BaseType, NEW l \in Lanes, TakeMandatory(l), stpc' = stpc
    PROVE  BaseType'
<1>1. backlog[l] # <<>>
  BY DEF TakeMandatory, MandatoryReady
<1>2. /\ backlog' = [backlog EXCEPT ![l] = Tail(@)]
      /\ progress' = [progress EXCEPT ![l] = @ + 1]
      /\ cur' = [cur EXCEPT ![l] = Head1(l)]
  BY DEF TakeMandatory
<1>3. /\ backlog' \in [Lanes -> Seq(EntryType)]
      /\ progress' \in [Lanes -> Nat]
      /\ cur' \in [Lanes -> EntryType]
  BY <1>1, <1>2, HeadTyped DEF BaseType, LaneType, WorkerType
<1>4. wpc' \in [Lanes -> WpcType] /\ aborted' \in [Sections -> BOOLEAN]
  BY DEF TakeMandatory, BaseType, WorkerType, SectionType, StopType, WpcType
<1> QED
  BY <1>3, <1>4 DEF BaseType, SubmitType, LaneType, WorkerType, StopType,
     SectionType, HistoryType, submitVars, stopVars, cleanupVars, TakeMandatory,
     WorkerFrame

\* takeMandatoryCleanup finds nothing it may take, and refreshes the head.
LEMMA NoMandatoryTyped ==
    ASSUME BaseType, NEW l \in Lanes, NoMandatory(l), stpc' = stpc
    PROVE  BaseType'
<1>1. backlog' \in [Lanes -> Seq(EntryType)]
  <2>1. CASE backlog' = backlog
    BY <2>1 DEF BaseType, LaneType
  <2>2. CASE backlog[l] # <<>> /\ backlog' = [backlog EXCEPT ![l][1] = Head1(l)]
    <3>1. [backlog[l] EXCEPT ![1] = Head1(l)] \in Seq(EntryType)
      BY <2>2, HeadTyped DEF BaseType, LaneType
    <3> QED BY <2>2, <3>1 DEF BaseType, LaneType
  <2> QED BY <2>1, <2>2 DEF NoMandatory
<1>2. wfence' \in [Lanes -> BOOLEAN] /\ wpc' \in [Lanes -> WpcType]
  BY DEF NoMandatory, WaitsFence, BaseType, WorkerType, WpcType
<1> QED
  BY <1>1, <1>2 DEF BaseType, SubmitType, LaneType, WorkerType, StopType,
     SectionType, HistoryType, submitVars, stopVars, cleanupVars, sectionVars,
     NoMandatory, WorkerFrame

\* The worker receives a task from its channel.
LEMMA ReceiveTyped ==
    ASSUME BaseType, NEW l \in Lanes, Receive(l), stpc' = stpc
    PROVE  BaseType'
<1>1. /\ ch[l] # <<>>
      /\ ch' = [ch EXCEPT ![l] = Tail(@)]
      /\ cur' = [cur EXCEPT ![l] = TaskEntry(Head(ch[l]))]
      /\ wpc' = [wpc EXCEPT ![l] = IF hard THEN "abort" ELSE "run"]
  BY DEF Receive
<1>2. ch[l] \in Seq(Ops) /\ Head(ch[l]) \in Ops /\ Tail(ch[l]) \in Seq(Ops)
  BY <1>1 DEF BaseType, LaneType
<1>3. ch' \in [Lanes -> Seq(Ops)]
  BY <1>1, <1>2 DEF BaseType, LaneType
<1>4. cur' \in [Lanes -> EntryType]
  BY <1>1, <1>2, EntriesTyped DEF BaseType, WorkerType
<1>5. wpc' \in [Lanes -> WpcType]
  BY <1>1 DEF BaseType, WorkerType, WpcType
<1> QED
  BY <1>3, <1>4, <1>5 DEF BaseType, SubmitType, LaneType, WorkerType, StopType,
     SectionType, HistoryType, submitVars, stopVars, cleanupVars, sectionVars,
     Receive, WorkerFrame

\* The task or release in hand ends and resolves its call.
LEMMA CompleteTyped ==
    ASSUME BaseType, NEW l \in Lanes, Complete(l), stpc' = stpc
    PROVE  BaseType'
<1>1. PICK how \in Results :
         outcome' = [outcome EXCEPT ![cur[l].op] = Append(@, how)]
  BY DEF Complete, Resolve, Results
<1>2. outcome' \in [Ops -> Seq(Results)]
  BY <1>1, OutcomeTyped DEF BaseType, HistoryType
<1>3. settled' \in [Lanes -> Nat] /\ handled' \in [Lanes -> Nat]
  BY DEF Complete, BaseType, LaneType, HistoryType
<1>4. pending' \in [Lanes -> Int]
  BY DEF Complete, PendingBump, BaseType, LaneType
<1>5. cur' \in [Lanes -> EntryType]
  BY EntriesTyped DEF Complete, BaseType, WorkerType
<1>6. wpc' \in [Lanes -> WpcType]
  BY DEF Complete, BaseType, WorkerType, WpcType
<1> QED
  BY <1>2, <1>3, <1>4, <1>5, <1>6 DEF BaseType, SubmitType, LaneType,
     WorkerType, StopType, SectionType, HistoryType, submitVars, stopVars,
     cleanupVars, sectionVars, Complete, WorkerFrame

\* The steps of a worker that has nothing in hand.
LEMMA IdleTyped ==
    ASSUME BaseType, NEW l \in Lanes, stpc' = stpc,
           TakeWake(l) \/ SeeFence(l) \/ SeeClosed(l) \/ FinishWorker(l)
    PROVE  BaseType'
<1>1. IdleFrame
  BY DEF TakeWake, SeeFence, SeeClosed, FinishWorker
<1>2. /\ wake' \in [Lanes -> BOOLEAN]
      /\ ended' \in [Lanes -> BOOLEAN]
      /\ wpc' \in [Lanes -> WpcType]
  BY DEF TakeWake, SeeFence, SeeClosed, FinishWorker, BaseType, LaneType,
     WorkerType, WpcType
<1> QED
  BY <1>1, <1>2 DEF BaseType, SubmitType, LaneType, WorkerType, StopType,
     SectionType, HistoryType, submitVars, stopVars, cleanupVars, sectionVars,
     IdleFrame, WorkerFrame

\* A barrier task reports that its lane is parked.
LEMMA ParkTyped ==
    ASSUME BaseType, NEW l \in Lanes, ParkBarrier(l), stpc' = stpc
    PROVE  BaseType'
<1>1. parked' = [parked EXCEPT ![cur[l].op] = @ + 1]
  BY DEF ParkBarrier
<1>2. parked' \in [Sections -> Nat]
  <2>1. \A s \in Sections : parked[s] + 1 \in Nat
    BY DEF BaseType, SectionType
  <2> QED BY <1>1, <2>1 DEF BaseType, SectionType
<1>3. wpc' \in [Lanes -> WpcType]
  BY DEF ParkBarrier, BaseType, WorkerType, WpcType
<1> QED
  BY <1>2, <1>3 DEF BaseType, SubmitType, LaneType, WorkerType, StopType,
     SectionType, HistoryType, submitVars, stopVars, cleanupVars, ParkBarrier,
     WorkerFrame

\* A barrier task lets its lane go on.
LEMMA LeaveTyped ==
    ASSUME BaseType, NEW l \in Lanes, LeaveBarrier(l), stpc' = stpc
    PROVE  BaseType'
<1>1. pending' \in [Lanes -> Int]
  BY DEF LeaveBarrier, PendingBump, BaseType, LaneType
<1>2. cur' \in [Lanes -> EntryType] /\ wpc' \in [Lanes -> WpcType]
  BY EntriesTyped DEF LeaveBarrier, BaseType, WorkerType, WpcType
<1> QED
  BY <1>1, <1>2 DEF BaseType, SubmitType, LaneType, WorkerType, StopType,
     SectionType, HistoryType, submitVars, stopVars, cleanupVars, sectionVars,
     LeaveBarrier, WorkerFrame

\* Every step of a worker keeps the types.
LEMMA WorkerTyped ==
    ASSUME BaseType, NEW l \in Lanes, WorkerStep(l), stpc' = stpc
    PROVE  BaseType'
BY TakeTyped, NoMandatoryTyped, ReceiveTyped, CompleteTyped, IdleTyped,
   ParkTyped, LeaveTyped DEF WorkerStep

-----------------------------------------------------------------------------
(* Handoffs, sections and the stop.                                         *)

\* Queueing a mandatory entry.
LEMMA EnqueueTyped ==
    ASSUME BaseType, NEW l \in Lanes, NEW e \in EntryType,
           EnqueueMandatory(l, e)
    PROVE  LaneType'
<1>1. \A k \in Lanes : Append(backlog[k], e) \in Seq(EntryType)
  BY DEF BaseType, LaneType
<1>2. backlog' \in [Lanes -> Seq(EntryType)]
  BY <1>1 DEF EnqueueMandatory, BaseType, LaneType
<1>3. pending' \in [Lanes -> Int]
  BY DEF EnqueueMandatory, PendingBump, BaseType, LaneType
<1> QED BY <1>2, <1>3 DEF EnqueueMandatory, BaseType, LaneType

\* A registered handoff puts a release on its lane, or is refused.
LEMMA EnqueueCleanupTyped ==
    ASSUME BaseType, NEW o \in Ops, at[o] \in Lanes, EnqueueCleanup(o)
    PROVE  BaseType'
<1>1. LaneType'
  <2>1. CASE EnqueueMandatory(at[o], Entry("release", o, at[o], FALSE))
    BY <2>1, EnqueueTyped, EntryTyped
  <2>2. CASE UNCHANGED laneVars
    BY <2>2 DEF laneVars, BaseType, LaneType
  <2> QED BY <2>1, <2>2 DEF EnqueueCleanup
<1>2. pc' \in [Ops -> PcType]
  <2>1. PICK x \in {"taken", "refused"} : pc' = [pc EXCEPT ![o] = x]
    BY DEF EnqueueCleanup
  <2>2. pc \in [Ops -> PcType] /\ x \in PcType
    BY DEF BaseType, SubmitType, PcType
  <2> QED BY <2>1, <2>2
<1>3. UNCHANGED <<at, ticket, seen, reg, workerVars, stopVars, crashed,
                  cleanupVars, sectionVars, outcome, historyVars, stpc>>
  BY DEF EnqueueCleanup, HandoffFrame, stopVars, workerVars, cleanupVars,
     sectionVars, historyVars
<1>4. SubmitType' /\ WorkerType' /\ inFlight' \in Int
  BY <1>2, <1>3 DEF BaseType, SubmitType, WorkerType, workerVars, stopVars
<1>5. StopType' /\ SectionType' /\ HistoryType'
  BY <1>3 DEF BaseType, StopType, SectionType, HistoryType, stopVars,
     cleanupVars, sectionVars, historyVars
<1> QED BY <1>1, <1>4, <1>5 DEF BaseType

\* A handoff after stop puts a release on a lane, or is refused.
LEMMA HandoffLateTyped ==
    ASSUME BaseType, NEW o \in Ops, NEW l \in Lanes \cup {NoLane},
           HandoffLate(o, l)
    PROVE  BaseType'
<1>1. LaneType'
  <2>1. CASE l \in Lanes /\ EnqueueMandatory(l, Entry("release", o, l, TRUE))
    BY <2>1, EnqueueTyped, EntryTyped
  <2>2. CASE UNCHANGED laneVars
    BY <2>2 DEF laneVars, BaseType, LaneType
  <2> QED BY <2>1, <2>2 DEF HandoffLate
<1>2. pc' \in [Ops -> PcType]
  <2>1. PICK x \in {"end", "done", "off"} : pc' = [pc EXCEPT ![o] = x]
    BY DEF HandoffLate, Return
  <2>2. pc \in [Ops -> PcType] /\ x \in PcType
    BY DEF BaseType, SubmitType, PcType
  <2> QED BY <2>1, <2>2
<1>3. UNCHANGED <<at, ticket, seen, reg, workerVars, stopVars, crashed,
                  cleanupVars, sectionVars, outcome, historyVars, stpc>>
  BY DEF HandoffLate, HandoffFrame, stopVars
<1>4. SubmitType' /\ WorkerType' /\ inFlight' \in Int
  BY <1>2, <1>3 DEF BaseType, SubmitType, WorkerType, workerVars, stopVars
<1>5. StopType' /\ SectionType' /\ HistoryType'
  BY <1>3 DEF BaseType, StopType, SectionType, HistoryType, stopVars,
     cleanupVars, sectionVars, historyVars
<1> QED BY <1>1, <1>4, <1>5 DEF BaseType

\* A handoff's endSubmit decrements the count of producers.
LEMMA EndHandoffTyped ==
    ASSUME BaseType, NEW o \in Ops, NEW retry \in PcType, EndHandoff(o, retry)
    PROVE  BaseType'
<1>1. pc' \in [Ops -> PcType] /\ inFlight' \in Int
  BY DEF EndHandoff, LeaveSubmit, Return, BaseType, SubmitType, PcType
<1> QED
  BY <1>1 DEF BaseType, SubmitType, LaneType, WorkerType, StopType, SectionType,
     HistoryType, laneVars, workerVars, cleanupVars, sectionVars, historyVars,
     EndHandoff, HandoffFrame

\* A handoff's endSubmit tests stop and may close the fence.
LEMMA EndHandoffTestTyped ==
    ASSUME BaseType, NEW o \in Ops, NEW retry \in PcType,
           EndHandoffTest(o, retry)
    PROVE  BaseType'
<1>1. pc' \in [Ops -> PcType]
  BY DEF EndHandoffTest, TestStop, Return, BaseType, SubmitType, PcType
<1>2. fence' \in BOOLEAN /\ early' \in BOOLEAN
  BY DEF EndHandoffTest, TestStop, BaseType, StopType, HistoryType
<1> QED
  BY <1>1, <1>2 DEF BaseType, SubmitType, LaneType, WorkerType, StopType, SectionType,
     HistoryType, laneVars, workerVars, cleanupVars, sectionVars,
     EndHandoffTest, TestStop

\* A release without a lane registers, or is postponed past a section.
LEMMA BeginCleanupTyped ==
    ASSUME BaseType, NEW o \in Ops, BeginLifecycleCleanup(o)
    PROVE  BaseType'
<1>1. pc' \in [Ops -> PcType]
  BY DEF BeginLifecycleCleanup, Return, BaseType, SubmitType, PcType
<1>2. Append(deferred, o) \in Seq(Ops)
  BY DEF BaseType, SectionType
<1>3. deferred' \in Seq(Ops) /\ tracked' \in SUBSET Ops
  BY <1>2 DEF BeginLifecycleCleanup, BaseType, SectionType, StopType
<1> QED
  BY <1>1, <1>3 DEF BaseType, SubmitType, LaneType, WorkerType, StopType,
     SectionType, HistoryType, laneVars, workerVars, historyVars,
     BeginLifecycleCleanup, HandoffFrame

\* A release on its caller's goroutine ends.
LEMMA EndCleanupTyped ==
    ASSUME BaseType, NEW o \in Ops, EndLifecycleCleanup(o)
    PROVE  BaseType'
<1>1. outcome' \in [Ops -> Seq(Results)]
  BY OutcomeTyped DEF EndLifecycleCleanup, Resolve, Results, BaseType,
     HistoryType
<1>2. pc' \in [Ops -> PcType] /\ tracked' \in SUBSET Ops
  BY DEF EndLifecycleCleanup, Return, BaseType, SubmitType, StopType, PcType
<1> QED
  BY <1>1, <1>2 DEF BaseType, SubmitType, LaneType, WorkerType, StopType,
     SectionType, HistoryType, laneVars, workerVars, sectionVars, historyVars,
     EndLifecycleCleanup, HandoffFrame

\* A section that only moves.
LEMMA SectionMovesTyped ==
    ASSUME BaseType, NEW s \in Sections, NEW to \in SpcType, SectionMoves(s, to)
    PROVE  BaseType'
BY DEF BaseType, SubmitType, LaneType, WorkerType, StopType, SectionType,
   HistoryType, submitVars, laneVars, workerVars, stopVars, cleanupVars,
   historyVars, SectionMoves, SectionFrame

\* A section becomes the active one and lists the lanes it must park.
LEMMA InstallTyped ==
    ASSUME BaseType, NEW s \in Sections, NEW ls \in SUBSET Lanes,
           InstallExclusive(s, ls)
    PROVE  BaseType'
<1>1. spc' \in [Sections -> SpcType] /\ active' \in Sections /\ todo' \subseteq Lanes
  BY DEF InstallExclusive, BaseType, SectionType, SpcType
<1> QED
  BY <1>1 DEF BaseType, SubmitType, LaneType, WorkerType, StopType, SectionType,
     HistoryType, submitVars, laneVars, workerVars, stopVars, cleanupVars,
     historyVars, InstallExclusive, SectionFrame

\* A section puts its barrier on one lane.
LEMMA PlaceTyped ==
    ASSUME BaseType, NEW s \in Sections, PlaceBarrier(s)
    PROVE  BaseType'
<1> DEFINE Placed == /\ LaneType'
                     /\ todo' \in SUBSET Lanes
                     /\ expected' \in [Sections -> Nat]
                     /\ spc' \in [Sections -> SpcType]
<1>1. Placed
  <2>1. ASSUME NEW l \in Lanes,
               todo' = todo \ {l},
               EnqueueMandatory(l, Entry("barrier", s, l, FALSE)),
               expected' = [expected EXCEPT ![s] = @ + 1],
               UNCHANGED spc
        PROVE  Placed
    <3>1. LaneType'
      BY <2>1, EnqueueTyped, EntryTyped
    <3>2. expected' \in [Sections -> Nat]
      BY <2>1 DEF BaseType, SectionType
    <3> QED BY <2>1, <3>1, <3>2 DEF BaseType, SectionType
  <2>2. ASSUME todo' \subseteq todo, UNCHANGED <<laneVars, expected>>,
               spc' = spc \/ spc' = [spc EXCEPT ![s] = "collect"]
        PROVE  Placed
    BY <2>2 DEF BaseType, LaneType, SectionType, SpcType, laneVars
  <2> QED BY <2>1, <2>2 DEF PlaceBarrier, BaseType, SectionType
<1> QED
  BY <1>1 DEF BaseType, SubmitType, WorkerType, StopType, SectionType,
     HistoryType, submitVars, workerVars, stopVars, cleanupVars, historyVars,
     PlaceBarrier, SectionFrame

\* A section stops being the active one.
LEMMA WithdrawTyped ==
    ASSUME BaseType, NEW s \in Sections, WithdrawExclusive(s)
    PROVE  BaseType'
<1>1. spc' \in [Sections -> SpcType] /\ active' \in Sections \cup {NoSection}
  BY DEF WithdrawExclusive, BaseType, SectionType, SpcType
<1> QED
  BY <1>1 DEF BaseType, SubmitType, LaneType, WorkerType, StopType, SectionType,
     HistoryType, submitVars, laneVars, workerVars, stopVars, cleanupVars,
     historyVars, WithdrawExclusive, SectionFrame

\* A section that runs a postponed release has one.
LEMMA EndDeferredTyped ==
    ASSUME BaseType, NEW s \in Sections, deferred # <<>>, EndDeferred(s)
    PROVE  BaseType'
<1>1. Tail(deferred) \in Seq(Ops)
  BY DEF BaseType, SectionType
<1>2. outcome' \in [Ops -> Seq(Results)]
  BY OutcomeTyped DEF EndDeferred, Resolve, Results, BaseType, HistoryType
<1>3. spc' \in [Sections -> SpcType]
  BY DEF EndDeferred, BaseType, SectionType, SpcType
<1> QED
  BY <1>1, <1>2, <1>3 DEF BaseType, SubmitType, LaneType, WorkerType, StopType,
     SectionType, HistoryType, submitVars, laneVars, workerVars, stopVars,
     cleanupVars, historyVars, EndDeferred, SectionFrame

\* The steps of a section keep the types.
LEMMA SectionTyped ==
    ASSUME BaseType, NEW s \in Sections,
           spc[s] = "releasing" => deferred # <<>>, SectionStep(s)
    PROVE  BaseType'
<1>1. CASE BeginSection(s)
  BY <1>1, SectionMovesTyped DEF BeginSection, SpcType
<1>2. CASE CollectDone(s)
  BY <1>2, SectionMovesTyped DEF CollectDone, SpcType
<1>3. CASE SectionFails(s, "stop") \/ SectionFails(s, "abort")
  BY <1>3, SectionMovesTyped DEF SectionFails, SpcType
<1>4. CASE StartFn(s) \/ EndFn(s) \/ ReleaseLanes(s)
  BY <1>4, SectionMovesTyped DEF StartFn, EndFn, ReleaseLanes, SpcType
<1>5. CASE EndDeferred(s)
  BY <1>5, EndDeferredTyped DEF EndDeferred
<1> QED
  BY <1>1, <1>2, <1>3, <1>4, <1>5, PlaceTyped, WithdrawTyped DEF SectionStep

\* The steps of a stop call keep the types.
LEMMA StopMovesTyped ==
    ASSUME BaseType, NEW x, NEW to \in StpcType, StopMoves(x, to)
    PROVE  BaseType'
BY DEF BaseType, SubmitType, LaneType, WorkerType, StopType, SectionType,
   HistoryType, submitVars, laneVars, workerVars, cleanupVars, sectionVars,
   StopMoves, StopFrame

\* signalHardStopOnce.
LEMMA SignalHardTyped ==
    ASSUME BaseType, SignalHardStop
    PROVE  BaseType'
<1>1. hard' \in BOOLEAN /\ stpc' \in [Stoppers -> StpcType]
  BY DEF SignalHardStop, BaseType, StopType, StpcType
<1> QED
  BY <1>1 DEF BaseType, SubmitType, LaneType, WorkerType, StopType, SectionType,
     HistoryType, submitVars, laneVars, workerVars, cleanupVars, sectionVars,
     SignalHardStop, StopFrame

\* signalStopOnce: it closes the fence itself when no producer is registered.
LEMMA SignalTyped ==
    ASSUME BaseType, NEW x, SignalStop(x)
    PROVE  BaseType'
<1>1. stopped' \in BOOLEAN /\ fence' \in BOOLEAN
  BY DEF SignalStop, BaseType, StopType
<1>2. stpc' \in [Stoppers -> StpcType]
  BY DEF SignalStop, BaseType, StopType, StpcType
<1> QED
  BY <1>1, <1>2 DEF BaseType, SubmitType, LaneType, WorkerType, StopType,
     SectionType, HistoryType, submitVars, laneVars, workerVars, cleanupVars,
     sectionVars, SignalStop, StopFrame

\* closeQueueChannels, whatever lanes are closed.
LEMMA CloseTyped ==
    ASSUME BaseType, NEW x, NEW ls, CloseQueueChannels(x, ls)
    PROVE  BaseType'
<1>1. closed' \in [Lanes -> BOOLEAN]
  BY DEF CloseQueueChannels, BaseType, LaneType
<1>2. stpc' \in [Stoppers -> StpcType]
  BY DEF CloseQueueChannels, BaseType, StopType, StpcType
<1> QED
  BY <1>1, <1>2 DEF BaseType, SubmitType, LaneType, WorkerType, StopType,
     SectionType, HistoryType, submitVars, workerVars, cleanupVars,
     sectionVars, CloseQueueChannels, StopFrame

\* finishLifecycleCleanups seals the set of running releases.
LEMMA SealTyped ==
    ASSUME BaseType, NEW x, FinishLifecycleCleanups(x)
    PROVE  BaseType'
<1>1. sealed' \in BOOLEAN /\ stpc' \in [Stoppers -> StpcType]
  BY DEF FinishLifecycleCleanups, BaseType, StopType, StpcType
<1> QED
  BY <1>1 DEF BaseType, SubmitType, LaneType, WorkerType, StopType, SectionType,
     HistoryType, submitVars, laneVars, workerVars, cleanupVars, sectionVars,
     FinishLifecycleCleanups, StopFrame

\* Every step of a stop call.
LEMMA StopTyped ==
    ASSUME BaseType, NEW x, StopStep(x) \/ StopTimeout(x)
    PROVE  BaseType'
<1>1. CASE WaitInFlightSubmits(x) \/ WaitWorkers(x)
  BY <1>1, StopMovesTyped DEF WaitInFlightSubmits, WaitWorkers, StpcType
<1>2. CASE WaitSections(x) \/ StopTimeout(x)
  BY <1>2, StopMovesTyped DEF WaitSections, StopTimeout, StpcType
<1> QED
  BY <1>1, <1>2, SignalHardTyped, SignalTyped, SealTyped DEF StopStep

-----------------------------------------------------------------------------
(* Where the task or the release of a call is.                              *)

\* The call has not yet given its task or its release away.
CallPc == PcType \ {"end", "endTest", "done", "taken", "takenTest"}

\* The call's task is in the channel of lane l.
InCh(o, l, i) == i \in DOMAIN ch[l] /\ ch[l][i] = o

\* The call's release is in the backlog of lane l.
InBacklog(o, l, i) ==
    i \in DOMAIN backlog[l] /\ backlog[l][i].kind = "release" /\ backlog[l][i].op = o

\* The worker of lane l has the call's task or release in hand.
InHand(o, l) == cur[l].kind \in {"task", "release"} /\ cur[l].op = o

\* The call's release is postponed to the active section.
Postponed(o, i) == i \in DOMAIN deferred /\ deferred[i] = o

PlaceKind == {"call", "ch", "backlog", "hand", "deferred", "resolved"}

\* Call o is at place k, on lane m and at position j where k has those, and at
\* no other place.
Held(o, k, m, j) ==
    /\ pc[o] \in CallPc <=> k = "call"
    /\ \A l \in Lanes : \A i \in Nat :
          InCh(o, l, i) <=> (k = "ch" /\ l = m /\ i = j)
    /\ \A l \in Lanes : \A i \in Nat :
          InBacklog(o, l, i) <=> (k = "backlog" /\ l = m /\ i = j)
    /\ \A l \in Lanes : InHand(o, l) <=> (k = "hand" /\ l = m)
    /\ \A i \in Nat : Postponed(o, i) <=> (k = "deferred" /\ i = j)
    /\ outcome[o] # <<>> <=> k = "resolved"
    /\ Len(outcome[o]) <= 1
    /\ k \in {"ch", "backlog", "hand"} => m \in Lanes

\* Every call is at one place: its own goroutine, a channel, a backlog, a
\* worker, a section, or resolved.
OnePlace ==
    \A o \in Ops :
        \E k \in PlaceKind, m \in Lanes \cup {NoLane}, j \in Nat : Held(o, k, m, j)

-----------------------------------------------------------------------------
(* How the places of a call change with the queues.                         *)

\* A queue that grows by an element.
LEMMA SeqAppend ==
    ASSUME NEW S, NEW q \in Seq(S), NEW x \in S, NEW i \in Nat
    PROVE  /\ i \in DOMAIN Append(q, x) <=> i \in DOMAIN q \/ i = Len(q) + 1
           /\ i \in DOMAIN q => Append(q, x)[i] = q[i]
           /\ Append(q, x)[Len(q) + 1] = x
           /\ Len(q) + 1 \notin DOMAIN q /\ Len(q) + 1 \in Nat
OBVIOUS

\* A queue that loses its head.
LEMMA SeqTail ==
    ASSUME NEW S, NEW q \in Seq(S), q # <<>>, NEW i \in Nat
    PROVE  /\ i \in DOMAIN Tail(q) <=> i # 0 /\ i + 1 \in DOMAIN q
           /\ i \in DOMAIN Tail(q) => Tail(q)[i] = q[i + 1]
           /\ 0 \notin DOMAIN q /\ 1 \in DOMAIN q /\ Head(q) = q[1]
OBVIOUS

\* The same, element by element.
LEMMA SeqElements ==
    ASSUME NEW S, NEW q \in Seq(S)
    PROVE  /\ \A x \in S : \A i \in DOMAIN Append(q, x) :
                 \/ i \in DOMAIN q /\ Append(q, x)[i] = q[i]
                 \/ i = Len(q) + 1 /\ Append(q, x)[i] = x
           /\ q # <<>> => \A i \in DOMAIN Tail(q) :
                            i + 1 \in DOMAIN q /\ Tail(q)[i] = q[i + 1]
           /\ q # <<>> => 1 \in DOMAIN q /\ Head(q) = q[1] /\ q[1] \in S
OBVIOUS

\* The first outcome of a call.
LEMMA FirstOutcome ==
    ASSUME NEW x
    PROVE  Append(<<>>, x) # <<>> /\ Len(Append(<<>>, x)) <= 1
OBVIOUS

\* A task is sent.
LEMMA ChAppend ==
    ASSUME BaseType, NEW l \in Lanes, NEW o \in Ops,
           ch' = [ch EXCEPT ![l] = Append(@, o)], NEW p \in Ops, NEW m \in Lanes,
           NEW i \in Nat
    PROVE  InCh(p, m, i)' <=>
              \/ InCh(p, m, i)
              \/ m = l /\ i = Len(ch[l]) + 1 /\ p = o
<1>1. ch[l] \in Seq(Ops)
  BY DEF BaseType, LaneType
<1>2. CASE m # l
  <2>1. ch'[m] = ch[m]
    BY <1>2 DEF BaseType, LaneType
  <2> QED BY <1>2, <2>1 DEF InCh
<1>3. CASE m = l
  <2> DEFINE q == Append(ch[l], o)
  <2>1. ch'[m] = q
    BY <1>3 DEF BaseType, LaneType
  <2>2. /\ i \in DOMAIN q <=> i \in DOMAIN ch[l] \/ i = Len(ch[l]) + 1
        /\ i \in DOMAIN ch[l] => q[i] = ch[l][i]
        /\ q[Len(ch[l]) + 1] = o
        /\ Len(ch[l]) + 1 \notin DOMAIN ch[l]
    BY <1>1, SeqAppend
  <2> HIDE DEF q
  <2> QED BY <1>3, <2>1, <2>2 DEF InCh
<1> QED BY <1>2, <1>3

\* A task is received.
LEMMA ChTail ==
    ASSUME BaseType, NEW l \in Lanes, ch[l] # <<>>,
           ch' = [ch EXCEPT ![l] = Tail(@)], NEW p \in Ops, NEW m \in Lanes,
           NEW i \in Nat
    PROVE  InCh(p, m, i)' <=>
              IF m = l THEN i # 0 /\ InCh(p, l, i + 1) ELSE InCh(p, m, i)
<1>1. ch[l] \in Seq(Ops)
  BY DEF BaseType, LaneType
<1>2. CASE m # l
  <2>1. ch'[m] = ch[m]
    BY <1>2 DEF BaseType, LaneType
  <2> QED BY <1>2, <2>1 DEF InCh
<1>3. CASE m = l
  <2> DEFINE q == Tail(ch[l])
  <2>1. ch'[m] = q
    BY <1>3 DEF BaseType, LaneType
  <2>2. /\ i \in DOMAIN q <=> i # 0 /\ i + 1 \in DOMAIN ch[l]
        /\ i \in DOMAIN q => q[i] = ch[l][i + 1]
    BY <1>1, SeqTail
  <2> HIDE DEF q
  <2> QED BY <1>3, <2>1, <2>2 DEF InCh
<1> QED BY <1>2, <1>3

\* An entry is queued.
LEMMA BacklogAppend ==
    ASSUME BaseType, NEW l \in Lanes, NEW e \in EntryType,
           backlog' = [backlog EXCEPT ![l] = Append(@, e)], NEW p \in Ops,
           NEW m \in Lanes, NEW i \in Nat
    PROVE  InBacklog(p, m, i)' <=>
              \/ InBacklog(p, m, i)
              \/ /\ m = l /\ i = Len(backlog[l]) + 1
                 /\ e.kind = "release" /\ e.op = p
<1>1. backlog[l] \in Seq(EntryType)
  BY DEF BaseType, LaneType
<1>2. CASE m # l
  <2>1. backlog'[m] = backlog[m]
    BY <1>2 DEF BaseType, LaneType
  <2> QED BY <1>2, <2>1 DEF InBacklog
<1>3. CASE m = l
  <2> DEFINE q == Append(backlog[l], e)
  <2>1. backlog'[m] = q
    BY <1>3 DEF BaseType, LaneType
  <2>2. /\ i \in DOMAIN q <=> i \in DOMAIN backlog[l] \/ i = Len(backlog[l]) + 1
        /\ i \in DOMAIN backlog[l] => q[i] = backlog[l][i]
        /\ q[Len(backlog[l]) + 1] = e
        /\ Len(backlog[l]) + 1 \notin DOMAIN backlog[l]
    BY <1>1, SeqAppend
  <2> HIDE DEF q
  <2> QED BY <1>3, <2>1, <2>2 DEF InBacklog
<1> QED BY <1>2, <1>3

\* The head entry is taken.
LEMMA BacklogTail ==
    ASSUME BaseType, NEW l \in Lanes, backlog[l] # <<>>,
           backlog' = [backlog EXCEPT ![l] = Tail(@)], NEW p \in Ops,
           NEW m \in Lanes, NEW i \in Nat
    PROVE  InBacklog(p, m, i)' <=>
              IF m = l THEN i # 0 /\ InBacklog(p, l, i + 1) ELSE InBacklog(p, m, i)
<1>1. backlog[l] \in Seq(EntryType)
  BY DEF BaseType, LaneType
<1>2. CASE m # l
  <2>1. backlog'[m] = backlog[m]
    BY <1>2 DEF BaseType, LaneType
  <2> QED BY <1>2, <2>1 DEF InBacklog
<1>3. CASE m = l
  <2> DEFINE q == Tail(backlog[l])
  <2>1. backlog'[m] = q
    BY <1>3 DEF BaseType, LaneType
  <2>2. /\ i \in DOMAIN q <=> i # 0 /\ i + 1 \in DOMAIN backlog[l]
        /\ i \in DOMAIN q => q[i] = backlog[l][i + 1]
    BY <1>1, SeqTail
  <2> HIDE DEF q
  <2> QED BY <1>3, <2>1, <2>2 DEF InBacklog
<1> QED BY <1>2, <1>3

\* Raised targets change no place (unmarkSent).
LEMMA RaiseKeeps ==
    ASSUME NEW es \in Seq(EntryType), NEW t
    PROVE  /\ DOMAIN RaiseTargets(es, t) = DOMAIN es
           /\ \A i \in DOMAIN es :
                 /\ RaiseTargets(es, t)[i].kind = es[i].kind
                 /\ RaiseTargets(es, t)[i].op = es[i].op
                 /\ RaiseTargets(es, t)[i].wsf = es[i].wsf
                 /\ RaiseTargets(es, t)[i].late = es[i].late
                 /\ RaiseTargets(es, t)[i].target >= es[i].target
<1>1. ASSUME NEW e \in EntryType
      PROVE  LET f == [e EXCEPT !.target = @ + 1]
             IN  /\ f.kind = e.kind /\ f.op = e.op /\ f.wsf = e.wsf
                 /\ f.late = e.late /\ f.target >= e.target
                 /\ e.target >= e.target
  BY DEF EntryType
<1>2. \A i \in DOMAIN es : es[i] \in EntryType
  OBVIOUS
<1>3. DOMAIN RaiseTargets(es, t) = DOMAIN es
  BY DEF RaiseTargets
<1>4. ASSUME NEW i \in DOMAIN es
      PROVE  RaiseTargets(es, t)[i] \in {es[i], [es[i] EXCEPT !.target = @ + 1]}
  BY DEF RaiseTargets
<1> QED BY <1>1, <1>2, <1>3, <1>4

\* The refreshed head is the head as far as places go.
LEMMA HeadKeeps ==
    ASSUME BaseType, NEW l \in Lanes, backlog[l] # <<>>
    PROVE  /\ 1 \in DOMAIN backlog[l]
           /\ Head(backlog[l]) = backlog[l][1]
           /\ backlog[l][1] \in EntryType
           /\ Head1(l).kind = backlog[l][1].kind
           /\ Head1(l).op = backlog[l][1].op
           /\ Head1(l).late = backlog[l][1].late
           /\ ~Head1(l).wsf
           /\ Head1(l).target = IF backlog[l][1].wsf THEN admitted[l]
                                ELSE backlog[l][1].target
<1>1. backlog[l] \in Seq(EntryType)
  BY DEF BaseType, LaneType
<1>2. 1 \in DOMAIN backlog[l] /\ Head(backlog[l]) = backlog[l][1]
      /\ backlog[l][1] \in EntryType
  BY <1>1
<1>3. ASSUME NEW e \in EntryType, NEW a, NEW b
      PROVE  LET f == [e EXCEPT !.wsf = FALSE, !.cutoff = a, !.target = a, !.before = b]
             IN  /\ f.kind = e.kind /\ f.op = e.op /\ f.late = e.late
                 /\ ~f.wsf /\ f.target = a
  BY DEF EntryType
<1> QED BY <1>2, <1>3 DEF Head1

\* A release is postponed to the section.
LEMMA DeferredAppend ==
    ASSUME BaseType, NEW o \in Ops, deferred' = Append(deferred, o), NEW p \in Ops,
           NEW i \in Nat
    PROVE  Postponed(p, i)' <=>
              Postponed(p, i) \/ (i = Len(deferred) + 1 /\ p = o)
<1> DEFINE q == Append(deferred, o)
<1>1. deferred \in Seq(Ops)
  BY DEF BaseType, SectionType
<1>2. /\ i \in DOMAIN q <=> i \in DOMAIN deferred \/ i = Len(deferred) + 1
      /\ i \in DOMAIN deferred => q[i] = deferred[i]
      /\ q[Len(deferred) + 1] = o
      /\ Len(deferred) + 1 \notin DOMAIN deferred
  BY <1>1, SeqAppend
<1>3. deferred' = q
  OBVIOUS
<1> HIDE DEF q
<1> QED BY <1>2, <1>3 DEF Postponed

\* The section has run the first postponed release.
LEMMA DeferredTail ==
    ASSUME BaseType, deferred # <<>>, deferred' = Tail(deferred), NEW p \in Ops,
           NEW i \in Nat
    PROVE  Postponed(p, i)' <=> i # 0 /\ Postponed(p, i + 1)
<1> DEFINE q == Tail(deferred)
<1>1. deferred \in Seq(Ops)
  BY DEF BaseType, SectionType
<1>2. /\ i \in DOMAIN q <=> i # 0 /\ i + 1 \in DOMAIN deferred
      /\ i \in DOMAIN q => q[i] = deferred[i + 1]
  BY <1>1, SeqTail
<1>3. deferred' = q
  OBVIOUS
<1> HIDE DEF q
<1> QED BY <1>2, <1>3 DEF Postponed

-----------------------------------------------------------------------------
(* Steps.                                                                   *)

\* A step that gives nothing away.
LEMMA PlaceKept ==
    ASSUME OnePlace, UNCHANGED <<ch, deferred, outcome>>,
           \A o \in Ops : pc'[o] \in CallPc <=> pc[o] \in CallPc,
           \A o \in Ops : \A l \in Lanes : \A i \in Nat :
               InBacklog(o, l, i)' <=> InBacklog(o, l, i),
           \A o \in Ops : \A l \in Lanes : InHand(o, l)' <=> InHand(o, l)
    PROVE  OnePlace'
<1>1. \A o \in Ops : \A l \in Lanes : \A i \in Nat : InCh(o, l, i)' <=> InCh(o, l, i)
  BY DEF InCh
<1>2. \A o \in Ops : \A i \in Nat : Postponed(o, i)' <=> Postponed(o, i)
  BY DEF Postponed
<1>3. ASSUME NEW o \in Ops, NEW k \in PlaceKind, NEW m \in Lanes \cup {NoLane},
             NEW j \in Nat, Held(o, k, m, j)
      PROVE  Held(o, k, m, j)'
  BY <1>1, <1>2, <1>3 DEF Held
<1> QED BY <1>3 DEF OnePlace

\* The same when only calls move.
LEMMA PlaceMoves ==
    ASSUME OnePlace, UNCHANGED <<ch, backlog, cur, deferred, outcome>>,
           \A o \in Ops : pc'[o] \in CallPc <=> pc[o] \in CallPc
    PROVE  OnePlace'
BY PlaceKept DEF InBacklog, InHand

\* A call that still has its task or release and resolves its future itself.
LEMMA PlaceResolve ==
    ASSUME BaseType, OnePlace, NEW o \in Ops, NEW x, NEW how, pc[o] \in CallPc,
           x \notin CallPc, pc' = [pc EXCEPT ![o] = x],
           outcome' = [outcome EXCEPT ![o] = Append(@, how)],
           UNCHANGED <<ch, cur, deferred>>,
           \A p \in Ops : \A l \in Lanes : \A i \in Nat :
               InBacklog(p, l, i)' <=> InBacklog(p, l, i)
    PROVE  OnePlace'
<1>1. \A p \in Ops : /\ \A l \in Lanes : \A i \in Nat : InCh(p, l, i)' <=> InCh(p, l, i)
                     /\ \A l \in Lanes : InHand(p, l)' <=> InHand(p, l)
                     /\ \A i \in Nat : Postponed(p, i)' <=> Postponed(p, i)
  BY DEF InCh, InHand, Postponed
<1>2. /\ pc'[o] = x /\ \A p \in Ops \ {o} : pc'[p] = pc[p] /\ outcome'[p] = outcome[p]
      /\ outcome'[o] = Append(outcome[o], how)
  BY DEF BaseType, SubmitType, HistoryType
<1>3. ASSUME NEW p \in Ops, NEW k \in PlaceKind, NEW m \in Lanes \cup {NoLane},
             NEW j \in Nat, Held(p, k, m, j)
      PROVE  \E k2 \in PlaceKind : Held(p, k2, m, j)'
  <2>1. CASE p # o
    <3>1. pc'[p] = pc[p] /\ outcome'[p] = outcome[p]
      BY <1>2, <2>1
    <3>2. Held(p, k, m, j)'
      BY <1>1, <1>3, <3>1 DEF Held
    <3> QED BY <3>2
  <2>2. CASE p = o
    <3>1. k = "call" /\ outcome[o] = <<>>
      BY <1>3, <2>2 DEF Held
    <3>2. outcome'[o] # <<>> /\ Len(outcome'[o]) <= 1
      BY <1>2, <3>1
    <3>3. Held(p, "resolved", m, j)'
      BY <1>1, <1>2, <1>3, <2>2, <3>1, <3>2 DEF Held
    <3> QED BY <3>3 DEF PlaceKind
  <2> QED BY <2>1, <2>2
<1> QED BY <1>3 DEF OnePlace

\* A submit attempt that fails.
LEMMA PlaceFail ==
    ASSUME BaseType, OnePlace, NEW o \in Ops, Fail(o), pc[o] \in CallPc,
           UNCHANGED <<ch, cur, deferred>>,
           \A p \in Ops : \A l \in Lanes : \A i \in Nat :
               InBacklog(p, l, i)' <=> InBacklog(p, l, i)
    PROVE  OnePlace'
<1>1. CASE o \in Closing
  <2>1. outcome' = outcome /\ pc' = [pc EXCEPT ![o] = "handoff"]
    BY <1>1 DEF Fail
  <2>2. \A p \in Ops : pc'[p] \in CallPc <=> pc[p] \in CallPc
    BY <2>1 DEF BaseType, SubmitType, CallPc, PcType
  <2>3. \A p \in Ops : \A l \in Lanes : InHand(p, l)' <=> InHand(p, l)
    BY DEF InHand
  <2> QED BY <2>1, <2>2, <2>3, PlaceKept
<1>2. CASE o \notin Closing
  <2>1. PICK x \in {"end", "done"} : pc' = [pc EXCEPT ![o] = x]
    BY <1>2 DEF Fail, Return
  <2>2. outcome' = [outcome EXCEPT ![o] = Append(@, "failed")]
    BY <1>2 DEF Fail
  <2>3. x \notin CallPc
    BY DEF CallPc
  <2> QED BY <2>1, <2>2, <2>3, PlaceResolve
<1> QED BY <1>1, <1>2

\* A task is sent.
LEMMA PlaceSend ==
    ASSUME BaseType, OnePlace, NEW o \in Ops, NEW l \in Lanes, pc[o] \in CallPc,
           pc' = [pc EXCEPT ![o] = "end"], ch' = [ch EXCEPT ![l] = Append(@, o)],
           UNCHANGED <<backlog, cur, deferred, outcome>>
    PROVE  OnePlace'
<1>3. PICK n \in Nat : n = Len(ch[l]) + 1
  BY DEF BaseType, LaneType
<1>1. \A p \in Ops :
         /\ \A m \in Lanes : \A i \in Nat :
               InCh(p, m, i)' <=> InCh(p, m, i) \/ (m = l /\ i = n /\ p = o)
         /\ \A m \in Lanes : \A i \in Nat : InBacklog(p, m, i)' <=> InBacklog(p, m, i)
         /\ \A m \in Lanes : InHand(p, m)' <=> InHand(p, m)
         /\ \A i \in Nat : Postponed(p, i)' <=> Postponed(p, i)
         /\ outcome'[p] = outcome[p]
  BY <1>3, ChAppend DEF InBacklog, InHand, Postponed
<1>2. pc'[o] \notin CallPc /\ \A p \in Ops \ {o} : pc'[p] = pc[p]
  BY DEF BaseType, SubmitType, CallPc
<1>4. ASSUME NEW p \in Ops, NEW k \in PlaceKind, NEW m \in Lanes \cup {NoLane},
             NEW j \in Nat, Held(p, k, m, j)
      PROVE  \E k2 \in PlaceKind, m2 \in Lanes \cup {NoLane}, j2 \in Nat :
                Held(p, k2, m2, j2)'
  <2>1. CASE p # o
    <3>1. Held(p, k, m, j)'
      BY <1>1, <1>2, <1>4, <2>1 DEF Held
    <3> QED BY <3>1
  <2>2. CASE p = o
    <3>1. k = "call"
      BY <1>4, <2>2 DEF Held
    <3>2. Held(p, "ch", l, n)'
      BY <1>1, <1>2, <1>3, <1>4, <2>2, <3>1 DEF Held
    <3> QED BY <3>2 DEF PlaceKind
  <2> QED BY <2>1, <2>2
<1> QED BY <1>4 DEF OnePlace

\* A release is queued.
LEMMA PlaceEnqueue ==
    ASSUME BaseType, OnePlace, NEW o \in Ops, NEW l \in Lanes, NEW e \in EntryType,
           NEW x, pc[o] \in CallPc, x \notin CallPc, pc' = [pc EXCEPT ![o] = x],
           e.kind = "release", e.op = o,
           backlog' = [backlog EXCEPT ![l] = Append(@, e)],
           UNCHANGED <<ch, cur, deferred, outcome>>
    PROVE  OnePlace'
<1>3. PICK n \in Nat : n = Len(backlog[l]) + 1
  BY DEF BaseType, LaneType
<1>1. \A p \in Ops :
         /\ \A m \in Lanes : \A i \in Nat : InCh(p, m, i)' <=> InCh(p, m, i)
         /\ \A m \in Lanes : \A i \in Nat :
               InBacklog(p, m, i)' <=> InBacklog(p, m, i) \/ (m = l /\ i = n /\ p = o)
         /\ \A m \in Lanes : InHand(p, m)' <=> InHand(p, m)
         /\ \A i \in Nat : Postponed(p, i)' <=> Postponed(p, i)
         /\ outcome'[p] = outcome[p]
  BY <1>3, BacklogAppend DEF InCh, InHand, Postponed
<1>2. pc'[o] \notin CallPc /\ \A p \in Ops \ {o} : pc'[p] = pc[p]
  BY DEF BaseType, SubmitType
<1>4. ASSUME NEW p \in Ops, NEW k \in PlaceKind, NEW m \in Lanes \cup {NoLane},
             NEW j \in Nat, Held(p, k, m, j)
      PROVE  \E k2 \in PlaceKind, m2 \in Lanes \cup {NoLane}, j2 \in Nat :
                Held(p, k2, m2, j2)'
  <2>1. CASE p # o
    <3>1. Held(p, k, m, j)'
      BY <1>1, <1>2, <1>4, <2>1 DEF Held
    <3> QED BY <3>1
  <2>2. CASE p = o
    <3>1. k = "call"
      BY <1>4, <2>2 DEF Held
    <3>2. Held(p, "backlog", l, n)'
      BY <1>1, <1>2, <1>3, <1>4, <2>2, <3>1 DEF Held
    <3> QED BY <3>2 DEF PlaceKind
  <2> QED BY <2>1, <2>2
<1> QED BY <1>4 DEF OnePlace

\* A barrier is queued.
LEMMA PlaceBarrierEntry ==
    ASSUME BaseType, OnePlace, NEW l \in Lanes, NEW e \in EntryType,
           e.kind = "barrier", backlog' = [backlog EXCEPT ![l] = Append(@, e)],
           UNCHANGED <<pc, ch, cur, deferred, outcome>>
    PROVE  OnePlace'
<1>1. \A p \in Ops : \A m \in Lanes : \A i \in Nat :
         InBacklog(p, m, i)' <=> InBacklog(p, m, i)
  BY BacklogAppend
<1>2. \A p \in Ops : \A m \in Lanes : InHand(p, m)' <=> InHand(p, m)
  BY DEF InHand
<1> QED BY <1>1, <1>2, PlaceKept

\* A release is postponed.
LEMMA PlacePostpone ==
    ASSUME BaseType, OnePlace, NEW o \in Ops, NEW x, pc[o] \in CallPc,
           x \notin CallPc, pc' = [pc EXCEPT ![o] = x],
           deferred' = Append(deferred, o),
           UNCHANGED <<ch, backlog, cur, outcome>>
    PROVE  OnePlace'
<1>1. PICK n \in Nat : n = Len(deferred) + 1
  BY DEF BaseType, SectionType
<1>2. \A p \in Ops :
         /\ \A m \in Lanes : \A i \in Nat : InCh(p, m, i)' <=> InCh(p, m, i)
         /\ \A m \in Lanes : \A i \in Nat : InBacklog(p, m, i)' <=> InBacklog(p, m, i)
         /\ \A m \in Lanes : InHand(p, m)' <=> InHand(p, m)
         /\ \A i \in Nat : Postponed(p, i)' <=> Postponed(p, i) \/ (i = n /\ p = o)
         /\ outcome'[p] = outcome[p]
  BY <1>1, DeferredAppend DEF InCh, InBacklog, InHand
<1>3. pc'[o] \notin CallPc /\ \A p \in Ops \ {o} : pc'[p] = pc[p]
  BY DEF BaseType, SubmitType
<1>4. ASSUME NEW p \in Ops, NEW k \in PlaceKind, NEW m \in Lanes \cup {NoLane},
             NEW j \in Nat, Held(p, k, m, j)
      PROVE  \E k2 \in PlaceKind, m2 \in Lanes \cup {NoLane}, j2 \in Nat :
                Held(p, k2, m2, j2)'
  <2>1. CASE p # o
    <3>1. Held(p, k, m, j)'
      BY <1>2, <1>3, <1>4, <2>1 DEF Held
    <3> QED BY <3>1
  <2>2. CASE p = o
    <3>1. k = "call"
      BY <1>4, <2>2 DEF Held
    <3>2. Held(p, "deferred", m, n)'
      BY <1>2, <1>3, <1>4, <2>2, <3>1 DEF Held
    <3> QED BY <3>2 DEF PlaceKind
  <2> QED BY <2>1, <2>2
<1> QED BY <1>4 DEF OnePlace

\* A postponed release has run.
LEMMA PlaceEndDeferred ==
    ASSUME BaseType, OnePlace, NEW how, deferred # <<>>,
           outcome' = [outcome EXCEPT ![Head(deferred)] = Append(@, how)],
           deferred' = Tail(deferred), UNCHANGED <<pc, ch, backlog, cur>>
    PROVE  OnePlace'
<1>1. PICK o \in Ops : o = Head(deferred) /\ Postponed(o, 1)
  <2>1. deferred \in Seq(Ops)
    BY DEF BaseType, SectionType
  <2>2. 1 \in DOMAIN deferred /\ Head(deferred) = deferred[1] /\ deferred[1] \in Ops
    BY <2>1
  <2> QED BY <2>2 DEF Postponed
<1>2. \A p \in Ops :
         /\ \A m \in Lanes : \A i \in Nat : InCh(p, m, i)' <=> InCh(p, m, i)
         /\ \A m \in Lanes : \A i \in Nat : InBacklog(p, m, i)' <=> InBacklog(p, m, i)
         /\ \A m \in Lanes : InHand(p, m)' <=> InHand(p, m)
         /\ \A i \in Nat : Postponed(p, i)' <=> i # 0 /\ Postponed(p, i + 1)
         /\ pc'[p] = pc[p]
  BY DeferredTail DEF InCh, InBacklog, InHand
<1>3. /\ outcome'[o] = Append(outcome[o], how)
      /\ \A p \in Ops \ {o} : outcome'[p] = outcome[p]
  BY <1>1 DEF BaseType, HistoryType
<1>4. ASSUME NEW p \in Ops, NEW k \in PlaceKind, NEW m \in Lanes \cup {NoLane},
             NEW j \in Nat, Held(p, k, m, j)
      PROVE  \E k2 \in PlaceKind, m2 \in Lanes \cup {NoLane}, j2 \in Nat :
                Held(p, k2, m2, j2)'
  <2>1. CASE p # o /\ k # "deferred"
    <3>1. Held(p, k, m, j)'
      BY <1>2, <1>3, <1>4, <2>1 DEF Held
    <3> QED BY <3>1
  <2>2. CASE p # o /\ k = "deferred"
    <3>1. j \in DOMAIN deferred /\ deferred[j] = p
      BY <1>4, <2>2 DEF Held, Postponed
    <3>2. j # 1 /\ j # 0
      BY <1>1, <2>2, <3>1 DEF Postponed, BaseType, SectionType
    <3>3. PICK h \in Nat : h + 1 = j /\ h # 0
      <4>1. j - 1 \in Nat /\ (j - 1) + 1 = j /\ j - 1 # 0
        BY <3>2
      <4> QED BY <4>1
    <3>4. \A i \in Nat : Postponed(p, i)' <=> i = h
      <4>1. \A i \in Nat : i + 1 = j <=> i = h
        BY <3>3
      <4> QED BY <1>2, <1>4, <2>2, <3>3, <4>1 DEF Held
    <3>5. Held(p, k, m, h)'
      BY <1>2, <1>3, <1>4, <2>2, <3>4 DEF Held
    <3> QED BY <3>5
  <2>3. CASE p = o
    <3>1. k = "deferred" /\ j = 1 /\ outcome[o] = <<>>
      BY <1>1, <1>4, <2>3 DEF Held
    <3>2. outcome'[o] # <<>> /\ Len(outcome'[o]) <= 1
      BY <1>3, <3>1
    <3>3. \A i \in Nat : ~Postponed(p, i)'
      <4>1. \A i \in Nat : i # 0 => i + 1 # 1
        OBVIOUS
      <4> QED BY <1>2, <1>4, <3>1, <4>1 DEF Held
    <3>4. Held(p, "resolved", m, j)'
      BY <1>2, <1>4, <2>3, <3>1, <3>2, <3>3 DEF Held
    <3> QED BY <3>4 DEF PlaceKind
  <2> QED BY <2>1, <2>2, <2>3
<1> QED BY <1>4 DEF OnePlace

\* A worker receives a task.
LEMMA PlaceReceive ==
    ASSUME BaseType, OnePlace, NEW l \in Lanes, cur[l].kind = "none", ch[l] # <<>>,
           ch' = [ch EXCEPT ![l] = Tail(@)],
           cur' = [cur EXCEPT ![l] = TaskEntry(Head(ch[l]))],
           UNCHANGED <<pc, backlog, deferred, outcome>>
    PROVE  OnePlace'
<1>1. PICK o \in Ops : o = Head(ch[l]) /\ InCh(o, l, 1)
  <2>1. ch[l] \in Seq(Ops)
    BY DEF BaseType, LaneType
  <2>2. 1 \in DOMAIN ch[l] /\ Head(ch[l]) = ch[l][1] /\ ch[l][1] \in Ops
    BY <2>1
  <2> QED BY <2>2 DEF InCh
<1>2. /\ cur'[l].kind = "task" /\ cur'[l].op = o
      /\ \A m \in Lanes \ {l} : cur'[m] = cur[m]
  BY <1>1 DEF BaseType, WorkerType, TaskEntry
<1>3. \A p \in Ops :
         /\ \A m \in Lanes : \A i \in Nat : InCh(p, m, i)' <=>
               IF m = l THEN i # 0 /\ InCh(p, l, i + 1) ELSE InCh(p, m, i)
         /\ \A m \in Lanes : \A i \in Nat : InBacklog(p, m, i)' <=> InBacklog(p, m, i)
         /\ \A m \in Lanes : InHand(p, m)' <=> InHand(p, m) \/ (p = o /\ m = l)
         /\ \A i \in Nat : Postponed(p, i)' <=> Postponed(p, i)
         /\ pc'[p] = pc[p] /\ outcome'[p] = outcome[p]
  <2>1. \A p \in Ops : \A m \in Lanes : \A i \in Nat : InCh(p, m, i)' <=>
               IF m = l THEN i # 0 /\ InCh(p, l, i + 1) ELSE InCh(p, m, i)
    BY ChTail
  <2>2. \A p \in Ops : \A m \in Lanes :
           InHand(p, m)' <=> InHand(p, m) \/ (p = o /\ m = l)
    BY <1>2 DEF InHand
  <2> QED BY <2>1, <2>2 DEF InBacklog, Postponed
<1>4. ASSUME NEW p \in Ops, NEW k \in PlaceKind, NEW m \in Lanes \cup {NoLane},
             NEW j \in Nat, Held(p, k, m, j)
      PROVE  \E k2 \in PlaceKind, m2 \in Lanes \cup {NoLane}, j2 \in Nat :
                Held(p, k2, m2, j2)'
  <2>1. CASE p # o /\ ~(k = "ch" /\ m = l)
    <3>1. \A i \in Nat : ~InCh(p, l, i)
      BY <1>4, <2>1 DEF Held
    <3>2. \A i \in Nat : ~InCh(p, l, i)'
      BY <1>3, <3>1
    <3>3. \A n \in Lanes : \A i \in Nat : InCh(p, n, i)' <=> InCh(p, n, i)
      BY <1>3, <3>1, <3>2
    <3>4. Held(p, k, m, j)'
      BY <1>3, <1>4, <2>1, <3>3 DEF Held
    <3> QED BY <3>4
  <2>2. CASE p # o /\ k = "ch" /\ m = l
    <3>1. j \in DOMAIN ch[l] /\ ch[l][j] = p
      BY <1>4, <2>2 DEF Held, InCh
    <3>2. j # 1 /\ j # 0
      BY <1>1, <2>2, <3>1 DEF InCh, BaseType, LaneType
    <3>3. PICK h \in Nat : h + 1 = j /\ h # 0
      <4>1. j - 1 \in Nat /\ (j - 1) + 1 = j /\ j - 1 # 0
        BY <3>2
      <4> QED BY <4>1
    <3>4. \A n \in Lanes : \A i \in Nat : InCh(p, n, i)' <=> (n = l /\ i = h)
      <4>1. \A i \in Nat : i + 1 \in Nat /\ (i + 1 = j <=> i = h)
        BY <3>3
      <4> QED BY <1>3, <1>4, <2>2, <3>3, <4>1 DEF Held
    <3>5. Held(p, k, m, h)'
      BY <1>3, <1>4, <2>2, <3>4 DEF Held
    <3> QED BY <3>5
  <2>3. CASE p = o
    <3>1. k = "ch" /\ m = l /\ j = 1
      BY <1>1, <1>4, <2>3 DEF Held
    <3>2. \A n \in Lanes : \A i \in Nat : ~InCh(p, n, i)'
      <4>1. \A i \in Nat : i + 1 \in Nat /\ (i # 0 => i + 1 # 1)
        OBVIOUS
      <4> QED BY <1>3, <1>4, <3>1, <4>1 DEF Held
    <3>3. Held(p, "hand", l, j)'
      BY <1>3, <1>4, <2>3, <3>1, <3>2 DEF Held
    <3> QED BY <3>3 DEF PlaceKind
  <2> QED BY <2>1, <2>2, <2>3
<1> QED BY <1>4 DEF OnePlace

\* A worker takes an entry of the backlog.
LEMMA PlaceTake ==
    ASSUME BaseType, OnePlace, NEW l \in Lanes, cur[l].kind = "none",
           backlog[l] # <<>>, backlog' = [backlog EXCEPT ![l] = Tail(@)],
           cur' = [cur EXCEPT ![l] = Head1(l)],
           backlog[l][1].kind \in {"release", "barrier"},
           UNCHANGED <<pc, ch, deferred, outcome>>
    PROVE  OnePlace'
<1> DEFINE e == backlog[l][1]
<1>1. /\ cur'[l].kind = e.kind /\ cur'[l].op = e.op
      /\ \A m \in Lanes \ {l} : cur'[m] = cur[m]
      /\ 1 \in DOMAIN backlog[l]
  BY HeadKeeps DEF BaseType, WorkerType
<1>2. \A p \in Ops :
         /\ \A m \in Lanes : \A i \in Nat : InBacklog(p, m, i)' <=>
               IF m = l THEN i # 0 /\ InBacklog(p, l, i + 1) ELSE InBacklog(p, m, i)
         /\ \A m \in Lanes : \A i \in Nat : InCh(p, m, i)' <=> InCh(p, m, i)
         /\ \A m \in Lanes : InHand(p, m)' <=>
               InHand(p, m) \/ (m = l /\ InBacklog(p, l, 1))
         /\ \A i \in Nat : Postponed(p, i)' <=> Postponed(p, i)
         /\ pc'[p] = pc[p] /\ outcome'[p] = outcome[p]
  <2>1. \A p \in Ops : \A m \in Lanes : \A i \in Nat : InBacklog(p, m, i)' <=>
               IF m = l THEN i # 0 /\ InBacklog(p, l, i + 1) ELSE InBacklog(p, m, i)
    BY BacklogTail
  <2>2. \A p \in Ops : \A m \in Lanes :
           InHand(p, m)' <=> InHand(p, m) \/ (m = l /\ InBacklog(p, l, 1))
    BY <1>1 DEF InHand, InBacklog
  <2> QED BY <2>1, <2>2 DEF InCh, Postponed
<1>3. ASSUME NEW p \in Ops, NEW k \in PlaceKind, NEW m \in Lanes \cup {NoLane},
             NEW j \in Nat, Held(p, k, m, j)
      PROVE  \E k2 \in PlaceKind, m2 \in Lanes \cup {NoLane}, j2 \in Nat :
                Held(p, k2, m2, j2)'
  <2>1. CASE ~(k = "backlog" /\ m = l)
    <3>1. \A i \in Nat : ~InBacklog(p, l, i)
      BY <1>3, <2>1 DEF Held
    <3>2. \A i \in Nat : ~InBacklog(p, l, i)'
      BY <1>2, <3>1
    <3>3. \A n \in Lanes : \A i \in Nat : InBacklog(p, n, i)' <=> InBacklog(p, n, i)
      BY <1>2, <3>1, <3>2
    <3>4. \A n \in Lanes : InHand(p, n)' <=> InHand(p, n)
      BY <1>2, <3>1
    <3>5. Held(p, k, m, j)'
      BY <1>2, <1>3, <2>1, <3>3, <3>4 DEF Held
    <3> QED BY <3>5
  <2>2. CASE k = "backlog" /\ m = l /\ j # 1
    <3>1. j \in DOMAIN backlog[l]
      BY <1>3, <2>2 DEF Held, InBacklog
    <3>2. j # 0
      BY <3>1 DEF BaseType, LaneType
    <3>3. PICK h \in Nat : h + 1 = j /\ h # 0
      <4>1. j - 1 \in Nat /\ (j - 1) + 1 = j /\ j - 1 # 0
        BY <2>2, <3>2
      <4> QED BY <4>1
    <3>4. \A n \in Lanes : \A i \in Nat : InBacklog(p, n, i)' <=> (n = l /\ i = h)
      <4>1. \A i \in Nat : i + 1 \in Nat /\ (i + 1 = j <=> i = h)
        BY <3>3
      <4> QED BY <1>2, <1>3, <2>2, <3>3, <4>1 DEF Held
    <3>5. ~InBacklog(p, l, 1)
      BY <1>3, <2>2 DEF Held
    <3>6. Held(p, k, m, h)'
      BY <1>2, <1>3, <2>2, <3>4, <3>5 DEF Held
    <3> QED BY <3>6
  <2>3. CASE k = "backlog" /\ m = l /\ j = 1
    <3>1. InBacklog(p, l, 1)
      BY <1>3, <2>3 DEF Held
    <3>2. \A n \in Lanes : \A i \in Nat : ~InBacklog(p, n, i)'
      <4>1. \A i \in Nat : i + 1 \in Nat /\ (i # 0 => i + 1 # 1)
        OBVIOUS
      <4> QED BY <1>2, <1>3, <2>3, <4>1 DEF Held
    <3>3. Held(p, "hand", l, j)'
      BY <1>2, <1>3, <2>3, <3>1, <3>2 DEF Held
    <3> QED BY <3>3 DEF PlaceKind
  <2> QED BY <2>1, <2>2, <2>3
<1> QED BY <1>3 DEF OnePlace

\* A task or release ends.
LEMMA PlaceComplete ==
    ASSUME BaseType, OnePlace, NEW l \in Lanes, cur[l].kind \in {"task", "release"},
           cur[l].op \in Ops, NEW how,
           outcome' = [outcome EXCEPT ![cur[l].op] = Append(@, how)],
           cur' = [cur EXCEPT ![l] = NoEntry],
           UNCHANGED <<pc, ch, backlog, deferred>>
    PROVE  OnePlace'
<1>1. PICK o \in Ops : o = cur[l].op /\ InHand(o, l)
  BY DEF InHand
<1>2. cur'[l].kind = "none" /\ \A m \in Lanes \ {l} : cur'[m] = cur[m]
  BY DEF BaseType, WorkerType, NoEntry
<1>3. /\ outcome'[o] = Append(outcome[o], how)
      /\ \A p \in Ops \ {o} : outcome'[p] = outcome[p]
  BY <1>1 DEF BaseType, HistoryType
<1>4. \A p \in Ops :
         /\ \A m \in Lanes : \A i \in Nat : InCh(p, m, i)' <=> InCh(p, m, i)
         /\ \A m \in Lanes : \A i \in Nat : InBacklog(p, m, i)' <=> InBacklog(p, m, i)
         /\ \A m \in Lanes : InHand(p, m)' <=> InHand(p, m) /\ m # l
         /\ \A i \in Nat : Postponed(p, i)' <=> Postponed(p, i)
         /\ pc'[p] = pc[p]
  BY <1>2 DEF InCh, InBacklog, Postponed, InHand
<1>5. ASSUME NEW p \in Ops, NEW k \in PlaceKind, NEW m \in Lanes \cup {NoLane},
             NEW j \in Nat, Held(p, k, m, j)
      PROVE  \E k2 \in PlaceKind : Held(p, k2, m, j)'
  <2>1. CASE p # o
    <3>1. ~InHand(p, l)
      BY <1>1, <2>1 DEF InHand
    <3>2. Held(p, k, m, j)'
      BY <1>3, <1>4, <1>5, <2>1, <3>1 DEF Held
    <3> QED BY <3>2
  <2>2. CASE p = o
    <3>1. k = "hand" /\ m = l /\ outcome[o] = <<>>
      BY <1>1, <1>5, <2>2 DEF Held
    <3>2. outcome'[o] # <<>> /\ Len(outcome'[o]) <= 1
      <4>1. outcome'[o] = Append(<<>>, how)
        BY <1>3, <3>1
      <4> QED BY <4>1, FirstOutcome
    <3>3. Held(p, "resolved", m, j)'
      BY <1>4, <1>5, <2>2, <3>1, <3>2 DEF Held
    <3> QED BY <3>3 DEF PlaceKind
  <2> QED BY <2>1, <2>2
<1> QED BY <1>5 DEF OnePlace

-----------------------------------------------------------------------------
(* Why a release or a barrier never overtakes a task accepted before it.    *)
(*                                                                         *)
(* The code has no list of the tasks an entry must wait for: it compares    *)
(* two counters, q.settled and the entry's settleTarget.  A settlement is   *)
(* either a task handled or a send given up, so the counters alone do not   *)
(* say how many tasks were handled.  The invariant below accounts for every *)
(* admission: it was accepted, given up, or is still on its way; and the    *)
(* target of an entry exceeds the tasks it must wait for by the sends given *)
(* up and by the sends within its cutoff that may still be given up.        *)

\* The calls admitted by lane l whose send has neither succeeded nor failed.
Unsent(l) == {o \in Ops : at[o] = l /\ pc[o] \in {"send", "blocked"}}

\* The members of S whose ticket in tk is at most c.
UpTo(S, tk, c) == {o \in S : tk[o] <= c}

\* Every admission was accepted, given up or is on its way, and the tickets on
\* their way have been issued.
Admissions ==
    \A l \in Lanes :
        /\ admitted[l] = accepted[l] + (settled[l] - handled[l])
                                     + Cardinality(Unsent(l))
        /\ \A o \in Unsent(l) : ticket[o] <= admitted[l]

\* Entry e, on a lane with adm admissions of which gap were given up and S are
\* on their way with tickets tk, is taken only after e.before tasks.
Covered(e, adm, gap, S, tk) ==
    /\ e.cutoff <= adm
    /\ e.target >= e.before + gap + Cardinality(UpTo(S, tk, e.cutoff))

\* The entries of every backlog are covered.
Targets ==
    \A l \in Lanes : \A i \in DOMAIN backlog[l] :
        Covered(backlog[l][i], admitted[l], settled[l] - handled[l],
                Unsent(l), ticket)

\* The inductive invariant behind BacklogOrder.
OrderInv == Admissions /\ Targets /\ BacklogOrder

-----------------------------------------------------------------------------
(* What happens to Covered.                                                 *)

\* The calls up to a ticket are finitely many.
LEMMA UpToFinite ==
    ASSUME NEW S, IsFiniteSet(S), NEW tk, NEW c
    PROVE  /\ IsFiniteSet(UpTo(S, tk, c))
           /\ Cardinality(UpTo(S, tk, c)) \in Nat
           /\ Cardinality(S) \in Nat
           /\ Cardinality(UpTo(S, tk, c)) <= Cardinality(S)
<1>1. UpTo(S, tk, c) \subseteq S
  BY DEF UpTo
<1> QED BY <1>1, FS_Subset, FS_CardinalityType

\* An entry that takes its cutoff now is covered (enqueueMandatory, and
\* takeMandatoryCleanup after the submit fence).
LEMMA CoveredNew ==
    ASSUME NEW S, IsFiniteSet(S), NEW tk, NEW adm \in Nat, NEW acc \in Nat,
           NEW gap \in Int, adm = acc + gap + Cardinality(S),
           NEW e, e.cutoff = adm, e.target = adm, e.before = acc
    PROVE  Covered(e, adm, gap, S, tk)
BY UpToFinite DEF Covered

\* A later admission lies beyond the cutoff (admitTask).
LEMMA CoveredAdmit ==
    ASSUME NEW S \in SUBSET Ops, IsFiniteSet(S), NEW tk \in [Ops -> Nat],
           NEW adm \in Nat, NEW gap \in Int, NEW e \in EntryType, NEW o \in Ops,
           o \notin S, Covered(e, adm, gap, S, tk)
    PROVE  Covered(e, adm + 1, gap, S \cup {o}, [tk EXCEPT ![o] = adm + 1])
<1>1. e.cutoff \in Nat /\ e.cutoff <= adm
  BY DEF Covered, EntryType
<1>2. UpTo(S \cup {o}, [tk EXCEPT ![o] = adm + 1], e.cutoff) = UpTo(S, tk, e.cutoff)
  BY <1>1 DEF UpTo
<1> QED BY <1>1, <1>2 DEF Covered

\* A send that succeeds can no longer be given up (sendToQueue).
LEMMA CoveredSend ==
    ASSUME NEW S, IsFiniteSet(S), NEW tk, NEW adm \in Nat, NEW gap \in Int,
           NEW e \in EntryType, NEW o, Covered(e, adm, gap, S, tk)
    PROVE  Covered(e, adm, gap, S \ {o}, tk)
<1>1. UpTo(S \ {o}, tk, e.cutoff) \subseteq UpTo(S, tk, e.cutoff)
  BY DEF UpTo
<1>2. /\ Cardinality(UpTo(S, tk, e.cutoff)) \in Nat
      /\ Cardinality(UpTo(S \ {o}, tk, e.cutoff)) \in Nat
      /\ Cardinality(UpTo(S \ {o}, tk, e.cutoff)) <= Cardinality(UpTo(S, tk, e.cutoff))
  BY <1>1, UpToFinite, FS_Subset, FS_CardinalityType
<1>3. e.target \in Nat /\ e.before \in Nat
  BY DEF EntryType
<1> QED BY <1>2, <1>3 DEF Covered

\* A send given up settles: within the cutoff the entry counted on it, beyond
\* the cutoff its target moves along (unmarkSent).
LEMMA CoveredAbandon ==
    ASSUME NEW S \in SUBSET Ops, IsFiniteSet(S), NEW tk \in [Ops -> Nat],
           NEW adm \in Nat, NEW gap \in Int, NEW e \in EntryType, NEW o \in S,
           Covered(e, adm, gap, S, tk)
    PROVE  Covered(IF tk[o] > e.cutoff THEN [e EXCEPT !.target = @ + 1] ELSE e,
                   adm, gap + 1, S \ {o}, tk)
<1> DEFINE U == UpTo(S, tk, e.cutoff)
<1>1. e.target \in Nat /\ e.before \in Nat /\ e.cutoff \in Nat /\ tk[o] \in Nat
  BY DEF EntryType
<1>2. IsFiniteSet(U) /\ Cardinality(U) \in Nat
  BY UpToFinite
<1>3. CASE tk[o] <= e.cutoff
  <2>1. o \in U /\ UpTo(S \ {o}, tk, e.cutoff) = U \ {o}
    BY <1>3 DEF UpTo
  <2>2. Cardinality(U \ {o}) = Cardinality(U) - 1
    BY <1>2, <2>1, FS_RemoveElement
  <2>3. Covered(e, adm, gap + 1, S \ {o}, tk)
    <3>1. e.target >= e.before + gap + Cardinality(U) /\ e.cutoff <= adm
      BY DEF Covered
    <3>2. Cardinality(UpTo(S \ {o}, tk, e.cutoff)) = Cardinality(U) - 1
      BY <2>1, <2>2
    <3> HIDE DEF U
    <3> QED BY <1>1, <1>2, <3>1, <3>2 DEF Covered
  <2> QED BY <1>1, <1>3, <2>3
<1>4. CASE tk[o] > e.cutoff
  <2>1. UpTo(S \ {o}, tk, e.cutoff) = U
    BY <1>1, <1>4 DEF UpTo
  <2> DEFINE f == [e EXCEPT !.target = @ + 1]
  <2>2. f.target = e.target + 1 /\ f.cutoff = e.cutoff /\ f.before = e.before
    BY DEF EntryType
  <2>3. Covered(f, adm, gap + 1, S \ {o}, tk)
    <3> HIDE DEF f
    <3> QED BY <1>1, <1>2, <2>1, <2>2 DEF Covered
  <2> QED BY <1>4, <2>3
<1> QED BY <1>1, <1>3, <1>4

-----------------------------------------------------------------------------
(* Steps.                                                                   *)

\* The sends on their way are finitely many.
LEMMA UnsentFinite ==
    ASSUME NEW l
    PROVE  /\ Unsent(l) \in SUBSET Ops
           /\ IsFiniteSet(Unsent(l))
           /\ Cardinality(Unsent(l)) \in Nat
<1>1. Unsent(l) \subseteq Ops
  BY DEF Unsent
<1> QED BY <1>1, ConstantsAssumption, FS_Subset, FS_CardinalityType
        DEF ConstantsAssumption

\* The counters of lane l.
LEMMA Counters ==
    ASSUME BaseType, NEW l \in Lanes
    PROVE  /\ admitted[l] \in Nat /\ accepted[l] \in Nat
           /\ settled[l] \in Nat /\ handled[l] \in Nat
           /\ settled[l] - handled[l] \in Int
           /\ backlog[l] \in Seq(EntryType)
           /\ \A i \in DOMAIN backlog[l] : backlog[l][i] \in EntryType
BY DEF BaseType, LaneType, HistoryType

\* A step that keeps the sends on their way, settles nothing, leaves the
\* backlogs alone and takes no entry from one.
LEMMA OrderSame ==
    ASSUME OrderInv,
           UNCHANGED <<ticket, backlog, admitted, settled, accepted, handled>>,
           \A l \in Lanes : Unsent(l)' = Unsent(l),
           \A l \in Lanes : cur'[l] = cur[l] \/ cur'[l].kind \in {"none", "task"}
    PROVE  OrderInv'
<1>1. Admissions'
  BY DEF OrderInv, Admissions
<1>2. Targets'
  BY DEF OrderInv, Targets
<1>3. BacklogOrder'
  BY DEF OrderInv, BacklogOrder
<1> QED BY <1>1, <1>2, <1>3 DEF OrderInv

\* The same for a step after which every call is where it was.
LEMMA OrderKept ==
    ASSUME OrderInv,
           UNCHANGED <<at, ticket, backlog, admitted, settled, accepted, handled>>,
           \A o \in Ops : pc'[o] \in {"send", "blocked"}
                             <=> pc[o] \in {"send", "blocked"},
           \A l \in Lanes : cur'[l] = cur[l] \/ cur'[l].kind \in {"none", "task"}
    PROVE  OrderInv'
<1>1. \A l : Unsent(l)' = Unsent(l)
  BY DEF Unsent
<1> QED BY <1>1, OrderSame

\* enqueueMandatory.
LEMMA OrderQueued ==
    ASSUME BaseType, OrderInv, NEW l \in Lanes,
           NEW kind \in {"release", "barrier"}, NEW op \in Ops \cup Sections,
           NEW w \in BOOLEAN, EnqueueMandatory(l, Entry(kind, op, l, w)),
           UNCHANGED <<ticket, accepted, handled, cur>>,
           \A k \in Lanes : Unsent(k)' = Unsent(k)
    PROVE  OrderInv'
<1> DEFINE e == Entry(kind, op, l, w)
<1>1. /\ backlog' = [backlog EXCEPT ![l] = Append(@, e)]
      /\ UNCHANGED <<admitted, settled>>
  BY DEF EnqueueMandatory
<1>2. e \in EntryType
  BY EntryTyped
<1>3. Covered(e, admitted[l], settled[l] - handled[l], Unsent(l), ticket)
  <2>1. e.cutoff = admitted[l] /\ e.target = admitted[l] /\ e.before = accepted[l]
    BY DEF Entry
  <2> HIDE DEF e
  <2> QED BY <2>1, CoveredNew, UnsentFinite, Counters DEF OrderInv, Admissions
<1> HIDE DEF e
<1>4. Admissions'
  BY <1>1 DEF OrderInv, Admissions
<1>5. Targets'
  <2> SUFFICES ASSUME NEW k \in Lanes, NEW i \in DOMAIN backlog'[k]
               PROVE  Covered(backlog'[k][i], admitted[k],
                              settled[k] - handled[k], Unsent(k), ticket)
    BY <1>1 DEF Targets
  <2>1. CASE i \in DOMAIN backlog[k] /\ backlog'[k][i] = backlog[k][i]
    BY <2>1 DEF OrderInv, Targets
  <2>2. CASE k = l /\ backlog'[k][i] = e
    BY <2>2, <1>3
  <2>3. backlog[k] \in Seq(EntryType)
    BY Counters
  <2>4. CASE k # l
    BY <1>1, <2>1, <2>4
  <2>5. CASE k = l
    <3>1. backlog'[k] = Append(backlog[k], e)
      BY <1>1, <2>5 DEF BaseType, LaneType
    <3> QED BY <1>2, <2>1, <2>2, <2>3, <2>5, <3>1
  <2> QED BY <2>4, <2>5
<1>6. BacklogOrder'
  BY DEF OrderInv, BacklogOrder
<1> QED BY <1>4, <1>5, <1>6 DEF OrderInv

\* The same when every call is where it was.
LEMMA OrderEnqueue ==
    ASSUME BaseType, OrderInv, NEW l \in Lanes,
           NEW kind \in {"release", "barrier"}, NEW op \in Ops \cup Sections,
           NEW w \in BOOLEAN, EnqueueMandatory(l, Entry(kind, op, l, w)),
           UNCHANGED <<at, ticket, accepted, handled, cur>>,
           \A o \in Ops : pc'[o] \in {"send", "blocked"}
                             <=> pc[o] \in {"send", "blocked"}
    PROVE  OrderInv'
<1>1. \A k : Unsent(k)' = Unsent(k)
  BY DEF Unsent
<1> QED BY <1>1, OrderQueued

\* admitTask.
LEMMA OrderAdmit ==
    ASSUME BaseType, OrderInv, NEW o \in Ops, NEW l \in Lanes, l = at[o], AdmitTask(o)
    PROVE  OrderInv'
<1>1. /\ pc[o] = "admit"
      /\ admitted' = [admitted EXCEPT ![l] = @ + 1]
      /\ ticket' = [ticket EXCEPT ![o] = admitted[l] + 1]
      /\ pc' = [pc EXCEPT ![o] = "send"]
      /\ UNCHANGED <<at, backlog, settled, accepted, handled, cur>>
  BY DEF AdmitTask, workerVars, historyVars
<1>2. /\ o \notin Unsent(l)
      /\ Unsent(l)' = Unsent(l) \cup {o}
      /\ \A k : k # l => Unsent(k)' = Unsent(k) /\ o \notin Unsent(k)
  BY <1>1 DEF Unsent, BaseType, SubmitType
<1>3. Cardinality(Unsent(l)') = Cardinality(Unsent(l)) + 1
  BY <1>2, UnsentFinite, FS_AddElement
<1>4. l \in Lanes /\ ticket \in [Ops -> Nat] /\ admitted \in [Lanes -> Nat]
  BY DEF BaseType, SubmitType, LaneType
<1>5. Admissions'
  <2> SUFFICES ASSUME NEW k \in Lanes
               PROVE  /\ admitted'[k] = accepted[k] + (settled[k] - handled[k])
                                         + Cardinality(Unsent(k)')
                      /\ \A p \in Unsent(k)' : ticket'[p] <= admitted'[k]
    BY <1>1 DEF Admissions
  <2>1. CASE k = l
    <3>1. /\ admitted[l] = accepted[l] + (settled[l] - handled[l])
                           + Cardinality(Unsent(l))
          /\ \A p \in Unsent(l) : ticket[p] <= admitted[l]
          /\ admitted'[l] = admitted[l] + 1
      BY <1>1, <1>4 DEF OrderInv, Admissions
    <3>2. /\ admitted[l] \in Nat /\ accepted[l] \in Nat
          /\ settled[l] \in Nat /\ handled[l] \in Nat
          /\ Cardinality(Unsent(l)) \in Nat /\ Unsent(l) \subseteq Ops
      BY Counters, UnsentFinite
    <3>3. ASSUME NEW p \in Unsent(l)' PROVE ticket'[p] <= admitted'[l]
      BY <3>1, <3>2, <1>1, <1>2, <1>4
    <3>4. admitted'[l] = accepted[l] + (settled[l] - handled[l])
                         + Cardinality(Unsent(l)')
      BY <3>1, <3>2, <1>3
    <3> QED BY <2>1, <3>3, <3>4
  <2>2. CASE k # l
    BY <2>2, <1>1, <1>2, <1>4, UnsentFinite DEF OrderInv, Admissions
  <2> QED BY <2>1, <2>2
<1>6. Targets'
  <2> SUFFICES ASSUME NEW k \in Lanes, NEW i \in DOMAIN backlog[k]
               PROVE  Covered(backlog[k][i], admitted'[k],
                              settled[k] - handled[k], Unsent(k)', ticket')
    BY <1>1 DEF Targets
  <2>1. /\ Covered(backlog[k][i], admitted[k], settled[k] - handled[k],
                   Unsent(k), ticket)
        /\ backlog[k][i] \in EntryType
    BY Counters DEF OrderInv, Targets
  <2>2. CASE k = l
    <3>1. Covered(backlog[k][i], admitted[k] + 1, settled[k] - handled[k],
                  Unsent(k) \cup {o}, [ticket EXCEPT ![o] = admitted[k] + 1])
      BY <2>1, <2>2, <1>2, <1>4, CoveredAdmit, Counters, UnsentFinite
    <3> QED BY <3>1, <2>2, <1>1, <1>2, <1>4
  <2>3. CASE k # l
    <3>1. \A c : UpTo(Unsent(k), ticket', c) = UpTo(Unsent(k), ticket, c)
      BY <2>3, <1>1, <1>2, <1>4, UnsentFinite DEF UpTo
    <3> QED BY <3>1, <2>1, <2>3, <1>1, <1>2, <1>4 DEF Covered
  <2> QED BY <2>2, <2>3
<1>7. BacklogOrder'
  BY <1>1 DEF OrderInv, BacklogOrder
<1> QED BY <1>5, <1>6, <1>7 DEF OrderInv

\* A step on lane l that takes call o from the sends on their way: sent or
\* given up.
LEMMA UnsentLeaves ==
    ASSUME BaseType, NEW o \in Ops, NEW l, l = at[o], pc[o] \in {"send", "blocked"},
           pc' \in [Ops -> PcType], pc'[o] \notin {"send", "blocked"},
           \A p \in Ops \ {o} : pc'[p] = pc[p], UNCHANGED at
    PROVE  /\ o \in Unsent(l)
           /\ Unsent(l)' = Unsent(l) \ {o}
           /\ \A k : k # l => Unsent(k)' = Unsent(k)
           /\ Cardinality(Unsent(l)') = Cardinality(Unsent(l)) - 1
<1>1. /\ o \in Unsent(l)
      /\ Unsent(l)' = Unsent(l) \ {o}
      /\ \A k : k # l => Unsent(k)' = Unsent(k)
  BY DEF Unsent
<1>2. IsFiniteSet(Unsent(l))
  BY UnsentFinite
<1>3. Cardinality(Unsent(l) \ {o}) = Cardinality(Unsent(l)) - 1
  BY <1>1, <1>2, FS_RemoveElement
<1> QED BY <1>1, <1>3

\* A send into the channel.
LEMMA OrderSend ==
    ASSUME BaseType, OrderInv, NEW o \in Ops, NEW l \in Lanes, l = at[o], SendTask(o)
    PROVE  OrderInv'
<1>1. /\ pc[o] \in {"send", "blocked"}
      /\ accepted' = [accepted EXCEPT ![l] = @ + 1]
      /\ pc' = [pc EXCEPT ![o] = "end"]
      /\ UNCHANGED <<at, ticket, backlog, admitted, settled, handled, cur>>
  BY DEF SendTask, workerVars
<1>2. /\ pc' \in [Ops -> PcType] /\ pc'[o] \notin {"send", "blocked"}
      /\ \A p \in Ops \ {o} : pc'[p] = pc[p]
  BY <1>1 DEF BaseType, SubmitType, PcType
<1>3. /\ o \in Unsent(l)
      /\ Unsent(l)' = Unsent(l) \ {o}
      /\ \A k : k # l => Unsent(k)' = Unsent(k)
      /\ Cardinality(Unsent(l)') = Cardinality(Unsent(l)) - 1
  BY <1>1, <1>2, UnsentLeaves
<1>4. l \in Lanes /\ accepted \in [Lanes -> Nat]
  BY DEF BaseType, HistoryType
<1>5. Admissions'
  <2> SUFFICES ASSUME NEW k \in Lanes
               PROVE  /\ admitted[k] = accepted'[k] + (settled[k] - handled[k])
                                        + Cardinality(Unsent(k)')
                      /\ \A p \in Unsent(k)' : ticket[p] <= admitted[k]
    BY <1>1 DEF Admissions
  <2>1. /\ admitted[k] = accepted[k] + (settled[k] - handled[k])
                          + Cardinality(Unsent(k))
        /\ \A p \in Unsent(k) : ticket[p] <= admitted[k]
    BY DEF OrderInv, Admissions
  <2>2. CASE k = l
    <3>1. /\ admitted[l] \in Nat /\ accepted[l] \in Nat
          /\ settled[l] \in Nat /\ handled[l] \in Nat
          /\ Cardinality(Unsent(l)) \in Nat
      BY Counters, UnsentFinite
    <3>2. admitted[l] = accepted'[l] + (settled[l] - handled[l])
                        + Cardinality(Unsent(l)')
      BY <2>1, <2>2, <3>1, <1>1, <1>3, <1>4
    <3>3. \A p \in Unsent(l)' : ticket[p] <= admitted[l]
      BY <2>1, <2>2, <1>3
    <3> QED BY <2>2, <3>2, <3>3
  <2>3. CASE k # l
    BY <2>1, <2>3, <1>1, <1>3, <1>4
  <2> QED BY <2>2, <2>3
<1>6. Targets'
  <2> SUFFICES ASSUME NEW k \in Lanes, NEW i \in DOMAIN backlog[k]
               PROVE  Covered(backlog[k][i], admitted[k],
                              settled[k] - handled[k], Unsent(k)', ticket)
    BY <1>1 DEF Targets
  <2>1. /\ Covered(backlog[k][i], admitted[k], settled[k] - handled[k],
                   Unsent(k), ticket)
        /\ backlog[k][i] \in EntryType
    BY Counters DEF OrderInv, Targets
  <2>2. Unsent(k)' = Unsent(k) \/ Unsent(k)' = Unsent(k) \ {o}
    BY <1>3
  <2>3. Covered(backlog[k][i], admitted[k], settled[k] - handled[k],
                Unsent(k) \ {o}, ticket)
    BY <2>1, CoveredSend, Counters, UnsentFinite
  <2> QED BY <2>1, <2>2, <2>3
<1>7. BacklogOrder'
  BY <1>1 DEF OrderInv, BacklogOrder
<1> QED BY <1>5, <1>6, <1>7 DEF OrderInv

\* A send given up.
LEMMA OrderAbandon ==
    ASSUME BaseType, OrderInv, NEW o \in Ops, NEW l \in Lanes, l = at[o], NEW reason,
           AbandonSend(o, reason)
    PROVE  OrderInv'
<1>1. /\ pc[o] = "blocked"
      /\ settled' = [settled EXCEPT ![l] = @ + 1]
      /\ backlog' = [backlog EXCEPT ![l] = RaiseTargets(@, ticket[o])]
      /\ Fail(o)
      /\ UNCHANGED <<at, ticket, admitted, accepted, handled, cur>>
  BY DEF AbandonSend, UnmarkSent, workerVars, historyVars
<1>2. /\ pc' \in [Ops -> PcType] /\ pc'[o] \notin {"send", "blocked"}
      /\ \A p \in Ops \ {o} : pc'[p] = pc[p]
  BY <1>1, FailTyped DEF Fail, Return, BaseType, SubmitType
<1>3. /\ o \in Unsent(l)
      /\ Unsent(l)' = Unsent(l) \ {o}
      /\ \A k : k # l => Unsent(k)' = Unsent(k)
      /\ Cardinality(Unsent(l)') = Cardinality(Unsent(l)) - 1
  BY <1>1, <1>2, UnsentLeaves
<1>4. l \in Lanes /\ settled \in [Lanes -> Nat] /\ ticket \in [Ops -> Nat]
      /\ backlog \in [Lanes -> Seq(EntryType)]
  BY DEF BaseType, LaneType, SubmitType
<1>5. Admissions'
  <2> SUFFICES ASSUME NEW k \in Lanes
               PROVE  /\ admitted[k] = accepted[k] + (settled'[k] - handled[k])
                                        + Cardinality(Unsent(k)')
                      /\ \A p \in Unsent(k)' : ticket[p] <= admitted[k]
    BY <1>1 DEF Admissions
  <2>1. /\ admitted[k] = accepted[k] + (settled[k] - handled[k])
                          + Cardinality(Unsent(k))
        /\ \A p \in Unsent(k) : ticket[p] <= admitted[k]
    BY DEF OrderInv, Admissions
  <2>2. CASE k = l
    <3>1. /\ admitted[l] \in Nat /\ accepted[l] \in Nat
          /\ settled[l] \in Nat /\ handled[l] \in Nat
          /\ Cardinality(Unsent(l)) \in Nat
      BY Counters, UnsentFinite
    <3>a. settled'[l] = settled[l] + 1
      BY <1>1, <1>4
    <3>b. admitted[l] = accepted[l] + (settled[l] - handled[l])
                        + Cardinality(Unsent(l))
      BY <2>1, <2>2
    <3>2. admitted[l] = accepted[l] + (settled'[l] - handled[l])
                        + Cardinality(Unsent(l)')
      BY <3>a, <3>b, <3>1, <1>3
    <3>3. \A p \in Unsent(l)' : ticket[p] <= admitted[l]
      BY <2>1, <2>2, <1>3
    <3> QED BY <2>2, <3>2, <3>3
  <2>3. CASE k # l
    BY <2>1, <2>3, <1>1, <1>3, <1>4
  <2> QED BY <2>2, <2>3
<1>6. Targets'
  <2> SUFFICES ASSUME NEW k \in Lanes, NEW i \in DOMAIN backlog'[k]
               PROVE  Covered(backlog'[k][i], admitted[k],
                              settled'[k] - handled[k], Unsent(k)', ticket)
    BY <1>1 DEF Targets
  <2>1. i \in DOMAIN backlog[k]
    BY <1>1, <1>4 DEF RaiseTargets
  <2>2. /\ Covered(backlog[k][i], admitted[k], settled[k] - handled[k],
                   Unsent(k), ticket)
        /\ backlog[k][i] \in EntryType
    BY <2>1, Counters DEF OrderInv, Targets
  <2>3. CASE k = l
    <3> DEFINE e == backlog[k][i]
    <3>1. backlog'[k][i] = IF ticket[o] > e.cutoff
                           THEN [e EXCEPT !.target = @ + 1] ELSE e
      BY <2>1, <2>3, <1>1, <1>4 DEF RaiseTargets
    <3>2. settled'[k] - handled[k] = (settled[k] - handled[k]) + 1
      BY <2>3, <1>1, <1>4, Counters
    <3>3. Covered(IF ticket[o] > e.cutoff
                  THEN [e EXCEPT !.target = @ + 1] ELSE e,
                  admitted[k], (settled[k] - handled[k]) + 1,
                  Unsent(k) \ {o}, ticket)
      BY <2>2, <2>3, <1>3, <1>4, CoveredAbandon, Counters, UnsentFinite
    <3> QED BY <3>1, <3>2, <3>3, <2>3, <1>3
  <2>4. CASE k # l
    BY <2>2, <2>4, <1>1, <1>3, <1>4
  <2> QED BY <2>3, <2>4
<1>7. BacklogOrder'
  BY <1>1 DEF OrderInv, BacklogOrder
<1> QED BY <1>5, <1>6, <1>7 DEF OrderInv

\* The head of a backlog is covered, also after the submit fence refreshed it.
LEMMA HeadCovered ==
    ASSUME BaseType, OrderInv, NEW l \in Lanes, backlog[l] # <<>>
    PROVE  Covered(Head1(l), admitted[l], settled[l] - handled[l], Unsent(l),
                   ticket)
<1> DEFINE h == Head(backlog[l])
<1>1. /\ h \in EntryType
      /\ Covered(h, admitted[l], settled[l] - handled[l], Unsent(l), ticket)
  <2>1. backlog[l] \in Seq(EntryType)
    BY Counters
  <2>2. h = backlog[l][1] /\ 1 \in DOMAIN backlog[l]
    BY <2>1
  <2> QED BY <2>1, <2>2, Counters DEF OrderInv, Targets
<1>2. CASE ~h.wsf
  BY <1>1, <1>2 DEF Head1
<1>3. CASE h.wsf
  <2> DEFINE e == [h EXCEPT !.wsf = FALSE, !.cutoff = admitted[l],
                            !.target = admitted[l], !.before = accepted[l]]
  <2>1. /\ e.cutoff = admitted[l] /\ e.target = admitted[l]
        /\ e.before = accepted[l]
    BY <1>1 DEF EntryType
  <2>2. Head1(l) = e
    BY <1>3 DEF Head1
  <2> HIDE DEF e
  <2>3. Covered(e, admitted[l], settled[l] - handled[l], Unsent(l), ticket)
    BY <2>1, CoveredNew, UnsentFinite, Counters DEF OrderInv, Admissions
  <2> QED BY <2>2, <2>3
<1> QED BY <1>2, <1>3

\* takeMandatoryCleanup with an entry: the tasks it had to wait for are
\* handled.
LEMMA OrderTake ==
    ASSUME BaseType, OrderInv, NEW l \in Lanes, TakeMandatory(l)
    PROVE  OrderInv'
<1>1. /\ backlog[l] # <<>>
      /\ settled[l] >= Head1(l).target
      /\ backlog' = [backlog EXCEPT ![l] = Tail(@)]
      /\ cur' = [cur EXCEPT ![l] = Head1(l)]
      /\ UNCHANGED <<pc, at, ticket, admitted, settled, accepted, handled>>
  BY DEF TakeMandatory, MandatoryReady, WorkerFrame, submitVars
<1>2. \A k : Unsent(k)' = Unsent(k)
  BY <1>1 DEF Unsent
<1>3. handled[l] >= Head1(l).before
  <2>1. /\ Head1(l).target \in Nat /\ Head1(l).before \in Nat
        /\ settled[l] \in Nat /\ handled[l] \in Nat
    BY <1>1, HeadTyped, Counters DEF EntryType
  <2> DEFINE n == Cardinality(UpTo(Unsent(l), ticket, Head1(l).cutoff))
  <2>2. n \in Nat
    BY UpToFinite, UnsentFinite
  <2>3. Head1(l).target >= Head1(l).before + (settled[l] - handled[l]) + n
    BY <1>1, HeadCovered DEF Covered
  <2> HIDE DEF n
  <2> QED BY <1>1, <2>1, <2>2, <2>3
<1>4. Admissions'
  BY <1>1, <1>2 DEF OrderInv, Admissions
<1>5. Targets'
  <2> SUFFICES ASSUME NEW k \in Lanes, NEW i \in DOMAIN backlog'[k]
               PROVE  Covered(backlog'[k][i], admitted[k],
                              settled[k] - handled[k], Unsent(k), ticket)
    BY <1>1, <1>2 DEF Targets
  <2>1. \E j \in DOMAIN backlog[k] : backlog'[k][i] = backlog[k][j]
    <3>1. backlog[k] \in Seq(EntryType) /\ backlog \in [Lanes -> Seq(EntryType)]
      BY Counters DEF BaseType, LaneType
    <3>2. CASE k = l
      <4>1. backlog'[k] = Tail(backlog[k])
        BY <1>1, <3>1, <3>2
      <4>2. /\ i \in 1 .. Len(backlog[k]) - 1
            /\ backlog'[k][i] = backlog[k][i + 1]
        BY <1>1, <3>1, <3>2, <4>1
      <4>3. i + 1 \in DOMAIN backlog[k]
        BY <3>1, <4>2
      <4> QED BY <4>2, <4>3
    <3>3. CASE k # l
      BY <1>1, <3>1, <3>3
    <3> QED BY <3>2, <3>3
  <2> QED BY <2>1 DEF OrderInv, Targets
<1>6. BacklogOrder'
  BY <1>1, <1>3 DEF OrderInv, BacklogOrder, BaseType, WorkerType
<1> QED BY <1>4, <1>5, <1>6 DEF OrderInv

\* takeMandatoryCleanup without one: the refreshed head stays covered.
LEMMA OrderNoTake ==
    ASSUME BaseType, OrderInv, NEW l \in Lanes, NoMandatory(l)
    PROVE  OrderInv'
<1>1. UNCHANGED <<pc, at, ticket, admitted, settled, accepted, handled, cur>>
  BY DEF NoMandatory, WorkerFrame, submitVars
<1>2. CASE backlog' = backlog
  BY <1>1, <1>2, OrderKept
<1>3. CASE backlog[l] # <<>> /\ backlog' = [backlog EXCEPT ![l][1] = Head1(l)]
  <2>1. \A k : Unsent(k)' = Unsent(k)
    BY <1>1 DEF Unsent
  <2>2. Targets'
    <3> SUFFICES ASSUME NEW k \in Lanes, NEW i \in DOMAIN backlog'[k]
                 PROVE  Covered(backlog'[k][i], admitted[k],
                                settled[k] - handled[k], Unsent(k), ticket)
      BY <1>1, <2>1 DEF Targets
    <3>1. \/ k = l /\ backlog'[k][i] = Head1(l)
          \/ i \in DOMAIN backlog[k] /\ backlog'[k][i] = backlog[k][i]
      BY <1>3 DEF BaseType, LaneType
    <3> QED BY <1>3, <3>1, HeadCovered DEF OrderInv, Targets
  <2>3. Admissions'
    BY <1>1, <2>1 DEF OrderInv, Admissions
  <2>4. BacklogOrder'
    BY <1>1 DEF OrderInv, BacklogOrder
  <2> QED BY <2>2, <2>3, <2>4 DEF OrderInv
<1> QED BY <1>2, <1>3 DEF NoMandatory

\* handleTask: a task of the channel is handled and settled, a release neither.
LEMMA OrderComplete ==
    ASSUME BaseType, OrderInv, NEW l \in Lanes, Complete(l)
    PROVE  OrderInv'
<1>1. /\ UNCHANGED <<pc, at, ticket, admitted, accepted, backlog>>
      /\ cur' = [cur EXCEPT ![l] = NoEntry]
      /\ \/ UNCHANGED <<settled, handled>>
         \/ /\ settled' = [settled EXCEPT ![l] = @ + 1]
            /\ handled' = [handled EXCEPT ![l] = @ + 1]
  <2>1. CASE cur[l].kind = "task"
    BY <2>1 DEF Complete, WorkerFrame, submitVars
  <2>2. CASE cur[l].kind # "task"
    BY <2>2 DEF Complete, WorkerFrame, submitVars, BaseType, LaneType,
       HistoryType
  <2> QED BY <2>1, <2>2
<1>2. \A k : Unsent(k)' = Unsent(k)
  BY <1>1 DEF Unsent
<1>3. ASSUME NEW k \in Lanes
      PROVE  /\ settled'[k] - handled'[k] = settled[k] - handled[k]
             /\ handled'[k] >= handled[k]
             /\ handled'[k] \in Nat
  <2>1. settled[k] \in Nat /\ handled[k] \in Nat
    BY Counters
  <2>2. \/ settled'[k] = settled[k] /\ handled'[k] = handled[k]
        \/ settled'[k] = settled[k] + 1 /\ handled'[k] = handled[k] + 1
    BY <1>1 DEF BaseType, LaneType, HistoryType
  <2> QED BY <2>1, <2>2
<1>4. Admissions'
  BY <1>1, <1>2, <1>3 DEF OrderInv, Admissions
<1>5. Targets'
  BY <1>1, <1>2, <1>3 DEF OrderInv, Targets
<1>6. BacklogOrder'
  <2> SUFFICES ASSUME NEW k \in Lanes, cur'[k].kind \in {"release", "barrier"}
               PROVE  handled'[k] >= cur'[k].before
    BY DEF BacklogOrder
  <2>1. cur'[k] = cur[k]
    BY <1>1 DEF BaseType, WorkerType, NoEntry
  <2>2. handled[k] >= cur[k].before
    BY <2>1 DEF OrderInv, BacklogOrder
  <2>3. cur[k].before \in Nat /\ handled[k] \in Nat
    BY Counters DEF BaseType, WorkerType, EntryType
  <2> QED BY <1>3, <2>1, <2>2, <2>3
<1> QED BY <1>4, <1>5, <1>6 DEF OrderInv

\* Every step of a worker keeps the order.
LEMMA OrderWorker ==
    ASSUME BaseType, OrderInv, NEW l \in Lanes, WorkerStep(l)
    PROVE  OrderInv'
<1>1. CASE Receive(l)
  <2>1. \A k \in Lanes : cur'[k] = cur[k] \/ cur'[k].kind \in {"none", "task"}
    BY <1>1 DEF Receive, TaskEntry, BaseType, WorkerType
  <2> QED BY <1>1, <2>1, OrderKept DEF Receive, WorkerFrame, submitVars
<1>2. CASE TakeWake(l) \/ SeeFence(l) \/ SeeClosed(l) \/ FinishWorker(l)
  <2>1. IdleFrame
    BY <1>2 DEF TakeWake, SeeFence, SeeClosed, FinishWorker
  <2> QED BY <2>1, OrderKept DEF IdleFrame, WorkerFrame, submitVars
<1>3. CASE ParkBarrier(l)
  BY <1>3, OrderKept DEF ParkBarrier, WorkerFrame, submitVars
<1>4. CASE LeaveBarrier(l)
  <2>1. \A k \in Lanes : cur'[k] = cur[k] \/ cur'[k].kind \in {"none", "task"}
    BY <1>4 DEF LeaveBarrier, NoEntry, BaseType, WorkerType
  <2> QED BY <1>4, <2>1, OrderKept DEF LeaveBarrier, WorkerFrame, submitVars
<1> QED
  BY <1>1, <1>2, <1>3, <1>4, OrderTake, OrderNoTake, OrderComplete DEF WorkerStep

-----------------------------------------------------------------------------
(* Exclusive sections.                                                      *)

\* exclusiveTurn: one section at a time, and a section that runs a postponed
\* release has one.
Turn ==
    /\ \A s, t \in Sections :
          (spc[s] \notin {"idle", "ended"} /\ spc[t] \notin {"idle", "ended"})
             => s = t
    /\ \A s \in Sections : spc[s] = "releasing" => deferred # <<>>

\* The steps of an Exclusive call; ls are the lanes it parks and done is what
\* its strategy adds to the wait for running releases.
SectionMove(s, ls, done) ==
    \/ TakeTurn(s) \/ SectionStep(s) \/ SectionFails(s, "ctx")
    \/ InstallExclusive(s, ls) \/ AwaitRunning(s, done)

\* A section changes only sections, a backlog and the release it runs.
LEMMA SectionFramed ==
    ASSUME NEW s, NEW ls, NEW done, SectionMove(s, ls, done)
    PROVE  SectionFrame
BY DEF SectionMove, TakeTurn, SectionStep, SectionFails, InstallExclusive,
   AwaitRunning, BeginSection, PlaceBarrier, CollectDone, StartFn, EndFn,
   WithdrawExclusive, EndDeferred, ReleaseLanes, SectionMoves

\* Only a barrier touches the lanes.
LEMMA SectionLanes ==
    ASSUME NEW s, NEW ls, NEW done, SectionMove(s, ls, done), ~PlaceBarrier(s)
    PROVE  UNCHANGED laneVars
BY DEF SectionMove, TakeTurn, SectionStep, SectionFails, InstallExclusive,
   AwaitRunning, BeginSection, CollectDone, StartFn, EndFn,
   WithdrawExclusive, EndDeferred, ReleaseLanes, SectionMoves

\* The types.
LEMMA SectionMoveTyped ==
    ASSUME BaseType, Turn, NEW s \in Sections, NEW ls \in SUBSET Lanes, NEW done,
           SectionMove(s, ls, done)
    PROVE  BaseType'
<1>1. CASE TakeTurn(s)
  BY <1>1, SectionMovesTyped DEF TakeTurn, SpcType
<1>2. CASE SectionFails(s, "ctx")
  BY <1>2, SectionMovesTyped DEF SectionFails, SpcType
<1>3. CASE AwaitRunning(s, done)
  BY <1>3, SectionMovesTyped DEF AwaitRunning, SpcType
<1>4. CASE SectionStep(s)
  BY <1>4, SectionTyped DEF Turn
<1> QED BY <1>1, <1>2, <1>3, <1>4, InstallTyped DEF SectionMove

\* A section that moves has or takes the turn.
LEMMA TurnKept ==
    ASSUME BaseType, Turn, NEW s \in Sections, NEW ls \in SUBSET Lanes, NEW done,
           SectionMove(s, ls, done)
    PROVE  Turn'
<1>1. CASE EndDeferred(s)
  BY <1>1 DEF EndDeferred, Turn, BaseType, SectionType
<1>2. CASE ~EndDeferred(s)
  <2>1. PICK x : spc' = spc \/ spc' = [spc EXCEPT ![s] = x]
    BY <1>2 DEF SectionMove, TakeTurn, SectionStep, SectionFails, InstallExclusive,
       AwaitRunning, BeginSection, PlaceBarrier, CollectDone, StartFn, EndFn,
       WithdrawExclusive, ReleaseLanes, SectionMoves
  <2>2. UNCHANGED deferred
    BY <1>2 DEF SectionMove, TakeTurn, SectionStep, SectionFails, InstallExclusive,
       AwaitRunning, BeginSection, PlaceBarrier, CollectDone, StartFn, EndFn,
       WithdrawExclusive, ReleaseLanes, SectionMoves
  <2>3. CASE spc' = spc
    BY <2>2, <2>3 DEF Turn
  <2>4. CASE TakeTurn(s)
    BY <2>2, <2>4 DEF TakeTurn, TurnFree, SectionMoves, Turn, BaseType, SectionType
  <2>5. CASE ~TakeTurn(s) /\ spc' # spc
    <3>1. spc[s] \notin {"idle", "ended"}
      BY <1>2, <2>5 DEF SectionMove, SectionStep, SectionFails, InstallExclusive,
         AwaitRunning, BeginSection, PlaceBarrier, CollectDone, StartFn, EndFn,
         WithdrawExclusive, ReleaseLanes, SectionMoves
    <3>2. spc'[s] = "releasing" => deferred # <<>>
      BY <1>2, <2>5 DEF SectionMove, SectionStep, SectionFails, InstallExclusive,
         AwaitRunning, BeginSection, PlaceBarrier, CollectDone, StartFn, EndFn,
         WithdrawExclusive, ReleaseLanes, SectionMoves, BaseType, SectionType
    <3> QED BY <2>1, <2>2, <2>5, <3>1, <3>2 DEF Turn, BaseType, SectionType
  <2> QED BY <2>3, <2>4, <2>5
<1> QED BY <1>1, <1>2

-----------------------------------------------------------------------------
(* The barriers of sections.                                                *)

\* The barrier of section s is queued on lane l, or the worker has it in hand.
HasBarrier(s, l) ==
    \/ \E i \in DOMAIN backlog[l] : backlog[l][i].kind = "barrier" /\ backlog[l][i].op = s
    \/ cur[l].kind = "barrier" /\ cur[l].op = s

Placed(s) == {l \in Lanes : HasBarrier(s, l)}

\* The lanes that section s holds.
HeldLanes(s) == {l \in Lanes : wpc[l] = "held" /\ cur[l].op = s}

\* Unchanged lanes keep their barriers.
LEMMA BarrierSame ==
    ASSUME NEW l, backlog'[l] = backlog[l], cur'[l] = cur[l], NEW s
    PROVE  HasBarrier(s, l)' <=> HasBarrier(s, l)
BY DEF HasBarrier

\* A queued entry adds its barrier.
LEMMA BarrierAppend ==
    ASSUME BaseType, NEW l \in Lanes, NEW e \in EntryType,
           backlog' = [backlog EXCEPT ![l] = Append(@, e)], cur' = cur,
           NEW s, NEW m \in Lanes
    PROVE  HasBarrier(s, m)' <=>
              HasBarrier(s, m) \/ (m = l /\ e.kind = "barrier" /\ e.op = s)
<1>1. CASE m # l
  <2>1. backlog'[m] = backlog[m]
    BY <1>1 DEF BaseType, LaneType
  <2> QED BY <1>1, <2>1 DEF HasBarrier
<1>2. CASE m = l
  <2> DEFINE q == Append(backlog[l], e)
  <2>1. backlog'[m] = q
    BY <1>2 DEF BaseType, LaneType
  <2>2. backlog[l] \in Seq(EntryType)
    BY DEF BaseType, LaneType
  <2>3. /\ \A i \in DOMAIN q : \/ i \in DOMAIN backlog[l] /\ q[i] = backlog[l][i]
                               \/ q[i] = e
        /\ \A i \in DOMAIN backlog[l] : i \in DOMAIN q /\ q[i] = backlog[l][i]
        /\ \E i \in DOMAIN q : q[i] = e
    <3>1. \A i \in DOMAIN backlog[l] : i \in Nat
      BY <2>2
    <3>2. Len(backlog[l]) + 1 \in Nat
      BY <2>2
    <3>3. \A i \in DOMAIN q : \/ i \in DOMAIN backlog[l] /\ q[i] = backlog[l][i]
                              \/ q[i] = e
      BY <2>2, SeqElements
    <3>4. /\ \A i \in DOMAIN backlog[l] : i \in DOMAIN q /\ q[i] = backlog[l][i]
          /\ Len(backlog[l]) + 1 \in DOMAIN q /\ q[Len(backlog[l]) + 1] = e
      BY <2>2, <3>1, <3>2, SeqAppend
    <3> QED BY <3>3, <3>4
  <2> HIDE DEF q
  <2> QED BY <1>2, <2>1, <2>3 DEF HasBarrier
<1> QED BY <1>1, <1>2

\* A worker keeps the barriers of sections that have not ended, and those that
\* are held stay held.
LEMMA BarrierWorker ==
    ASSUME BaseType, NEW l \in Lanes, WorkerStep(l), NEW s \in Sections,
           wpc[l] \in {"run", "abort"} => cur[l].kind \in {"task", "release"},
           wpc[l] \notin {"run", "abort", "barrier", "held"} => cur[l].kind = "none"
    PROVE  /\ spc[s] # "ended" => HasBarrier(s, l)' <=> HasBarrier(s, l)
           /\ spc[s] # "ended" /\ wpc[l] = "held" /\ cur[l].op = s =>
                 wpc'[l] = "held" /\ cur'[l].op = s
           /\ parked'[s] # parked[s] => ParkBarrier(l)
<1>1. CASE TakeMandatory(l)
  <2>1. /\ wpc[l] = "poll" /\ backlog[l] # <<>>
        /\ backlog' = [backlog EXCEPT ![l] = Tail(@)]
        /\ cur' = [cur EXCEPT ![l] = Head1(l)]
        /\ UNCHANGED parked
    BY <1>1 DEF TakeMandatory, MandatoryReady
  <2>2. cur[l].kind = "none" /\ cur'[l] = Head1(l)
    BY <2>1 DEF BaseType, WorkerType
  <2>3. Head1(l).kind = backlog[l][1].kind /\ Head1(l).op = backlog[l][1].op
    BY <2>1, HeadKeeps
  <2> DEFINE q == Tail(backlog[l])
  <2>4. /\ \A i \in DOMAIN q : i + 1 \in DOMAIN backlog[l] /\ q[i] = backlog[l][i + 1]
        /\ \A i \in DOMAIN backlog[l] : i = 1 \/ \E j \in DOMAIN q : q[j] = backlog[l][i]
        /\ 1 \in DOMAIN backlog[l]
    <3>1. backlog[l] \in Seq(EntryType)
      BY DEF BaseType, LaneType
    <3>2. /\ \A i \in DOMAIN q : i + 1 \in DOMAIN backlog[l] /\ q[i] = backlog[l][i + 1]
          /\ 1 \in DOMAIN backlog[l]
      BY <2>1, <3>1, SeqElements
    <3>3. ASSUME NEW i \in DOMAIN backlog[l], i # 1
          PROVE  \E j \in DOMAIN q : q[j] = backlog[l][i]
      <4>1. i - 1 \in Nat /\ i - 1 # 0 /\ (i - 1) + 1 = i
        BY <3>1, <3>3
      <4>2. i - 1 \in DOMAIN q /\ q[i - 1] = backlog[l][(i - 1) + 1]
        BY <2>1, <3>1, <3>3, <4>1, SeqTail
      <4> HIDE DEF q
      <4> QED BY <4>1, <4>2
    <3> QED BY <3>2, <3>3
  <2>5. backlog'[l] = q
    BY <2>1 DEF BaseType, LaneType
  <2> HIDE DEF q
  <2>6. HasBarrier(s, l)' <=> HasBarrier(s, l)
    BY <2>2, <2>3, <2>4, <2>5 DEF HasBarrier
  <2> QED BY <2>1, <2>6
<1>2. CASE NoMandatory(l)
  <2>1. wpc[l] = "poll" /\ UNCHANGED <<cur, parked>>
    BY <1>2 DEF NoMandatory, sectionVars
  <2>2. /\ DOMAIN backlog'[l] = DOMAIN backlog[l]
        /\ \A i \in DOMAIN backlog[l] :
              /\ backlog'[l][i].kind = backlog[l][i].kind
              /\ backlog'[l][i].op = backlog[l][i].op
    <3>1. CASE backlog' = backlog
      BY <3>1
    <3>2. CASE backlog[l] # <<>> /\ backlog' = [backlog EXCEPT ![l][1] = Head1(l)]
      <4>1. backlog'[l] = [backlog[l] EXCEPT ![1] = Head1(l)]
        BY <3>2 DEF BaseType, LaneType
      <4> QED BY <3>2, <4>1, HeadKeeps DEF BaseType, LaneType
    <3> QED BY <1>2, <3>1, <3>2 DEF NoMandatory
  <2> QED BY <2>1, <2>2 DEF HasBarrier
<1>3. CASE Receive(l) \/ Complete(l)
  <2>1. /\ UNCHANGED <<backlog, parked>> /\ wpc[l] \in {"select", "run", "abort"}
        /\ cur'[l].kind \in {"task", "none"}
    BY <1>3 DEF Receive, Complete, sectionVars, TaskEntry, NoEntry, BaseType,
       WorkerType
  <2>2. cur[l].kind # "barrier"
    BY <2>1
  <2> QED BY <2>1, <2>2 DEF HasBarrier
<1>4. CASE TakeWake(l) \/ SeeFence(l) \/ SeeClosed(l) \/ FinishWorker(l)
  <2>1. UNCHANGED <<backlog, cur, parked>> /\ wpc[l] # "held"
    BY <1>4 DEF TakeWake, SeeFence, SeeClosed, FinishWorker, IdleFrame, sectionVars
  <2> QED BY <2>1 DEF HasBarrier
<1>5. CASE ParkBarrier(l)
  <2>1. UNCHANGED <<backlog, cur>> /\ wpc[l] # "held"
    BY <1>5 DEF ParkBarrier
  <2> QED BY <1>5, <2>1 DEF HasBarrier
<1>6. CASE LeaveBarrier(l)
  <2>1. UNCHANGED <<backlog, parked>> /\ spc[cur[l].op] = "ended"
        /\ cur'[l].kind = "none"
    BY <1>6 DEF LeaveBarrier, sectionVars, NoEntry, BaseType, WorkerType
  <2> QED BY <2>1 DEF HasBarrier
<1> QED BY <1>1, <1>2, <1>3, <1>4, <1>5, <1>6 DEF WorkerStep

\* A section adds its barrier to the lanes it comes to.
LEMMA BarrierSection ==
    ASSUME BaseType, NEW s \in Sections, NEW ls, NEW done, SectionMove(s, ls, done)
    PROVE  \A t \in Sections : \A m \in Lanes :
              HasBarrier(t, m)' <=>
                 HasBarrier(t, m) \/ (t = s /\ PlaceBarrier(s) /\ m \in todo
                                      /\ m \notin todo' /\ TakesMandatory(m))
<1>0. UNCHANGED <<wpc, cur>>
  BY SectionFramed DEF SectionFrame, workerVars
<1>1. CASE UNCHANGED laneVars
  <2>1. ASSUME NEW m \in Lanes, PlaceBarrier(s), m \in todo, m \notin todo',
               TakesMandatory(m)
        PROVE  FALSE
    <3>1. EnqueueMandatory(m, Entry("barrier", s, m, FALSE))
      BY <2>1 DEF PlaceBarrier
    <3>2. backlog[m] = Append(backlog[m], Entry("barrier", s, m, FALSE))
      BY <1>1, <3>1 DEF EnqueueMandatory, laneVars, BaseType, LaneType
    <3>3. backlog[m] \in Seq(EntryType)
      BY DEF BaseType, LaneType
    <3>4. PICK e : e = Entry("barrier", s, m, FALSE)
      OBVIOUS
    <3>5. Len(Append(backlog[m], e)) = Len(backlog[m]) + 1 /\ Len(backlog[m]) \in Nat
      BY <3>3
    <3> QED BY <3>2, <3>4, <3>5
  <2> QED BY <1>0, <1>1, <2>1 DEF HasBarrier, laneVars
<1>2. CASE ~UNCHANGED laneVars
  <2>1. PlaceBarrier(s)
    BY <1>2, SectionLanes
  <2>2. PICK l \in todo : /\ todo' = todo \ {l} /\ TakesMandatory(l)
                          /\ EnqueueMandatory(l, Entry("barrier", s, l, FALSE))
    BY <1>2, <2>1 DEF PlaceBarrier
  <2>3. l \in Lanes
    BY DEF BaseType, SectionType
  <2>4. PICK e \in EntryType : e = Entry("barrier", s, l, FALSE)
    BY <2>3, EntryTyped
  <2>5. e.kind = "barrier" /\ e.op = s
    BY <2>4 DEF Entry
  <2>6. backlog' = [backlog EXCEPT ![l] = Append(@, e)]
    BY <2>2, <2>4 DEF EnqueueMandatory
  <2> QED BY <1>0, <2>1, <2>2, <2>3, <2>5, <2>6, BarrierAppend
<1> QED BY <1>1, <1>2

-----------------------------------------------------------------------------
(* Where a call's work is, step by step.                                    *)

\* Unchanged backlogs keep releases where they are.
LEMMA BacklogSame ==
    ASSUME backlog' = backlog
    PROVE  \A p \in Ops : \A l \in Lanes : \A i \in Nat :
               InBacklog(p, l, i)' <=> InBacklog(p, l, i)
BY DEF InBacklog

\* The places a call passes through by itself.
LEMMA CallPcFacts ==
    /\ {"idle", "route", "lookup", "waitBarrier", "create", "gate", "wait", "fenced",
        "admit", "send", "blocked", "handoff", "hlookup", "hwaitBarrier", "hcreate",
        "hbegin", "hlimit", "nolane", "cleanupHere", "enqueue", "refused",
        "refusedTest", "late", "off", "cleanup"} \subseteq CallPc
    /\ {"end", "endTest", "done", "taken", "takenTest"} \cap CallPc = {}
    /\ \A o : Return(o) \notin CallPc
BY DEF CallPc, PcType, Return

\* The steps of a producer; first is where beginSubmit leads.
LEMMA PlaceProducer ==
    ASSUME BaseType, OnePlace, NEW o \in Ops, NEW first \in CallPc,
           pc[o] \in {"send", "blocked"} => at[o] \in Lanes,
           \/ BeginSubmit(o, first)
           \/ WaitForMandatoryCleanup(o) \/ FenceProgress(o) \/ FenceStopped(o)
           \/ CancelBeforeAdmit(o) \/ AdmitTask(o) \/ SendTask(o)
           \/ SendOnClosed(o) \/ SendBlocks(o)
           \/ EndSubmit(o) \/ EndSubmitTest(o) \/ \E r : AbandonSend(o, r)
    PROVE  OnePlace'
<1>2. CASE FenceStopped(o) \/ CancelBeforeAdmit(o)
  <2>1. /\ Fail(o) /\ pc[o] \in {"fenced", "admit"}
        /\ UNCHANGED <<ch, backlog, cur, deferred>>
    BY <1>2 DEF FenceStopped, CancelBeforeAdmit, ProducerFrame, laneVars,
       workerVars, sectionVars
  <2>2. pc[o] \in CallPc
    BY <2>1, CallPcFacts
  <2> QED BY <2>1, <2>2, BacklogSame, PlaceFail
<1>3. CASE BeginSubmit(o, first) /\ stopped
  <2>1. /\ Fail(o) /\ pc[o] = "idle"
        /\ UNCHANGED <<ch, backlog, cur, deferred>>
    BY <1>3 DEF BeginSubmit, laneVars, workerVars, sectionVars
  <2>2. pc[o] \in CallPc
    BY <2>1, CallPcFacts
  <2> QED BY <2>1, <2>2, BacklogSame, PlaceFail
<1>4. ASSUME NEW r, AbandonSend(o, r)
      PROVE  OnePlace'
  <2>0. PICK l \in Lanes : l = at[o]
    BY <1>4 DEF AbandonSend
  <2>1. /\ Fail(o) /\ pc[o] = "blocked"
        /\ UNCHANGED <<ch, cur, deferred>>
        /\ backlog' = [backlog EXCEPT ![l] = RaiseTargets(@, ticket[o])]
    BY <1>4, <2>0 DEF AbandonSend, UnmarkSent, workerVars, sectionVars
  <2>2. backlog[l] \in Seq(EntryType)
    BY DEF BaseType, LaneType
  <2>3. /\ backlog'[l] = RaiseTargets(backlog[l], ticket[o])
        /\ \A m \in Lanes : m # l => backlog'[m] = backlog[m]
    BY <2>1 DEF BaseType, LaneType
  <2>4. \A p \in Ops : \A m \in Lanes : \A i \in Nat :
           InBacklog(p, m, i)' <=> InBacklog(p, m, i)
    BY <2>2, <2>3, RaiseKeeps DEF InBacklog
  <2>5. pc[o] \in CallPc
    BY <2>1, CallPcFacts
  <2> QED BY <2>1, <2>4, <2>5, PlaceFail
<1>5. CASE SendTask(o)
  <2>0. PICK l \in Lanes : l = at[o]
    BY <1>5 DEF SendTask
  <2>1. /\ pc[o] \in {"send", "blocked"} /\ pc' = [pc EXCEPT ![o] = "end"]
        /\ ch' = [ch EXCEPT ![l] = Append(@, o)]
        /\ UNCHANGED <<backlog, cur, deferred, outcome>>
    BY <1>5, <2>0 DEF SendTask, workerVars, sectionVars
  <2>2. pc[o] \in CallPc
    BY <2>1, CallPcFacts
  <2> QED BY <2>1, <2>2, PlaceSend
<1>6. CASE \/ BeginSubmit(o, first) /\ ~stopped
           \/ WaitForMandatoryCleanup(o) \/ FenceProgress(o) \/ AdmitTask(o)
           \/ SendOnClosed(o) \/ SendBlocks(o) \/ EndSubmit(o) \/ EndSubmitTest(o)
  <2>1. UNCHANGED <<ch, backlog, cur, deferred, outcome>>
    BY <1>6 DEF BeginSubmit, WaitForMandatoryCleanup, FenceProgress, AdmitTask,
       SendOnClosed, SendBlocks, EndSubmit, EndSubmitTest, TestStop,
       ProducerFrame, laneVars, workerVars, sectionVars
  <2>2. \A p \in Ops : \/ pc'[p] = pc[p]
                       \/ pc[p] = "idle" /\ pc'[p] = first
                       \/ pc[p] \in {"wait", "fenced", "admit", "send"}
                          /\ pc'[p] \in {"wait", "fenced", "admit", "send", "blocked"}
                       \/ pc[p] \in {"end", "endTest"} /\ pc'[p] \in {"endTest", "done"}
    BY <1>6 DEF BeginSubmit, WaitForMandatoryCleanup, FenceProgress, AdmitTask,
       SendOnClosed, SendBlocks, EndSubmit, EndSubmitTest, TestStop, LeaveSubmit,
       ProducerFrame, submitVars, BaseType, SubmitType
  <2>3. \A p \in Ops : pc'[p] \in CallPc <=> pc[p] \in CallPc
    BY <2>2, CallPcFacts
  <2> QED BY <2>1, <2>3, PlaceMoves
<1> QED BY <1>2, <1>3, <1>4, <1>5, <1>6

\* The steps of a handoff; n is the lane that a late one finds, and retry is
\* where a refused one goes on.
LEMMA PlaceRelease ==
    ASSUME BaseType, OnePlace, NEW o \in Ops, NEW n \in Lanes \cup {NoLane},
           NEW retry \in CallPc, pc[o] = "enqueue" => at[o] \in Lanes,
           \/ EnqueueCleanup(o) \/ EndHandoff(o, retry) \/ EndHandoffTest(o, retry)
           \/ HandoffLate(o, n) \/ BeginLifecycleCleanup(o) \/ EndLifecycleCleanup(o)
    PROVE  OnePlace'
<1>2. CASE EndHandoff(o, retry) \/ EndHandoffTest(o, retry)
  <2>1. UNCHANGED <<ch, backlog, cur, deferred, outcome>>
    BY <1>2 DEF EndHandoff, EndHandoffTest, TestStop,
       HandoffFrame, laneVars, workerVars, sectionVars
  <2>2. \A p \in Ops : \/ pc'[p] = pc[p]
                       \/ pc[p] \in {"refused", "refusedTest"}
                          /\ pc'[p] \in {retry, "refusedTest"}
                       \/ pc[p] \in {"taken", "takenTest"}
                          /\ pc'[p] \in {"takenTest", "end", "done"}
    BY <1>2 DEF EndHandoff, EndHandoffTest, TestStop, LeaveSubmit,
       Return, BaseType, SubmitType
  <2>3. \A p \in Ops : pc'[p] \in CallPc <=> pc[p] \in CallPc
    BY <2>2, CallPcFacts
  <2> QED BY <2>1, <2>3, PlaceMoves
<1>3. CASE EnqueueCleanup(o) \/ HandoffLate(o, n)
  <2>1. UNCHANGED <<ch, cur, deferred, outcome>> /\ pc[o] \in {"enqueue", "late"}
    BY <1>3 DEF EnqueueCleanup, HandoffLate, HandoffFrame, EnqueueMandatory,
       laneVars, workerVars, sectionVars
  <2>2. ASSUME UNCHANGED laneVars, NEW x \in {"refused", "off"},
               pc' = [pc EXCEPT ![o] = x]
        PROVE  OnePlace'
    <3>2. \A p \in Ops : pc'[p] \in CallPc <=> pc[p] \in CallPc
      BY <2>1, <2>2, CallPcFacts DEF BaseType, SubmitType
    <3> QED BY <2>1, <2>2, <3>2, PlaceMoves DEF laneVars
  <2>3. ASSUME NEW l \in Lanes, NEW w \in BOOLEAN,
               EnqueueMandatory(l, Entry("release", o, l, w)),
               NEW x, x \notin CallPc, pc' = [pc EXCEPT ![o] = x]
        PROVE  OnePlace'
    <3>3. PICK e \in EntryType : e = Entry("release", o, l, w)
      BY EntryTyped
    <3>4. /\ e.kind = "release" /\ e.op = o
          /\ backlog' = [backlog EXCEPT ![l] = Append(@, e)]
      BY <2>3, <3>3 DEF Entry, EnqueueMandatory
    <3>5. pc[o] \in CallPc
      BY <2>1, CallPcFacts
    <3> QED BY <2>1, <2>3, <3>4, <3>5, PlaceEnqueue
  <2>4. CASE EnqueueCleanup(o)
    <3>1. PICK l \in Lanes : l = at[o]
      BY <2>4 DEF EnqueueCleanup
    <3>2. "taken" \notin CallPc
      BY CallPcFacts
    <3>3. \/ /\ EnqueueMandatory(l, Entry("release", o, l, FALSE))
             /\ pc' = [pc EXCEPT ![o] = "taken"]
          \/ UNCHANGED laneVars /\ pc' = [pc EXCEPT ![o] = "refused"]
      BY <2>4, <3>1 DEF EnqueueCleanup
    <3> QED BY <2>2, <2>3, <3>2, <3>3
  <2>5. CASE HandoffLate(o, n)
    <3>1. \/ /\ n # NoLane /\ EnqueueMandatory(n, Entry("release", o, n, TRUE))
             /\ pc' = [pc EXCEPT ![o] = Return(o)]
          \/ UNCHANGED laneVars /\ pc' = [pc EXCEPT ![o] = "off"]
      BY <2>5 DEF HandoffLate
    <3> QED BY <2>2, <2>3, <3>1, CallPcFacts
  <2> QED BY <1>3, <2>4, <2>5
<1>4. CASE BeginLifecycleCleanup(o)
  <2>1. UNCHANGED <<ch, backlog, cur, outcome>> /\ pc[o] = "off"
    BY <1>4 DEF BeginLifecycleCleanup, HandoffFrame, laneVars, workerVars
  <2>2. pc[o] \in CallPc /\ "cleanup" \in CallPc
    BY <2>1, CallPcFacts
  <2>3. CASE ~sealed /\ active # NoSection
    <3>1. deferred' = Append(deferred, o) /\ pc' = [pc EXCEPT ![o] = Return(o)]
      BY <1>4, <2>3 DEF BeginLifecycleCleanup
    <3> QED BY <2>1, <2>2, <3>1, CallPcFacts, PlacePostpone
  <2>4. CASE ~(~sealed /\ active # NoSection)
    <3>1. deferred' = deferred /\ pc' = [pc EXCEPT ![o] = "cleanup"]
      BY <1>4, <2>4 DEF BeginLifecycleCleanup
    <3>2. \A p \in Ops : pc'[p] \in CallPc <=> pc[p] \in CallPc
      BY <2>2, <3>1 DEF BaseType, SubmitType
    <3> QED BY <2>1, <3>1, <3>2, PlaceMoves
  <2> QED BY <2>3, <2>4
<1>5. CASE EndLifecycleCleanup(o)
  <2>1. /\ UNCHANGED <<ch, backlog, cur, deferred>> /\ pc[o] = "cleanup"
        /\ pc' = [pc EXCEPT ![o] = Return(o)]
        /\ outcome' = [outcome EXCEPT ![o] = Append(@, "failed")]
    BY <1>5 DEF EndLifecycleCleanup, Resolve, HandoffFrame, laneVars, workerVars,
       sectionVars
  <2>2. pc[o] \in CallPc
    BY <2>1, CallPcFacts
  <2> QED BY <2>1, <2>2, CallPcFacts, BacklogSame, PlaceResolve
<1> QED BY <1>2, <1>3, <1>4, <1>5

\* The steps of a worker whose hand fits where it is.
LEMMA PlaceWorker ==
    ASSUME BaseType, OnePlace, NEW l \in Lanes, WorkerStep(l),
           wpc[l] \in {"poll", "select"} => cur[l].kind = "none",
           wpc[l] \in {"run", "abort"} =>
               cur[l].kind \in {"task", "release"} /\ cur[l].op \in Ops,
           wpc[l] \in {"barrier", "held"} => cur[l].kind = "barrier",
           \A i \in DOMAIN backlog[l] : backlog[l][i].kind \in {"release", "barrier"}
    PROVE  OnePlace'
<1>1. UNCHANGED <<pc, deferred>>
  BY DEF WorkerStep, TakeMandatory, NoMandatory, Receive, Complete,
     TakeWake, SeeFence, SeeClosed, FinishWorker, ParkBarrier, LeaveBarrier,
     IdleFrame, WorkerFrame, sectionVars, submitVars
<1>3. CASE TakeMandatory(l)
  <2>1. /\ wpc[l] = "poll" /\ backlog[l] # <<>>
        /\ backlog' = [backlog EXCEPT ![l] = Tail(@)]
        /\ cur' = [cur EXCEPT ![l] = Head1(l)]
        /\ UNCHANGED <<ch, outcome>>
    BY <1>3 DEF TakeMandatory, MandatoryReady
  <2>2. backlog[l][1].kind \in {"release", "barrier"}
    BY <2>1, HeadKeeps
  <2> QED BY <1>1, <2>1, <2>2, PlaceTake
<1>4. CASE NoMandatory(l)
  <2>1. UNCHANGED <<ch, cur, outcome>>
    BY <1>4 DEF NoMandatory
  <2>2. \A p \in Ops : \A m \in Lanes : \A i \in Nat :
           InBacklog(p, m, i)' <=> InBacklog(p, m, i)
    <3>1. CASE backlog' = backlog
      BY <3>1, BacklogSame
    <3>2. CASE backlog[l] # <<>> /\ backlog' = [backlog EXCEPT ![l][1] = Head1(l)]
      <4>1. /\ backlog'[l] = [backlog[l] EXCEPT ![1] = Head1(l)]
            /\ \A m \in Lanes : m # l => backlog'[m] = backlog[m]
        BY <3>2 DEF BaseType, LaneType
      <4>2. /\ DOMAIN backlog'[l] = DOMAIN backlog[l]
            /\ \A i \in DOMAIN backlog[l] :
                  /\ backlog'[l][i].kind = backlog[l][i].kind
                  /\ backlog'[l][i].op = backlog[l][i].op
        BY <3>2, <4>1, HeadKeeps DEF BaseType, LaneType
      <4> QED BY <4>1, <4>2 DEF InBacklog
    <3> QED BY <1>4, <3>1, <3>2 DEF NoMandatory
  <2>3. \A p \in Ops : \A m \in Lanes : InHand(p, m)' <=> InHand(p, m)
    BY <2>1 DEF InHand
  <2> QED BY <1>1, <2>1, <2>2, <2>3, PlaceKept
<1>5. CASE Receive(l)
  <2>1. /\ wpc[l] = "select" /\ ch[l] # <<>>
        /\ ch' = [ch EXCEPT ![l] = Tail(@)]
        /\ cur' = [cur EXCEPT ![l] = TaskEntry(Head(ch[l]))]
        /\ UNCHANGED <<backlog, outcome>>
    BY <1>5 DEF Receive
  <2> QED BY <1>1, <2>1, PlaceReceive
<1>6. CASE Complete(l)
  <2>1. /\ wpc[l] \in {"run", "abort"}
        /\ cur' = [cur EXCEPT ![l] = NoEntry]
        /\ UNCHANGED <<ch, backlog>>
    BY <1>6 DEF Complete
  <2>2. PICK how : outcome' = [outcome EXCEPT ![cur[l].op] = Append(@, how)]
    BY <1>6 DEF Complete, Resolve
  <2> QED BY <1>1, <2>1, <2>2, PlaceComplete
<1>7. CASE LeaveBarrier(l)
  <2>1. /\ wpc[l] \in {"barrier", "held"}
        /\ cur' = [cur EXCEPT ![l] = NoEntry]
        /\ UNCHANGED <<ch, backlog, outcome>>
    BY <1>7 DEF LeaveBarrier
  <2>3. \A p \in Ops : \A m \in Lanes : InHand(p, m)' <=> InHand(p, m)
    BY <2>1 DEF InHand, NoEntry, BaseType, WorkerType
  <2> QED BY <1>1, <2>1, <2>3, BacklogSame, PlaceKept
<1>8. CASE TakeWake(l) \/ SeeFence(l) \/ SeeClosed(l) \/ FinishWorker(l) \/ ParkBarrier(l)
  <2>1. UNCHANGED <<ch, backlog, cur, outcome>>
    BY <1>8 DEF TakeWake, SeeFence, SeeClosed, FinishWorker, ParkBarrier, IdleFrame
  <2> QED BY <1>1, <2>1, PlaceMoves
<1> QED BY <1>3, <1>4, <1>5, <1>6, <1>7, <1>8 DEF WorkerStep

\* The steps of an Exclusive call.
LEMMA PlaceExclusive ==
    ASSUME BaseType, Turn, OnePlace, NEW s \in Sections, NEW ls, NEW done,
           SectionMove(s, ls, done)
    PROVE  OnePlace'
<1>1. UNCHANGED <<pc, cur>>
  BY SectionFramed DEF SectionFrame, submitVars, workerVars
<1>2. CASE EndDeferred(s)
  <2>1. /\ spc[s] = "releasing"
        /\ outcome' = [outcome EXCEPT ![Head(deferred)] = Append(@, "failed")]
        /\ deferred' = Tail(deferred)
        /\ UNCHANGED <<ch, backlog>>
    BY <1>2 DEF EndDeferred, Resolve, laneVars
  <2>2. deferred # <<>>
    BY <2>1 DEF Turn
  <2> QED BY <1>1, <2>1, <2>2, PlaceEndDeferred
<1>3. ASSUME NEW l \in Lanes, EnqueueMandatory(l, Entry("barrier", s, l, FALSE)),
             UNCHANGED <<deferred, outcome>>
      PROVE  OnePlace'
  <2>1. PICK e \in EntryType : e = Entry("barrier", s, l, FALSE)
    BY EntryTyped
  <2>2. e.kind = "barrier"
    BY <2>1 DEF Entry
  <2> QED BY <1>1, <1>3, <2>1, <2>2, PlaceBarrierEntry DEF EnqueueMandatory
<1>4. CASE ~EndDeferred(s)
  <2>1. UNCHANGED <<deferred, outcome>>
    BY <1>4 DEF SectionMove, TakeTurn, SectionStep, SectionFails,
       InstallExclusive, AwaitRunning, BeginSection, PlaceBarrier, CollectDone,
       StartFn, EndFn, WithdrawExclusive, ReleaseLanes, SectionMoves
  <2>2. CASE UNCHANGED laneVars
    BY <1>1, <2>1, <2>2, PlaceMoves DEF laneVars
  <2>3. CASE ~UNCHANGED laneVars
    <3>1. PlaceBarrier(s)
      BY <2>3, SectionLanes
    <3>2. PICK l \in todo : EnqueueMandatory(l, Entry("barrier", s, l, FALSE))
      BY <2>3, <3>1 DEF PlaceBarrier
    <3>3. l \in Lanes
      BY DEF BaseType, SectionType
    <3> QED BY <1>3, <2>1, <3>2, <3>3
  <2> QED BY <2>2, <2>3
<1> QED BY <1>2, <1>4

=============================================================================
