---------------------------- MODULE FenceProofs ----------------------------
(***************************************************************************)
(* The two fences of the lanes, for any strategy built on them.             *)
(*                                                                         *)
(* The submit fence: the count of producers in flight is the number of      *)
(* registrations (Registrations), so unless the fence is closed early no    *)
(* producer is in flight behind it, the admissions and settlements of a     *)
(* lane stand still, and a release that takes its cutoff there comes after  *)
(* every task.                                                             *)
(*                                                                         *)
(* The fence of queued releases: a release that was queued for a key when a *)
(* call began has left the backlog when the call passes it, since the       *)
(* releases that let a call pass were queued after the stop signal, behind  *)
(* it; and the lane that takes the call's task has nothing else in hand.    *)
(***************************************************************************)
EXTENDS LifecycleProofs, WellFoundedInduction

-----------------------------------------------------------------------------
(* Registrations.                                                           *)

\* The calls registered for a handoff by scheduleSubmitFailureCleanup.
HandPc == {"enqueue", "nolane", "cleanupHere", "taken", "refused"}
Handing == {o \in Ops : pc[o] \in HandPc}

\* The calls registered by beginSubmit for their submit.
QueuePc == {"route", "lookup", "waitBarrier", "create", "gate", "wait", "fenced",
            "admit", "send", "blocked", "end"}
Registered == {o \in Ops : reg[o]}

\* inFlightSubmits counts the registrations; a call that may send is registered
\* and one that has not begun is not.
Registrations ==
    /\ inFlight = Cardinality(Registered) + Cardinality(Handing)
    /\ \A o \in Ops :
          /\ pc[o] = "idle" => ~reg[o]
          /\ pc[o] \in QueuePc => reg[o]

\* Registrations are finitely many.
LEMMA RegFinite ==
    /\ IsFiniteSet(Registered) /\ Cardinality(Registered) \in Nat
    /\ IsFiniteSet(Handing) /\ Cardinality(Handing) \in Nat
<1>1. Registered \subseteq Ops /\ Handing \subseteq Ops
  BY DEF Registered, Handing
<1> QED BY <1>1, ConstantsAssumption, FS_Subset, FS_CardinalityType
        DEF ConstantsAssumption

\* No call has begun.
LEMMA RegNone ==
    ASSUME \A o \in Ops : pc[o] = "idle" /\ ~reg[o], inFlight = 0
    PROVE  Registrations
<1>1. Registered = {} /\ Handing = {}
  BY DEF Registered, Handing, HandPc
<1> QED BY <1>1, FS_EmptySet DEF Registrations, QueuePc

\* A call that moves and keeps its registrations.
LEMMA RegKept ==
    ASSUME BaseType, Registrations, NEW o \in Ops, NEW x,
           pc' = [pc EXCEPT ![o] = x], UNCHANGED <<reg, inFlight>>,
           x # "idle", x \in HandPc <=> pc[o] \in HandPc, x \in QueuePc => reg[o]
    PROVE  Registrations'
<1>1. Registered' = Registered /\ Handing' = Handing
  BY DEF Registered, Handing, BaseType, SubmitType
<1> QED BY <1>1 DEF Registrations, BaseType, SubmitType

\* A step of somebody else.
LEMMA RegSame ==
    ASSUME Registrations, UNCHANGED <<pc, reg, inFlight>>
    PROVE  Registrations'
BY DEF Registrations, Registered, Handing

\* A failed attempt keeps them too.
LEMMA RegFail ==
    ASSUME BaseType, Registrations, NEW o \in Ops, Fail(o),
           UNCHANGED <<reg, inFlight>>, pc[o] \notin HandPc
    PROVE  Registrations'
<1>1. PICK x \in {"handoff", "end", "done"} :
         pc' = [pc EXCEPT ![o] = x] /\ (x = "end" => reg[o])
  BY DEF Fail, Return
<1> QED BY <1>1, RegKept DEF HandPc, QueuePc

\* beginSubmit of a submit call, which goes on at first.
LEMMA RegBegin ==
    ASSUME BaseType, Registrations, NEW o \in Ops, NEW first \in QueuePc,
           BeginSubmit(o, first)
    PROVE  Registrations'
<1>1. pc[o] = "idle" /\ ~reg[o]
  BY DEF BeginSubmit, Registrations
<1>2. CASE stopped
  BY <1>1, <1>2, RegFail DEF BeginSubmit, HandPc
<1>3. CASE ~stopped
  <2>1. /\ inFlight' = inFlight + 1
        /\ reg' = [reg EXCEPT ![o] = TRUE]
        /\ pc' = [pc EXCEPT ![o] = first]
    BY <1>3 DEF BeginSubmit
  <2>2. /\ o \notin Registered /\ Registered' = Registered \cup {o}
        /\ Handing' = Handing
    BY <1>1, <2>1 DEF Registered, Handing, HandPc, QueuePc, BaseType, SubmitType
  <2>3. Cardinality(Registered') = Cardinality(Registered) + 1
    BY <2>2, RegFinite, FS_AddElement
  <2>4. inFlight' = Cardinality(Registered') + Cardinality(Handing')
    BY <2>1, <2>2, <2>3, RegFinite DEF Registrations
  <2> QED BY <2>1, <2>4 DEF Registrations, BaseType, SubmitType, QueuePc
<1> QED BY <1>2, <1>3

\* endSubmit of a submit call.
LEMMA RegEnd ==
    ASSUME BaseType, Registrations, NEW o \in Ops, EndSubmit(o)
    PROVE  Registrations'
<1>1. PICK x \in {"endTest", "done"} : pc' = [pc EXCEPT ![o] = x]
  BY DEF EndSubmit, LeaveSubmit
<1>2. /\ inFlight' = inFlight - 1
      /\ reg' = [reg EXCEPT ![o] = FALSE]
      /\ pc[o] = "end" /\ reg[o]
  BY DEF EndSubmit, LeaveSubmit, Registrations, QueuePc
<1>3. /\ o \in Registered /\ Registered' = Registered \ {o}
      /\ Handing' = Handing
  BY <1>1, <1>2 DEF Registered, Handing, HandPc, BaseType, SubmitType
<1>4. Cardinality(Registered') = Cardinality(Registered) - 1
  BY <1>3, RegFinite, FS_RemoveElement
<1>5. inFlight' = Cardinality(Registered') + Cardinality(Handing')
  BY <1>2, <1>3, <1>4, RegFinite DEF Registrations
<1> QED BY <1>1, <1>2, <1>5 DEF Registrations, BaseType, SubmitType, QueuePc

\* beginSubmit of a handoff, which goes on at x.
LEMMA RegHand ==
    ASSUME BaseType, Registrations, NEW o \in Ops, NEW x \in HandPc,
           pc[o] \notin HandPc, pc' = [pc EXCEPT ![o] = x],
           inFlight' = inFlight + 1, reg' = reg
    PROVE  Registrations'
<1>1. /\ o \notin Handing /\ Handing' = Handing \cup {o}
      /\ Registered' = Registered
  BY DEF Registered, Handing, BaseType, SubmitType
<1>2. Cardinality(Handing') = Cardinality(Handing) + 1
  BY <1>1, RegFinite, FS_AddElement
<1>3. inFlight' = Cardinality(Registered') + Cardinality(Handing')
  BY <1>1, <1>2, RegFinite DEF Registrations
<1> QED BY <1>3 DEF Registrations, BaseType, SubmitType, QueuePc, HandPc

\* endSubmit of a handoff; a refused one goes on at retry.
LEMMA RegEndHandoff ==
    ASSUME BaseType, Registrations, NEW o \in Ops, NEW retry \in {"late", "handoff"},
           EndHandoff(o, retry)
    PROVE  Registrations'
<1>1. PICK x \in {"takenTest", "refusedTest", "late", "handoff", "end", "done"} :
         pc' = [pc EXCEPT ![o] = x] /\ (x = "end" => reg[o])
  BY DEF EndHandoff, LeaveSubmit, Return
<1>2. /\ inFlight' = inFlight - 1
      /\ UNCHANGED reg
      /\ pc[o] \in {"taken", "refused"}
  BY DEF EndHandoff, LeaveSubmit, HandoffFrame
<1>3. /\ o \in Handing /\ Handing' = Handing \ {o}
      /\ Registered' = Registered
  BY <1>1, <1>2 DEF Registered, Handing, HandPc, BaseType, SubmitType
<1>4. Cardinality(Handing') = Cardinality(Handing) - 1
  BY <1>3, RegFinite, FS_RemoveElement
<1>5. inFlight' = Cardinality(Registered') + Cardinality(Handing')
  BY <1>2, <1>3, <1>4, RegFinite DEF Registrations
<1> QED BY <1>1, <1>2, <1>5 DEF Registrations, BaseType, SubmitType, QueuePc

\* The steps of a producer; first is where beginSubmit leads.
LEMMA RegProducer ==
    ASSUME BaseType, Registrations, NEW o \in Ops, NEW first \in QueuePc,
           \/ BeginSubmit(o, first)
           \/ WaitForMandatoryCleanup(o) \/ FenceProgress(o) \/ FenceStopped(o)
           \/ CancelBeforeAdmit(o) \/ AdmitTask(o) \/ SendTask(o)
           \/ SendOnClosed(o) \/ SendBlocks(o)
           \/ EndSubmit(o) \/ EndSubmitTest(o) \/ \E r : AbandonSend(o, r)
    PROVE  Registrations'
<1>1. CASE \/ WaitForMandatoryCleanup(o) \/ FenceProgress(o) \/ SendBlocks(o)
           \/ AdmitTask(o) \/ SendTask(o)
  <2>1. PICK x \in {"admit", "fenced", "wait", "blocked", "send", "end"} :
           /\ pc' = [pc EXCEPT ![o] = x]
           /\ pc[o] \in QueuePc
    BY <1>1 DEF WaitForMandatoryCleanup, FenceProgress, SendBlocks, AdmitTask, SendTask,
       QueuePc
  <2>2. UNCHANGED <<reg, inFlight>> /\ reg[o]
    BY <1>1, <2>1 DEF WaitForMandatoryCleanup, FenceProgress, SendBlocks, AdmitTask,
       SendTask, ProducerFrame, stopVars, Registrations
  <2> QED BY <2>1, <2>2, RegKept DEF HandPc, QueuePc
<1>2. CASE FenceStopped(o) \/ CancelBeforeAdmit(o) \/ \E r : AbandonSend(o, r)
  <2>1. /\ Fail(o) /\ UNCHANGED <<reg, inFlight>>
        /\ pc[o] \in {"fenced", "admit", "blocked"}
    BY <1>2 DEF FenceStopped, CancelBeforeAdmit, AbandonSend, ProducerFrame, stopVars
  <2> QED BY <2>1, RegFail DEF HandPc
<1>3. CASE SendOnClosed(o)
  BY <1>3, RegSame DEF SendOnClosed, submitVars, stopVars
<1>4. CASE EndSubmitTest(o)
  BY <1>4, RegKept DEF EndSubmitTest, TestStop, HandPc, QueuePc
<1> QED BY <1>1, <1>2, <1>3, <1>4, RegBegin, RegEnd

\* The steps of a handoff; n is the lane that a late one finds, and retry is
\* where a refused one goes on.
LEMMA RegRelease ==
    ASSUME BaseType, Registrations, NEW o \in Ops, NEW n,
           NEW retry \in {"late", "handoff"},
           \/ EnqueueCleanup(o) \/ EndHandoff(o, retry) \/ EndHandoffTest(o, retry)
           \/ HandoffLate(o, n) \/ BeginLifecycleCleanup(o) \/ EndLifecycleCleanup(o)
    PROVE  Registrations'
<1>1. CASE EnqueueCleanup(o)
  <2>1. PICK x \in {"taken", "refused"} : pc' = [pc EXCEPT ![o] = x]
    BY <1>1 DEF EnqueueCleanup
  <2>2. pc[o] = "enqueue" /\ UNCHANGED <<reg, inFlight>>
    BY <1>1 DEF EnqueueCleanup, HandoffFrame
  <2> QED BY <2>1, <2>2, RegKept DEF HandPc, QueuePc
<1>2. CASE \/ EndHandoffTest(o, retry) \/ HandoffLate(o, n)
           \/ BeginLifecycleCleanup(o) \/ EndLifecycleCleanup(o)
  <2>1. PICK x \in {"late", "handoff", "off", "cleanup", "end", "done"} :
           pc' = [pc EXCEPT ![o] = x] /\ (x = "end" => reg[o])
    BY <1>2 DEF EndHandoffTest, TestStop, HandoffLate, BeginLifecycleCleanup,
       EndLifecycleCleanup, Return
  <2>2. /\ pc[o] \in {"takenTest", "refusedTest", "late", "off", "cleanup"}
        /\ UNCHANGED <<reg, inFlight>>
    BY <1>2 DEF EndHandoffTest, TestStop, HandoffLate, BeginLifecycleCleanup,
       EndLifecycleCleanup, HandoffFrame
  <2> QED BY <2>1, <2>2, RegKept DEF HandPc, QueuePc
<1> QED BY <1>1, <1>2, RegEndHandoff

\* With no producer in flight no call is registered.
LEMMA NoProducer ==
    ASSUME Registrations, inFlight = 0, NEW o \in Ops
    PROVE  pc[o] \notin QueuePc /\ pc[o] \notin HandPc /\ ~reg[o]
<1>1. Cardinality(Registered) = 0 /\ Cardinality(Handing) = 0
  BY RegFinite DEF Registrations
<1>2. Registered = {} /\ Handing = {}
  BY <1>1, RegFinite, FS_EmptySet
<1> QED BY <1>2 DEF Registered, Handing, Registrations

-----------------------------------------------------------------------------
(* The submit fence.                                                        *)

\* The submit fence is closed after the stop signal and, unless it was closed
\* early, with no producer in flight; and a send meets a closed channel only if
\* it was.
FenceInv ==
    /\ fence => stopped
    /\ fence /\ ~early => inFlight = 0
    /\ crashed => early

\* An entry queued after the stop signal keeps waitSubmitFence until the fence,
\* and its target then covers all that was admitted.
LateEntry(e, adm) ==
    /\ e.wsf => e.late
    /\ e.late => stopped /\ (e.wsf \/ fence)
    /\ e.late /\ ~e.wsf /\ ~early => e.target >= adm

\* The accepted tasks are in the channel, in hand or handled.
Counted(l) ==
    accepted[l] - handled[l] = Len(ch[l]) + (IF cur[l].kind = "task" THEN 1 ELSE 0)

LateInv ==
    \A l \in Lanes :
        /\ Counted(l)
        /\ \A i \in DOMAIN backlog[l] : LateEntry(backlog[l][i], admitted[l])
        /\ cur[l].late => fence /\ (early \/ ch[l] = <<>>)

\* A registered call meets a closed fence only if it was closed early.
LEMMA Producing ==
    ASSUME Registrations, FenceInv, NEW o \in Ops, pc[o] \in QueuePc \cup HandPc
    PROVE  fence => early
BY NoProducer DEF FenceInv

\* The flags of a stop stay, and the fence is closed as FenceInv says.
FenceMoves ==
    /\ stopped => stopped'
    /\ fence => fence'
    /\ early => early'
    /\ FenceInv'

\* A step that neither registers a producer nor closes the fence.
LEMMA FenceSame ==
    ASSUME FenceInv, UNCHANGED <<stopVars, crashed, early>>
    PROVE  FenceMoves
BY DEF FenceMoves, FenceInv, stopVars

\* A step that registers a producer before the stop signal.
LEMMA FenceEnters ==
    ASSUME FenceInv, UNCHANGED <<stopped, fence, crashed, early>>,
           stopped => inFlight' = inFlight
    PROVE  FenceMoves
BY DEF FenceMoves, FenceInv

\* The steps of a producer; first is where beginSubmit leads.
LEMMA FenceProducer ==
    ASSUME BaseType, Registrations, FenceInv, NEW o \in Ops, NEW first,
           pc[o] \in {"send", "blocked"} /\ closed[at[o]] => fence,
           \/ BeginSubmit(o, first)
           \/ WaitForMandatoryCleanup(o) \/ FenceProgress(o) \/ FenceStopped(o)
           \/ CancelBeforeAdmit(o) \/ AdmitTask(o) \/ SendTask(o)
           \/ SendOnClosed(o) \/ SendBlocks(o)
           \/ EndSubmit(o) \/ EndSubmitTest(o) \/ \E r : AbandonSend(o, r)
    PROVE  FenceMoves
<1> USE DEF FenceMoves
<1>1. fence \in BOOLEAN /\ early \in BOOLEAN /\ stopped \in BOOLEAN
  BY DEF BaseType, StopType, HistoryType
<1>2. CASE BeginSubmit(o, first)
  BY <1>2, FenceEnters DEF BeginSubmit
<1>3. CASE EndSubmit(o)
  <2>1. /\ pc[o] \in QueuePc
        /\ UNCHANGED <<stopped, fence, crashed, early>>
    BY <1>3 DEF EndSubmit, LeaveSubmit, historyVars, QueuePc
  <2>2. fence => early
    BY <2>1, Producing
  <2> QED BY <2>1, <2>2 DEF FenceInv
<1>4. CASE EndSubmitTest(o)
  <2>1. /\ fence' = (fence \/ stopped)
        /\ early' = (early \/ (stopped /\ ~fence /\ inFlight # 0))
        /\ UNCHANGED <<stopped, inFlight, crashed>>
    BY <1>4 DEF EndSubmitTest, TestStop
  <2> QED BY <1>1, <2>1 DEF FenceInv
<1>5. CASE SendOnClosed(o)
  <2>1. /\ pc[o] \in QueuePc /\ fence
        /\ UNCHANGED <<stopVars, early>>
    BY <1>5 DEF SendOnClosed, ChannelClosed, historyVars, QueuePc
  <2>2. early
    BY <2>1, Producing
  <2> QED BY <2>1, <2>2 DEF FenceInv, stopVars
<1>6. CASE \/ WaitForMandatoryCleanup(o) \/ FenceProgress(o) \/ FenceStopped(o)
           \/ CancelBeforeAdmit(o) \/ AdmitTask(o) \/ SendTask(o)
           \/ SendBlocks(o) \/ \E r : AbandonSend(o, r)
  <2>1. UNCHANGED <<stopVars, crashed, early>>
    BY <1>6 DEF WaitForMandatoryCleanup, FenceProgress, FenceStopped, AdmitTask,
       SendTask, SendBlocks, AbandonSend, CancelBeforeAdmit, ProducerFrame,
       stopVars, historyVars
  <2> QED BY <2>1, FenceSame
<1> QED BY <1>2, <1>3, <1>4, <1>5, <1>6

\* The steps of a handoff; n is the lane that a late one finds, and retry is
\* where a refused one goes on.
LEMMA FenceRelease ==
    ASSUME BaseType, Registrations, FenceInv, NEW o \in Ops, NEW n, NEW retry,
           \/ EnqueueCleanup(o) \/ EndHandoff(o, retry) \/ EndHandoffTest(o, retry)
           \/ HandoffLate(o, n) \/ BeginLifecycleCleanup(o) \/ EndLifecycleCleanup(o)
    PROVE  FenceMoves
<1> USE DEF FenceMoves
<1>1. fence \in BOOLEAN /\ early \in BOOLEAN /\ stopped \in BOOLEAN
  BY DEF BaseType, StopType, HistoryType
<1>2. CASE EndHandoff(o, retry)
  <2>1. /\ pc[o] \in HandPc
        /\ UNCHANGED <<stopped, fence, crashed, early>>
    BY <1>2 DEF EndHandoff, LeaveSubmit, HandoffFrame, historyVars, HandPc
  <2>2. fence => early
    BY <2>1, Producing
  <2> QED BY <2>1, <2>2 DEF FenceInv
<1>3. CASE EndHandoffTest(o, retry)
  <2>1. /\ fence' = (fence \/ stopped)
        /\ early' = (early \/ (stopped /\ ~fence /\ inFlight # 0))
        /\ UNCHANGED <<stopped, inFlight, crashed>>
    BY <1>3 DEF EndHandoffTest, TestStop
  <2> QED BY <1>1, <2>1 DEF FenceInv
<1>4. CASE \/ EnqueueCleanup(o) \/ HandoffLate(o, n)
           \/ BeginLifecycleCleanup(o) \/ EndLifecycleCleanup(o)
  <2>1. UNCHANGED <<stopVars, crashed, early>>
    BY <1>4 DEF EnqueueCleanup, HandoffLate, BeginLifecycleCleanup,
       EndLifecycleCleanup, HandoffFrame, stopVars, historyVars
  <2> QED BY <2>1, FenceSame
<1> QED BY <1>2, <1>3, <1>4

\* A stop call: signalStopOnce closes the fence itself when no producer is in
\* flight.
LEMMA FenceStop ==
    ASSUME BaseType, FenceInv, UNCHANGED <<inFlight, crashed, early>>,
           \/ UNCHANGED <<stopped, fence>>
           \/ stopped' = TRUE /\ fence' = (fence \/ (~stopped /\ inFlight = 0))
    PROVE  FenceMoves
<1>1. fence \in BOOLEAN /\ stopped \in BOOLEAN
  BY DEF BaseType, StopType
<1> QED BY <1>1 DEF FenceMoves, FenceInv

-----------------------------------------------------------------------------
(* Late releases.                                                           *)

\* What the worker of lane l has in hand fits where it is, and only releases
\* and barriers are queued.
Handling(l) ==
    /\ wpc[l] \in {"poll", "select"} => cur[l].kind = "none"
    /\ wpc[l] \in {"run", "abort"} =>
          cur[l].kind \in {"task", "release"} /\ cur[l].op \in Ops
    /\ wpc[l] \in {"barrier", "held"} => cur[l].kind = "barrier"
    /\ \A i \in DOMAIN backlog[l] : backlog[l][i].kind \in {"release", "barrier"}

\* A step that leaves the queues alone.
LEMMA LateKept ==
    ASSUME LateInv, FenceMoves,
           UNCHANGED <<ch, backlog, cur, admitted, accepted, handled>>
    PROVE  LateInv'
<1>1. ASSUME NEW l \in Lanes, NEW i \in DOMAIN backlog[l]
      PROVE  LateEntry(backlog[l][i], admitted[l])'
  BY <1>1 DEF LateInv, LateEntry, FenceMoves
<1>2. \A l \in Lanes : Counted(l)'
  BY DEF LateInv, Counted
<1>3. \A l \in Lanes : cur'[l].late => fence' /\ (early' \/ ch'[l] = <<>>)
  BY DEF LateInv, FenceMoves
<1> QED BY <1>1, <1>2, <1>3 DEF LateInv

\* The steps of sendToQueue that change the lane.
LEMMA LateSend ==
    ASSUME BaseType, Registrations, FenceInv, LateInv, FenceMoves, NEW o \in Ops,
           at[o] \in Lanes,
           AdmitTask(o) \/ SendTask(o) \/ \E r : AbandonSend(o, r)
    PROVE  LateInv'
<1>1. PICK l \in Lanes : l = at[o]
  OBVIOUS
<1>2. pc[o] \in QueuePc \cup HandPc /\ UNCHANGED <<cur, handled>>
  BY DEF AdmitTask, SendTask, AbandonSend, QueuePc, workerVars, historyVars
<1>3. fence => early
  BY <1>2, Producing
<1>4. \A m \in Lanes : cur'[m].late => fence' /\ (early' \/ ch'[m] = <<>>)
  BY <1>2, <1>3 DEF LateInv, FenceMoves
<1>5. \A m \in Lanes :
         /\ DOMAIN backlog'[m] = DOMAIN backlog[m]
         /\ \A i \in DOMAIN backlog[m] : /\ backlog'[m][i].wsf = backlog[m][i].wsf
                                         /\ backlog'[m][i].late = backlog[m][i].late
  <2>1. CASE backlog' = backlog
    BY <2>1
  <2>2. CASE backlog' = [backlog EXCEPT ![l] = RaiseTargets(@, ticket[o])]
    <3>1. backlog[l] \in Seq(EntryType)
      BY DEF BaseType, LaneType
    <3>2. /\ backlog'[l] = RaiseTargets(backlog[l], ticket[o])
          /\ \A m \in Lanes : m # l => backlog'[m] = backlog[m]
      BY <2>2 DEF BaseType, LaneType
    <3> QED BY <3>1, <3>2, RaiseKeeps
  <2> QED BY <1>1, <2>1, <2>2 DEF AdmitTask, SendTask, AbandonSend, UnmarkSent
<1>6. ASSUME NEW m \in Lanes, NEW i \in DOMAIN backlog[m]
      PROVE  LateEntry(backlog[m][i], admitted[m])'
  BY <1>3, <1>5, <1>6 DEF LateInv, LateEntry, FenceMoves
<1>7. ASSUME NEW m \in Lanes PROVE Counted(m)'
  <2>1. CASE UNCHANGED <<ch, accepted>>
    BY <1>2, <2>1 DEF LateInv, Counted
  <2>2. CASE SendTask(o)
    <3>1. /\ ch' = [ch EXCEPT ![l] = Append(@, o)]
          /\ accepted' = [accepted EXCEPT ![l] = @ + 1]
      BY <1>1, <2>2 DEF SendTask
    <3>2. CASE m # l
      BY <1>2, <3>1, <3>2 DEF LateInv, Counted, BaseType, LaneType, HistoryType
    <3>3. CASE m = l
      <4>1. ch'[l] = Append(ch[l], o) /\ accepted'[l] = accepted[l] + 1
        BY <3>1 DEF BaseType, LaneType, HistoryType
      <4>2. ch[l] \in Seq(Ops) /\ accepted[l] \in Nat /\ handled[l] \in Nat
        BY DEF BaseType, LaneType, HistoryType
      <4>3. Len(Append(ch[l], o)) = Len(ch[l]) + 1 /\ Len(ch[l]) \in Nat
        BY <4>2
      <4>4. PICK n \in {0, 1} : n = IF cur[l].kind = "task" THEN 1 ELSE 0
        OBVIOUS
      <4>5. accepted[l] - handled[l] = Len(ch[l]) + n
        BY <4>4 DEF LateInv, Counted
      <4>6. accepted'[l] - handled[l] = Len(ch'[l]) + n
        <5>1. \A a, h, c \in Int : a - h = c + n => (a + 1) - h = (c + 1) + n
          OBVIOUS
        <5>2. Len(ch'[l]) = Len(ch[l]) + 1
          BY <4>1, <4>3
        <5> QED BY <4>1, <4>2, <4>3, <4>5, <5>1, <5>2
      <4> QED BY <1>2, <3>3, <4>4, <4>6 DEF Counted
    <3> QED BY <3>2, <3>3
  <2> QED BY <2>1, <2>2 DEF AdmitTask, AbandonSend, historyVars
<1> QED BY <1>4, <1>5, <1>6, <1>7 DEF LateInv

\* An entry is queued.
LEMMA LateEnqueue ==
    ASSUME BaseType, LateInv, FenceMoves, NEW l \in Lanes, NEW e \in EntryType,
           backlog' = [backlog EXCEPT ![l] = Append(@, e)],
           e.wsf = e.late, e.late => stopped,
           UNCHANGED <<ch, cur, admitted, accepted, handled>>
    PROVE  LateInv'
<1>1. ASSUME NEW m \in Lanes, NEW i \in DOMAIN backlog'[m]
      PROVE  \/ backlog'[m][i] = e /\ m = l
             \/ i \in DOMAIN backlog[m] /\ backlog'[m][i] = backlog[m][i]
  <2>1. CASE m # l
    <3>1. backlog'[m] = backlog[m]
      BY <2>1 DEF BaseType, LaneType
    <3> QED BY <3>1
  <2>2. CASE m = l
    <3>1. backlog'[m] = Append(backlog[l], e)
      BY <2>2 DEF BaseType, LaneType
    <3>2. backlog[l] \in Seq(EntryType)
      BY DEF BaseType, LaneType
    <3> QED BY <1>1, <2>2, <3>1, <3>2, SeqElements
  <2> QED BY <2>1, <2>2
<1>2. ASSUME NEW m \in Lanes, NEW i \in DOMAIN backlog'[m]
      PROVE  LateEntry(backlog[m][i], admitted[m])'
  BY <1>1, <1>2 DEF LateInv, LateEntry, FenceMoves
<1>3. \A m \in Lanes : Counted(m)'
  BY DEF LateInv, Counted
<1>4. \A m \in Lanes : cur'[m].late => fence' /\ (early' \/ ch'[m] = <<>>)
  BY DEF LateInv, FenceMoves
<1> QED BY <1>2, <1>3, <1>4 DEF LateInv

\* A lane that takes an entry behind the fence has handled every task.
LEMMA TakenLate ==
    ASSUME BaseType, Registrations, OrderInv, FenceInv, LateInv, NEW l \in Lanes,
           MandatoryReady(l),
           cur[l].kind = "none", Head1(l).late
    PROVE  fence /\ (early \/ ch[l] = <<>>)
<1>1. backlog[l] # <<>> /\ ~WaitsFence(l) /\ settled[l] >= Head1(l).target
  BY DEF MandatoryReady
<1> DEFINE e == backlog[l][1]
<1>2. /\ e.late /\ LateEntry(e, admitted[l]) /\ Head(backlog[l]) = e
      /\ Head1(l).target = IF e.wsf THEN admitted[l] ELSE e.target
  BY <1>1, HeadKeeps DEF LateInv
<1>3. fence
  BY <1>1, <1>2 DEF WaitsFence, LateEntry
<1>4. ASSUME ~early PROVE ch[l] = <<>>
  <2>1. inFlight = 0
    BY <1>3, <1>4 DEF FenceInv
  <2>2. Unsent(l) = {}
    BY <2>1, NoProducer DEF Unsent, QueuePc
  <2>3. /\ Cardinality(Unsent(l)) = 0
        /\ admitted[l] = accepted[l] + (settled[l] - handled[l]) + Cardinality(Unsent(l))
    BY <2>2, FS_EmptySet DEF OrderInv, Admissions
  <2>4. Head1(l).target >= admitted[l]
    BY <1>2, <1>4, Counters DEF LateEntry
  <2>5. e \in EntryType /\ Head1(l).target \in Nat
    BY <1>1, <1>2, HeadKeeps, Counters DEF EntryType
  <2>6. accepted[l] - handled[l] = Len(ch[l]) + 0
    BY DEF LateInv, Counted
  <2>7. ch[l] \in Seq(Ops) /\ Len(ch[l]) \in Nat
    BY DEF BaseType, LaneType
  <2>8. handled[l] >= accepted[l]
    <3> HIDE DEF e
    <3> QED BY <1>1, <2>3, <2>4, <2>5, Counters
  <2>9. Len(ch[l]) = 0
    BY <2>6, <2>7, <2>8, Counters
  <2> QED BY <2>7, <2>9
<1> QED BY <1>3, <1>4

\* The steps of a worker.
LEMMA LateLane ==
    ASSUME BaseType, Registrations, OrderInv, FenceInv, LateInv, FenceMoves,
           NEW l \in Lanes, Handling(l), WorkerStep(l)
    PROVE  LateInv'
<1>1. UNCHANGED <<admitted, stopped, fence, early>>
  BY DEF WorkerStep, TakeMandatory, NoMandatory, Receive, Complete,
     TakeWake, SeeFence, SeeClosed, FinishWorker, ParkBarrier, LeaveBarrier,
     IdleFrame, WorkerFrame, stopVars
<1>2. wpc[l] \in {"poll", "select"} => cur[l].kind = "none"
  BY DEF Handling
<1>3. \A e, adm : LateEntry(e, adm)' <=> LateEntry(e, adm)
  BY <1>1 DEF LateEntry
<1>4. ASSUME UNCHANGED backlog
      PROVE  \A m \in Lanes : \A i \in DOMAIN backlog'[m] :
                LateEntry(backlog[m][i], admitted[m])'
  BY <1>1, <1>4 DEF LateInv, LateEntry
<1>5. CASE TakeMandatory(l)
  <2>1. /\ wpc[l] = "poll" /\ MandatoryReady(l) /\ backlog[l] # <<>>
        /\ backlog' = [backlog EXCEPT ![l] = Tail(@)]
        /\ cur' = [cur EXCEPT ![l] = Head1(l)]
        /\ UNCHANGED <<ch, accepted, handled>>
    BY <1>5 DEF TakeMandatory, MandatoryReady
  <2>2. Head1(l).kind \in {"release", "barrier"}
    BY <2>1, HeadKeeps DEF Handling
  <2>3. /\ cur'[l] = Head1(l) /\ backlog'[l] = Tail(backlog[l])
        /\ \A m \in Lanes : m # l => cur'[m] = cur[m] /\ backlog'[m] = backlog[m]
    BY <2>1 DEF BaseType, WorkerType, LaneType
  <2>4. \A m \in Lanes : Counted(m)'
    BY <1>2, <2>1, <2>2, <2>3 DEF LateInv, Counted
  <2>5. \A m \in Lanes : cur'[m].late => fence' /\ (early' \/ ch'[m] = <<>>)
    BY <1>1, <1>2, <2>1, <2>3, TakenLate DEF LateInv
  <2>6. ASSUME NEW m \in Lanes, NEW i \in DOMAIN backlog'[m]
        PROVE  LateEntry(backlog[m][i], admitted[m])'
    <3>1. CASE m # l
      BY <1>1, <2>3, <2>6, <3>1 DEF LateInv, LateEntry
    <3>2. CASE m = l
      <4>1. backlog[l] \in Seq(EntryType) /\ i \in DOMAIN Tail(backlog[l])
        BY <2>3, <2>6, <3>2 DEF BaseType, LaneType
      <4>2. i + 1 \in DOMAIN backlog[l] /\ Tail(backlog[l])[i] = backlog[l][i + 1]
        BY <2>1, <4>1
      <4> QED BY <1>1, <2>3, <3>2, <4>2 DEF LateInv, LateEntry
    <3> QED BY <3>1, <3>2
  <2> QED BY <2>4, <2>5, <2>6 DEF LateInv
<1>6. CASE NoMandatory(l)
  <2>1. UNCHANGED <<ch, cur, accepted, handled>>
    BY <1>6 DEF NoMandatory
  <2>2. ASSUME NEW m \in Lanes, NEW i \in DOMAIN backlog'[m]
        PROVE  LateEntry(backlog[m][i], admitted[m])'
    <3>1. CASE backlog' = backlog
      BY <1>4, <2>2, <3>1
    <3>2. CASE /\ backlog[l] # <<>> /\ ~WaitsFence(l)
               /\ backlog' = [backlog EXCEPT ![l][1] = Head1(l)]
      <4>1. /\ backlog'[l] = [backlog[l] EXCEPT ![1] = Head1(l)]
            /\ \A n \in Lanes : n # l => backlog'[n] = backlog[n]
        BY <3>2 DEF BaseType, LaneType
      <4>2. CASE m # l \/ i # 1
        <5>1. i \in DOMAIN backlog[m] /\ backlog'[m][i] = backlog[m][i]
          BY <2>2, <4>1, <4>2 DEF BaseType, LaneType
        <5> QED BY <1>1, <5>1 DEF LateInv, LateEntry
      <4>3. CASE m = l /\ i = 1
        <5>1. backlog'[m][i] = Head1(l)
          BY <3>2, <4>1, <4>3, HeadKeeps DEF BaseType, LaneType
        <5>2. LateEntry(backlog[l][1], admitted[l]) /\ admitted[l] >= admitted[l]
          BY <3>2, HeadKeeps, Counters DEF LateInv
        <5>3. LateEntry(Head1(l), admitted[l])
          BY <3>2, <5>2, HeadKeeps DEF WaitsFence, LateEntry
        <5> QED BY <1>1, <4>3, <5>1, <5>3 DEF LateEntry
      <4> QED BY <4>2, <4>3
    <3> QED BY <1>6, <3>1, <3>2 DEF NoMandatory
  <2>3. \A m \in Lanes : Counted(m)'
    BY <2>1 DEF LateInv, Counted
  <2> QED BY <1>1, <2>1, <2>2, <2>3 DEF LateInv
<1>7. CASE Receive(l)
  <2>1. /\ wpc[l] = "select" /\ ch[l] # <<>>
        /\ ch' = [ch EXCEPT ![l] = Tail(@)]
        /\ cur' = [cur EXCEPT ![l] = TaskEntry(Head(ch[l]))]
        /\ UNCHANGED <<backlog, accepted, handled>>
    BY <1>7 DEF Receive
  <2>2. /\ ch'[l] = Tail(ch[l]) /\ cur'[l] = TaskEntry(Head(ch[l]))
        /\ \A m \in Lanes : m # l => ch'[m] = ch[m] /\ cur'[m] = cur[m]
    BY <2>1 DEF BaseType, WorkerType, LaneType
  <2>3. cur'[l].kind = "task" /\ ~cur'[l].late
    BY <2>2 DEF TaskEntry
  <2>4. Counted(l)'
    <3>1. ch[l] \in Seq(Ops) /\ accepted[l] - handled[l] = Len(ch[l]) + 0
      BY <1>2, <2>1 DEF BaseType, LaneType, LateInv, Counted
    <3>2. Len(ch'[l]) = Len(ch[l]) - 1 /\ Len(ch[l]) \in Nat
      <4>1. \A q \in Seq(Ops) : q # <<>> => Len(Tail(q)) = Len(q) - 1 /\ Len(q) \in Nat
        OBVIOUS
      <4> QED BY <2>1, <2>2, <3>1, <4>1
    <3>3. accepted[l] - handled[l] = Len(ch'[l]) + 1
      BY <3>1, <3>2, Counters
    <3> QED BY <2>1, <2>3, <3>3 DEF Counted
  <2>5. \A m \in Lanes : m # l => Counted(m)'
    BY <2>1, <2>2 DEF LateInv, Counted
  <2> QED BY <1>1, <1>4, <2>1, <2>2, <2>3, <2>4, <2>5 DEF LateInv
<1>8. CASE Complete(l)
  <2>1. /\ wpc[l] \in {"run", "abort"}
        /\ cur' = [cur EXCEPT ![l] = NoEntry]
        /\ handled' = [handled EXCEPT ![l] = IF cur[l].kind = "task" THEN @ + 1 ELSE @]
        /\ UNCHANGED <<ch, backlog, accepted>>
    BY <1>8 DEF Complete
  <2>2. /\ cur'[l] = NoEntry
        /\ handled'[l] = IF cur[l].kind = "task" THEN handled[l] + 1 ELSE handled[l]
        /\ \A m \in Lanes : m # l => handled'[m] = handled[m] /\ cur'[m] = cur[m]
    BY <2>1 DEF BaseType, WorkerType, HistoryType
  <2>3. cur'[l].kind = "none" /\ ~cur'[l].late
    BY <2>2 DEF NoEntry
  <2>4. Counted(l)'
    <3>1. Len(ch[l]) \in Nat
      BY DEF BaseType, LaneType
    <3>2. PICK n \in {0, 1} : n = IF cur[l].kind = "task" THEN 1 ELSE 0
      OBVIOUS
    <3>3. accepted[l] - handled'[l] = Len(ch[l]) + 0
      <4>1. accepted[l] - handled[l] = Len(ch[l]) + n
        BY <3>2 DEF LateInv, Counted
      <4>2. handled'[l] = handled[l] + n
        BY <2>2, <3>2, Counters
      <4> QED BY <3>1, <4>1, <4>2, Counters
    <3> QED BY <2>1, <2>3, <3>3 DEF Counted
  <2>5. \A m \in Lanes : m # l => Counted(m)'
    BY <2>1, <2>2 DEF LateInv, Counted
  <2> QED BY <1>1, <1>4, <2>1, <2>2, <2>3, <2>4, <2>5 DEF LateInv
<1>9. CASE LeaveBarrier(l)
  <2>1. /\ wpc[l] \in {"barrier", "held"}
        /\ cur' = [cur EXCEPT ![l] = NoEntry]
        /\ UNCHANGED <<ch, backlog, accepted, handled>>
    BY <1>9 DEF LeaveBarrier
  <2>2. cur[l].kind = "barrier"
    BY <2>1 DEF Handling
  <2>3. /\ cur'[l].kind = "none" /\ ~cur'[l].late
        /\ \A m \in Lanes : m # l => cur'[m] = cur[m]
    BY <2>1 DEF NoEntry, BaseType, WorkerType
  <2>4. \A m \in Lanes : Counted(m)'
    BY <2>1, <2>2, <2>3 DEF LateInv, Counted
  <2> QED BY <1>1, <1>4, <2>1, <2>3, <2>4 DEF LateInv
<1>10. CASE TakeWake(l) \/ SeeFence(l) \/ SeeClosed(l) \/ FinishWorker(l) \/ ParkBarrier(l)
  <2>1. UNCHANGED <<ch, backlog, cur, accepted, handled>>
    BY <1>10 DEF TakeWake, SeeFence, SeeClosed, FinishWorker, ParkBarrier, IdleFrame
  <2> QED BY <1>1, <2>1, LateKept
<1> QED BY <1>5, <1>6, <1>7, <1>8, <1>9, <1>10 DEF WorkerStep


\* A late release runs behind the fence, on a drained lane.
LEMMA LateImplies ==
    ASSUME Registrations, FenceInv, LateInv
    PROVE  LateReleaseLast
<1> SUFFICES ASSUME NEW l \in Lanes, cur[l].late, ~early
             PROVE  /\ ch[l] = <<>>
                    /\ \A o \in Ops : pc[o] \notin QueuePc
  BY DEF LateReleaseLast, QueuePc
<1>1. fence /\ ch[l] = <<>>
  BY DEF LateInv
<1>2. inFlight = 0
  BY <1>1 DEF FenceInv
<1> QED BY <1>1, <1>2, NoProducer

\* Nothing has been queued.
LEMMA LateNone ==
    ASSUME \A l \in Lanes : /\ ch[l] = <<>> /\ backlog[l] = <<>> /\ cur[l] = NoEntry
                            /\ accepted[l] = 0 /\ handled[l] = 0
    PROVE  LateInv
<1>1. ASSUME NEW l \in Lanes PROVE Counted(l) /\ ~cur[l].late /\ DOMAIN backlog[l] = {}
  <2>1. cur[l].kind = "none" /\ ~cur[l].late /\ Len(ch[l]) = 0 /\ DOMAIN backlog[l] = {}
    BY DEF NoEntry
  <2> QED BY <2>1 DEF Counted
<1> QED BY <1>1 DEF LateInv

\* The steps of a producer; first is where beginSubmit leads.
LEMMA LateProducer ==
    ASSUME BaseType, Registrations, FenceInv, LateInv, FenceMoves, NEW o \in Ops,
           NEW first, pc[o] \in {"admit", "send", "blocked"} => at[o] \in Lanes,
           \/ BeginSubmit(o, first)
           \/ WaitForMandatoryCleanup(o) \/ FenceProgress(o) \/ FenceStopped(o)
           \/ CancelBeforeAdmit(o) \/ AdmitTask(o) \/ SendTask(o)
           \/ SendOnClosed(o) \/ SendBlocks(o)
           \/ EndSubmit(o) \/ EndSubmitTest(o) \/ \E r : AbandonSend(o, r)
    PROVE  LateInv'
<1>1. CASE AdmitTask(o) \/ SendTask(o) \/ \E r : AbandonSend(o, r)
  <2>1. at[o] \in Lanes
    BY <1>1 DEF AdmitTask, SendTask, AbandonSend
  <2> QED BY <1>1, <2>1, LateSend
<1>2. CASE ~(AdmitTask(o) \/ SendTask(o) \/ \E r : AbandonSend(o, r))
  <2>1. UNCHANGED <<ch, backlog, cur, admitted, accepted, handled>>
    BY <1>2 DEF BeginSubmit, WaitForMandatoryCleanup, FenceProgress, FenceStopped,
       SendOnClosed, SendBlocks, EndSubmit, EndSubmitTest, CancelBeforeAdmit, TestStop,
       ProducerFrame, laneVars, workerVars, historyVars
  <2> QED BY <2>1, LateKept
<1> QED BY <1>1, <1>2

\* The steps of a handoff; n is the lane that a late one finds, and retry is
\* where a refused one goes on.
LEMMA LateRelease ==
    ASSUME BaseType, LateInv, FenceMoves, NEW o \in Ops, NEW n \in Lanes \cup {NoLane},
           NEW retry, pc[o] = "enqueue" => at[o] \in Lanes, pc[o] = "late" => stopped,
           \/ EnqueueCleanup(o) \/ EndHandoff(o, retry) \/ EndHandoffTest(o, retry)
           \/ HandoffLate(o, n) \/ BeginLifecycleCleanup(o) \/ EndLifecycleCleanup(o)
    PROVE  LateInv'
<1>1. UNCHANGED <<cur, accepted, handled>>
  BY DEF EnqueueCleanup, HandoffLate, EndHandoff, EndHandoffTest, TestStop,
     BeginLifecycleCleanup, EndLifecycleCleanup, HandoffFrame, workerVars, historyVars
<1>2. CASE UNCHANGED laneVars
  BY <1>1, <1>2, LateKept DEF laneVars
<1>3. CASE ~UNCHANGED laneVars
  <2>1. \E l \in Lanes, w \in BOOLEAN : /\ EnqueueMandatory(l, Entry("release", o, l, w))
                                        /\ w => stopped
    <3>1. CASE EnqueueCleanup(o)
      BY <1>3, <3>1 DEF EnqueueCleanup
    <3>2. CASE HandoffLate(o, n)
      <4>1. /\ EnqueueMandatory(n, Entry("release", o, n, TRUE))
            /\ n \in Lanes /\ stopped
        BY <1>3, <3>2 DEF HandoffLate
      <4> QED BY <4>1
    <3> QED BY <1>3, <3>1, <3>2 DEF EndHandoff, EndHandoffTest, TestStop,
            BeginLifecycleCleanup, EndLifecycleCleanup
  <2>2. PICK l \in Lanes, w \in BOOLEAN : /\ EnqueueMandatory(l, Entry("release", o, l, w))
                                          /\ w => stopped
    BY <2>1
  <2>3. PICK e \in EntryType : e = Entry("release", o, l, w)
    BY EntryTyped
  <2>4. /\ e.late = w /\ e.wsf = w
        /\ backlog' = [backlog EXCEPT ![l] = Append(@, e)]
        /\ UNCHANGED <<ch, admitted>>
    BY <2>2, <2>3 DEF Entry, EnqueueMandatory
  <2> QED BY <1>1, <2>2, <2>4, LateEnqueue
<1> QED BY <1>2, <1>3

\* A barrier is queued.
LEMMA LateBarrier ==
    ASSUME BaseType, LateInv, FenceMoves, NEW s \in Sections, NEW l \in Lanes,
           EnqueueMandatory(l, Entry("barrier", s, l, FALSE)),
           UNCHANGED <<cur, accepted, handled>>
    PROVE  LateInv'
<1>1. PICK e \in EntryType : e = Entry("barrier", s, l, FALSE)
  BY EntryTyped
<1>2. /\ ~e.late /\ e.wsf = e.late
      /\ backlog' = [backlog EXCEPT ![l] = Append(@, e)]
      /\ UNCHANGED <<ch, admitted>>
  BY <1>1 DEF Entry, EnqueueMandatory
<1> QED BY <1>2, LateEnqueue

\* The steps of a section.
LEMMA LateSection ==
    ASSUME BaseType, LateInv, FenceMoves, NEW s \in Sections, NEW ls, NEW done,
           SectionMove(s, ls, done)
    PROVE  LateInv'
<1>1. UNCHANGED <<cur, accepted, handled>>
  BY SectionFramed DEF SectionFrame, workerVars, historyVars
<1>2. CASE UNCHANGED laneVars
  BY <1>1, <1>2, LateKept DEF laneVars
<1>3. CASE ~UNCHANGED laneVars
  <2>1. PICK l \in todo : EnqueueMandatory(l, Entry("barrier", s, l, FALSE))
    BY <1>3, SectionLanes DEF PlaceBarrier
  <2>2. l \in Lanes
    BY DEF BaseType, SectionType
  <2> QED BY <1>1, <2>1, <2>2, LateBarrier
<1> QED BY <1>2, <1>3

\* A stop call.
LEMMA LateStop ==
    ASSUME LateInv, FenceMoves, UNCHANGED <<ch, backlog, admitted>>, StopFrame
    PROVE  LateInv'
BY LateKept DEF StopFrame, workerVars

-----------------------------------------------------------------------------
(* The fence of queued releases.                                            *)

\* A set of naturals has a smallest member.
LEMMA Smallest ==
    ASSUME NEW T \in SUBSET Nat, T # {}
    PROVE  \E i \in T : \A j \in T : i <= j
<1>1. PICK R : R = OpToRel(<, Nat) /\ IsWellFoundedOn(R, Nat)
  BY NatLessThanWellFounded
<1>2. PICK i \in T : \A j \in T : ~(<<j, i>> \in R)
  BY <1>1, WFMin
<1>3. \A j \in T : j < i => <<j, i>> \in R
  BY <1>1 DEF OpToRel
<1>4. \A j \in T : ~(j < i)
  BY <1>2, <1>3
<1>5. T \subseteq Nat
  OBVIOUS
<1>6. \A j \in T : i <= j
  BY <1>4, <1>5, SMT
<1> QED BY <1>6

\* pendingCleanupForLocked finds the first of the releases for a key.
LEMMA FirstRelease ==
    ASSUME BaseType, NEW l \in Lanes, NEW k, ReleasesFor(l, k) # {}
    PROVE  \E i \in ReleasesFor(l, k) : /\ FirstReleaseFor(l, k) = backlog[l][i]
                                        /\ \A j \in ReleasesFor(l, k) : i <= j
<1>1. ReleasesFor(l, k) \in SUBSET Nat
  BY DEF ReleasesFor, BaseType, LaneType
<1>2. \E i \in ReleasesFor(l, k) : \A j \in ReleasesFor(l, k) : i <= j
  BY <1>1, Smallest
<1> QED BY <1>2 DEF FirstReleaseFor

\* The release of call r is queued.
Queued(r) == \E l \in Lanes : \E i \in Nat : InBacklog(r, l, i)

\* It is queued behind one that waits for the submit fence.
BehindLate(r) ==
    \E l \in Lanes : \E i \in Nat :
        InBacklog(r, l, i) /\ \E j \in 1..i : backlog[l][j].late

\* The release is on a lane or has run.
Given(r) == outcome[r] # <<>> \/ (\E l \in Lanes : InHand(r, l)) \/ Queued(r)

\* Call o has passed waitForMandatoryCleanup.
Passed(o) ==
    \/ pc[o] \in {"admit", "send", "blocked"}
    \/ \E l \in Lanes : \E i \in Nat : InCh(o, l, i)

\* A lane works on the task of call o.
Begun(o) == \E l \in Lanes : cur[l].kind = "task" /\ cur[l].op = o

\* A release queued for the key of call o before o began is on a lane or has
\* run; it is off the backlog once o has passed it, and has run once o's task
\* starts.
Owed(o, r) ==
    /\ r \in Ops /\ OpKey[r] = OpKey[o]
    /\ Given(r)
    /\ ~BehindLate(r)
    /\ Passed(o) => ~Queued(r)
    /\ Begun(o) => outcome[r] # <<>>

OwesInv == \A o \in Ops : \A r \in owes[o] : Owed(o, r)

\* The releases for key k are queued on lane l, if at all, and no other lane
\* has work for k in hand.
QueuedOn(k, l) == \A m \in Lanes : ReleasesFor(m, k) # {} => m = l
InHandOn(k, l) ==
    \A m \in Lanes : cur[m].kind \in {"task", "release"} /\ OpKey[cur[m].op] = k => m = l

\* A step in which a call passes or begins only if it may.
LEMMA OwesKept ==
    ASSUME OwesInv, owes' = owes,
           \A r \in Ops : Given(r) => Given(r)',
           \A r \in Ops : Given(r) /\ Queued(r)' => Queued(r),
           \A r \in Ops : Given(r) /\ BehindLate(r)' => BehindLate(r),
           \A r \in Ops : outcome[r] # <<>> => outcome'[r] # <<>>,
           \A o \in Ops : Passed(o)' => Passed(o) \/ \A r \in owes[o] : ~Queued(r),
           \A o \in Ops : Begun(o)' => Begun(o) \/ \A r \in owes[o] : outcome[r] # <<>>
    PROVE  OwesInv'
<1> SUFFICES ASSUME NEW o \in Ops, NEW r \in owes[o] PROVE Owed(o, r)'
  BY DEF OwesInv
<1>1. Owed(o, r) /\ r \in Ops
  BY DEF OwesInv, Owed
<1>2. Given(r)' /\ ~BehindLate(r)'
  BY <1>1 DEF Owed
<1>3. Passed(o)' => ~Queued(r)'
  BY <1>1 DEF Owed
<1>4. Begun(o)' => outcome'[r] # <<>>
  BY <1>1 DEF Owed
<1> QED BY <1>1, <1>2, <1>3, <1>4 DEF Owed

\* An outcome is added.
LEMMA AppendResolves ==
    ASSUME NEW q \in Seq(Results), NEW how
    PROVE  Append(q, how) # <<>>
<1>1. Len(Append(q, how)) = Len(q) + 1 /\ Len(q) \in Nat
  OBVIOUS
<1>2. Len(<<>>) = 0
  OBVIOUS
<1> QED BY <1>1, <1>2

\* Resolved calls stay resolved.
LEMMA StaysResolved ==
    ASSUME BaseType,
           \/ outcome' = outcome
           \/ \E o : outcome' = [outcome EXCEPT ![o] = Append(@, "failed")]
    PROVE  \A r \in Ops : outcome[r] # <<>> => outcome'[r] # <<>>
<1>1. CASE outcome' = outcome
  BY <1>1
<1>2. ASSUME NEW o, outcome' = [outcome EXCEPT ![o] = Append(@, "failed")],
             NEW r \in Ops, outcome[r] # <<>>
      PROVE  outcome'[r] # <<>>
  <2>1. outcome[r] \in Seq(Results)
    BY DEF BaseType, HistoryType
  <2>2. outcome'[r] \in {outcome[r], Append(outcome[r], "failed")}
    BY <1>2 DEF BaseType, HistoryType
  <2> QED BY <1>2, <2>1, <2>2, AppendResolves
<1> QED BY <1>1, <1>2

\* Backlogs whose releases and marks stay.
SameMarks ==
    \A m \in Lanes :
        /\ DOMAIN backlog'[m] = DOMAIN backlog[m]
        /\ \A i \in DOMAIN backlog[m] :
              /\ backlog'[m][i].kind = backlog[m][i].kind
              /\ backlog'[m][i].op = backlog[m][i].op
              /\ backlog'[m][i].late = backlog[m][i].late

\* They keep the places of releases.
LEMMA BacklogKeeps ==
    ASSUME BaseType, SameMarks, NEW r \in Ops
    PROVE  (Queued(r)' <=> Queued(r)) /\ (BehindLate(r)' <=> BehindLate(r))
<1>1. \A l \in Lanes : \A i \in Nat : InBacklog(r, l, i)' <=> InBacklog(r, l, i)
  BY DEF InBacklog, SameMarks
<1>2. ASSUME NEW l \in Lanes, NEW i \in Nat, InBacklog(r, l, i)
      PROVE  \A j \in 1..i : backlog'[l][j].late <=> backlog[l][j].late
  <2>1. backlog[l] \in Seq(EntryType) /\ i \in DOMAIN backlog[l]
    BY <1>2 DEF InBacklog, BaseType, LaneType
  <2>2. \A j \in 1..i : j \in DOMAIN backlog[l]
    BY <2>1
  <2> QED BY <2>2 DEF SameMarks
<1>3. Queued(r)' <=> Queued(r)
  BY <1>1 DEF Queued
<1>4. BehindLate(r)' <=> BehindLate(r)
  BY <1>1, <1>2 DEF BehindLate
<1> QED BY <1>3, <1>4

\* A call that has not given its task or release away.
LEMMA NotGiven ==
    ASSUME OnePlace, NEW o \in Ops, pc[o] \in CallPc
    PROVE  /\ ~Given(o) /\ ~Begun(o)
           /\ \A l \in Lanes : \A i \in Nat : ~InCh(o, l, i)
<1>1. PICK k \in PlaceKind, m \in Lanes \cup {NoLane}, j \in Nat : Held(o, k, m, j)
  BY DEF OnePlace
<1>2. k = "call"
  BY <1>1 DEF Held
<1>3. /\ outcome[o] = <<>> /\ \A l \in Lanes : ~InHand(o, l)
      /\ \A l \in Lanes : \A i \in Nat : ~InCh(o, l, i) /\ ~InBacklog(o, l, i)
  BY <1>1, <1>2 DEF Held
<1> QED BY <1>3 DEF Given, Queued, Begun, InHand

\* A step that leaves the channels and the workers alone.
LEMMA OwesMoves ==
    ASSUME BaseType, OwesInv, UNCHANGED <<owes, ch, cur>>, SameMarks,
           \A r \in Ops : outcome[r] # <<>> => outcome'[r] # <<>>,
           \A p \in Ops : pc'[p] \in {"admit", "send", "blocked"}
                            => pc[p] \in {"admit", "send", "blocked"}
    PROVE  OwesInv'
<1>1. \A r \in Ops : (Queued(r)' <=> Queued(r)) /\ (BehindLate(r)' <=> BehindLate(r))
  BY BacklogKeeps
<1>2. \A r \in Ops : Given(r) => Given(r)'
  BY <1>1 DEF Given, InHand
<1>3. \A p \in Ops : (Passed(p)' => Passed(p)) /\ (Begun(p)' => Begun(p))
  BY DEF Passed, Begun, InCh
<1> QED BY <1>1, <1>2, <1>3, OwesKept

\* A step of somebody else.
LEMMA OwesSame ==
    ASSUME BaseType, OwesInv, UNCHANGED <<pc, owes, ch, cur, backlog, outcome>>
    PROVE  OwesInv'
<1>1. SameMarks
  BY DEF SameMarks
<1> QED BY <1>1, OwesMoves

\* An entry is queued.
LEMMA OwesEnqueue ==
    ASSUME BaseType, OwesInv, NEW l \in Lanes, NEW e \in EntryType,
           backlog' = [backlog EXCEPT ![l] = Append(@, e)],
           \A r \in Ops : e.kind = "release" /\ e.op = r => ~Given(r),
           UNCHANGED <<owes, ch, cur, outcome>>,
           \A p \in Ops : pc'[p] \in {"admit", "send", "blocked"}
                            => pc[p] \in {"admit", "send", "blocked"}
    PROVE  OwesInv'
<1>1. ASSUME NEW r \in Ops, Given(r)
      PROVE  \A m \in Lanes : \A i \in Nat : InBacklog(r, m, i)' <=> InBacklog(r, m, i)
  BY <1>1, BacklogAppend
<1>2. ASSUME NEW r \in Ops, NEW m \in Lanes, NEW i \in Nat, InBacklog(r, m, i), NEW j \in 1..i
      PROVE  backlog'[m][j] = backlog[m][j]
  <2>1. backlog[m] \in Seq(EntryType) /\ i \in DOMAIN backlog[m]
    BY <1>2 DEF InBacklog, BaseType, LaneType
  <2>2. j \in DOMAIN backlog[m] /\ j \in Nat
    BY <1>2, <2>1
  <2>3. CASE m # l
    BY <2>3 DEF BaseType, LaneType
  <2>4. CASE m = l
    <3>1. backlog'[l] = Append(backlog[l], e)
      BY DEF BaseType, LaneType
    <3>2. Append(backlog[l], e)[j] = backlog[l][j]
      BY <2>1, <2>2, <2>4, SeqAppend
    <3> QED BY <2>4, <3>1, <3>2
  <2> QED BY <2>3, <2>4
<1>3. \A r \in Ops : Given(r) => (Queued(r)' <=> Queued(r))
  BY <1>1 DEF Queued
<1>4. ASSUME NEW r \in Ops, Given(r), BehindLate(r)' PROVE BehindLate(r)
  <2>1. PICK m \in Lanes : \E i \in Nat :
           InBacklog(r, m, i)' /\ \E j \in 1..i : backlog'[m][j].late
    BY <1>4 DEF BehindLate
  <2>2. PICK i \in Nat : InBacklog(r, m, i)' /\ \E j \in 1..i : backlog'[m][j].late
    BY <2>1
  <2>3. InBacklog(r, m, i)
    BY <1>1, <1>4, <2>2
  <2>4. PICK j \in 1..i : backlog'[m][j].late
    BY <2>2
  <2>5. backlog[m][j].late
    BY <1>2, <2>3, <2>4
  <2> QED BY <2>3, <2>5 DEF BehindLate
<1>5. \A r \in Ops : Given(r) => Given(r)'
  BY <1>3 DEF Given, InHand
<1>6. \A p \in Ops : (Passed(p)' => Passed(p)) /\ (Begun(p)' => Begun(p))
  BY DEF Passed, Begun, InCh
<1> QED BY <1>3, <1>4, <1>5, <1>6, OwesKept

\* BeginSubmit notes the releases queued for the key; none of them is late.
LEMMA OwesBegin ==
    ASSUME BaseType, OnePlace, LateInv, OwesInv, NEW o \in Ops,
           NEW first \in QueuePc \ {"admit", "send", "blocked"},
           BeginSubmit(o, first), ~stopped
    PROVE  OwesInv'
<1> DEFINE R == {r \in Closing : \E l \in Lanes :
                   \E i \in ReleasesFor(l, OpKey[o]) : backlog[l][i].op = r}
<1>1. /\ pc[o] = "idle" /\ pc' = [pc EXCEPT ![o] = first]
      /\ owes' = [owes EXCEPT ![o] = R]
      /\ UNCHANGED <<ch, backlog, cur, outcome>>
  BY DEF BeginSubmit, laneVars, workerVars
<1>2. /\ owes'[o] = R /\ \A p \in Ops : p # o => owes'[p] = owes[p]
      /\ pc'[o] = first /\ \A p \in Ops : p # o => pc'[p] = pc[p]
  BY <1>1 DEF BaseType, HistoryType, SubmitType
<1>3. /\ \A r : Given(r)' <=> Given(r)
      /\ \A r : Queued(r)' <=> Queued(r)
      /\ \A r : BehindLate(r)' <=> BehindLate(r)
      /\ \A p : Begun(p)' <=> Begun(p)
  BY <1>1 DEF Given, BehindLate, Queued, Begun, InBacklog, InHand
<1>4. \A p \in Ops : \A r : p # o /\ Owed(p, r) => Owed(p, r)'
  <2>1. \A p \in Ops : p # o /\ Passed(p)' => Passed(p)
    BY <1>1, <1>2 DEF Passed, InCh
  <2> QED BY <1>1, <1>3, <2>1 DEF Owed
<1>5. ASSUME NEW r \in R PROVE Owed(o, r)'
  <2>1. PICK l \in Lanes : \E i \in ReleasesFor(l, OpKey[o]) : backlog[l][i].op = r
    BY <1>5
  <2>2. PICK i \in ReleasesFor(l, OpKey[o]) : backlog[l][i].op = r
    BY <2>1
  <2>3. r \in Ops /\ \A m \in Lanes : backlog[m] \in Seq(EntryType)
    BY <1>5, ConstantsAssumption DEF ConstantsAssumption, BaseType, LaneType
  <2>4. i \in DOMAIN backlog[l] /\ backlog[l][i].kind = "release" /\ OpKey[r] = OpKey[o]
    BY <2>2 DEF ReleasesFor
  <2>5. i \in Nat /\ InBacklog(r, l, i)
    BY <2>2, <2>3, <2>4 DEF InBacklog
  <2>6. Queued(r)
    BY <2>5 DEF Queued
  <2>7. ~BehindLate(r)
    <3>1. \A m \in Lanes : \A j \in DOMAIN backlog[m] : ~backlog[m][j].late
      BY DEF LateInv, LateEntry
    <3>2. \A m \in Lanes : \A h \in DOMAIN backlog[m] : \A j \in 1..h : j \in DOMAIN backlog[m]
      BY <2>3
    <3> QED BY <3>1, <3>2 DEF BehindLate, InBacklog
  <2>8. Given(r)' /\ ~BehindLate(r)'
    BY <1>3, <2>6, <2>7 DEF Given
  <2>9. ~Passed(o)' /\ ~Begun(o)'
    <3>1. pc[o] \in CallPc
      BY <1>1, CallPcFacts
    <3>2. ~Begun(o) /\ \A m \in Lanes : \A h \in Nat : ~InCh(o, m, h)
      BY <3>1, NotGiven
    <3> QED BY <1>1, <1>2, <1>3, <3>2 DEF Passed, InCh
  <2> QED BY <2>3, <2>4, <2>8, <2>9 DEF Owed
<1>6. \A p \in Ops : \A r \in owes[p] : Owed(p, r)
  BY DEF OwesInv
<1> HIDE DEF R
<1> QED BY <1>2, <1>4, <1>5, <1>6 DEF OwesInv

\* waitForMandatoryCleanup lets a call pass only when no release that it owes
\* is queued.
LEMMA OwesWait ==
    ASSUME BaseType, LateInv, OwesInv, NEW o \in Ops, at[o] \in Lanes,
           QueuedOn(OpKey[o], at[o]), WaitForMandatoryCleanup(o)
    PROVE  OwesInv'
<1>1. PICK l \in Lanes : l = at[o]
  OBVIOUS
<1> DEFINE k == OpKey[o]
           free == ReleasesFor(l, k) = {} \/ (FirstReleaseFor(l, k).wsf /\ stopped)
<1>2. /\ UNCHANGED <<ch, backlog, cur, outcome, owes>>
      /\ pc' = [pc EXCEPT ![o] = IF free THEN "admit" ELSE "fenced"]
  BY <1>1 DEF WaitForMandatoryCleanup, ProducerFrame, laneVars, workerVars, historyVars
<1>3. CASE ~free
  <2>1. \A p \in Ops : pc'[p] \in {"admit", "send", "blocked"}
                         => pc[p] \in {"admit", "send", "blocked"}
    BY <1>2, <1>3 DEF BaseType, SubmitType
  <2>2. SameMarks
    BY <1>2 DEF SameMarks
  <2> QED BY <1>2, <2>1, <2>2, OwesMoves
<1>4. CASE free
  <2>1. ASSUME NEW r \in owes[o] PROVE ~Queued(r)
    <3>1. r \in Ops /\ OpKey[r] = k /\ ~BehindLate(r)
      BY DEF OwesInv, Owed
    <3>2. ASSUME NEW m \in Lanes, NEW i \in Nat, InBacklog(r, m, i) PROVE FALSE
      <4>1. i \in ReleasesFor(m, k) /\ m = l
        BY <1>1, <3>1, <3>2 DEF InBacklog, ReleasesFor, QueuedOn
      <4>2. PICK f \in ReleasesFor(l, k) :
               /\ FirstReleaseFor(l, k) = backlog[l][f]
               /\ \A j \in ReleasesFor(l, k) : f <= j
        BY <4>1, FirstRelease
      <4>3. backlog[l][f].wsf
        BY <1>4, <4>1, <4>2
      <4>4. f \in DOMAIN backlog[l] /\ f <= i
        BY <4>1, <4>2 DEF ReleasesFor
      <4>5. backlog[l][f].late
        BY <4>3, <4>4 DEF LateInv, LateEntry
      <4>6. f \in 1..i
        <5>1. backlog[l] \in Seq(EntryType)
          BY DEF BaseType, LaneType
        <5>2. f \in Nat /\ f >= 1
          BY <4>4, <5>1
        <5> QED BY <4>4, <5>2
      <4>7. \E j \in 1..i : backlog[m][j].late
        BY <4>1, <4>5, <4>6
      <4> HIDE DEF k, free
      <4> QED BY <3>1, <3>2, <4>7 DEF BehindLate
    <3> QED BY <3>2 DEF Queued
  <2>2. /\ \A r \in Ops : Given(r) => Given(r)'
        /\ \A r \in Ops : Given(r) /\ Queued(r)' => Queued(r)
        /\ \A r \in Ops : Given(r) /\ BehindLate(r)' => BehindLate(r)
    BY <1>2 DEF Given, Queued, BehindLate, InBacklog, InHand
  <2>3. \A p \in Ops : p # o /\ Passed(p)' => Passed(p)
    BY <1>2 DEF Passed, InCh, BaseType, SubmitType
  <2>4. \A p \in Ops : Begun(p)' => Begun(p)
    BY <1>2 DEF Begun
  <2>5. \A p \in Ops : Passed(p)' => Passed(p) \/ \A r \in owes[p] : ~Queued(r)
    BY <2>1, <2>3
  <2>6. owes' = owes /\ \A r \in Ops : outcome[r] # <<>> => outcome'[r] # <<>>
    BY <1>2
  <2> HIDE DEF free, k
  <2> QED BY <2>2, <2>4, <2>5, <2>6, OwesKept
<1> QED BY <1>3, <1>4

\* A send.
LEMMA OwesSend ==
    ASSUME BaseType, OwesInv, NEW o \in Ops, at[o] \in Lanes, SendTask(o)
    PROVE  OwesInv'
<1>1. PICK l \in Lanes : l = at[o]
  OBVIOUS
<1>2. /\ pc[o] \in {"send", "blocked"} /\ pc' = [pc EXCEPT ![o] = "end"]
      /\ ch' = [ch EXCEPT ![l] = Append(@, o)]
      /\ UNCHANGED <<backlog, cur, outcome, owes>>
  BY <1>1 DEF SendTask, workerVars
<1>3. /\ \A r \in Ops : Given(r) => Given(r)'
      /\ \A r \in Ops : Given(r) /\ Queued(r)' => Queued(r)
      /\ \A r \in Ops : Given(r) /\ BehindLate(r)' => BehindLate(r)
  BY <1>2 DEF Given, Queued, BehindLate, InBacklog, InHand
<1>4. \A p \in Ops : Begun(p)' => Begun(p)
  BY <1>2 DEF Begun
<1>5. ASSUME NEW p \in Ops, Passed(p)' PROVE Passed(p)
  <2>1. CASE p = o
    BY <1>2, <2>1 DEF Passed
  <2>2. CASE p # o
    <3>1. pc'[p] = pc[p]
      BY <1>2, <2>2 DEF BaseType, SubmitType
    <3>2. \A m \in Lanes : \A i \in Nat : InCh(p, m, i)' => InCh(p, m, i)
      BY <1>2, <2>2, ChAppend
    <3> QED BY <1>5, <3>1, <3>2 DEF Passed
  <2> QED BY <2>1, <2>2
<1>6. owes' = owes /\ \A r \in Ops : outcome[r] # <<>> => outcome'[r] # <<>>
  BY <1>2
<1> QED BY <1>3, <1>4, <1>5, <1>6, OwesKept

\* takeMandatoryCleanup.
LEMMA OwesTake ==
    ASSUME BaseType, OwesInv, NEW l \in Lanes, Handling(l), TakeMandatory(l)
    PROVE  OwesInv'
<1>1. /\ wpc[l] = "poll" /\ backlog[l] # <<>>
      /\ backlog' = [backlog EXCEPT ![l] = Tail(@)]
      /\ cur' = [cur EXCEPT ![l] = Head1(l)]
      /\ UNCHANGED <<pc, ch, outcome, owes>>
  BY DEF TakeMandatory, MandatoryReady, WorkerFrame, submitVars
<1>2. /\ cur[l].kind = "none" /\ backlog[l] \in Seq(EntryType)
      /\ 1 \in DOMAIN backlog[l] /\ backlog[l][1].kind \in {"release", "barrier"}
  <2>1. 1 \in DOMAIN backlog[l]
    BY <1>1, HeadKeeps
  <2> QED BY <1>1, <2>1 DEF Handling, BaseType, LaneType
<1>3. /\ cur'[l].kind = backlog[l][1].kind /\ cur'[l].op = backlog[l][1].op
      /\ backlog'[l] = Tail(backlog[l])
      /\ \A m \in Lanes : m # l => cur'[m] = cur[m] /\ backlog'[m] = backlog[m]
  BY <1>1, HeadKeeps DEF BaseType, WorkerType, LaneType
<1>4. \A r \in Ops : \A m \in Lanes : \A i \in Nat : InBacklog(r, m, i)' <=>
         IF m = l THEN i # 0 /\ InBacklog(r, l, i + 1) ELSE InBacklog(r, m, i)
  BY <1>1, BacklogTail
<1>5. ASSUME NEW r \in Ops, Given(r) PROVE Given(r)'
  <2>1. CASE outcome[r] # <<>>
    BY <1>1, <2>1 DEF Given
  <2>2. ASSUME NEW m \in Lanes, InHand(r, m) PROVE Given(r)'
    <3>1. m # l
      BY <1>2, <2>2 DEF InHand
    <3> QED BY <1>3, <2>2, <3>1 DEF Given, InHand
  <2>3. ASSUME NEW m \in Lanes, NEW i \in Nat, InBacklog(r, m, i) PROVE Given(r)'
    <3>1. CASE m # l
      <4>1. InBacklog(r, m, i)'
        BY <1>4, <2>3, <3>1
      <4> QED BY <4>1 DEF Given, Queued
    <3>2. CASE m = l /\ i = 1
      <4>1. InHand(r, l)'
        BY <1>3, <2>3, <3>2 DEF InHand, InBacklog
      <4> QED BY <4>1 DEF Given
    <3>3. CASE m = l /\ i # 1
      <4>1. i \in DOMAIN backlog[l]
        BY <2>3, <3>3 DEF InBacklog
      <4>2. PICK h \in Nat : h + 1 = i /\ h # 0
        <5>1. i - 1 \in Nat /\ (i - 1) + 1 = i /\ i - 1 # 0
          BY <1>2, <3>3, <4>1
        <5> QED BY <5>1
      <4>3. InBacklog(r, l, h)'
        BY <1>4, <2>3, <3>3, <4>2
      <4> QED BY <4>3 DEF Given, Queued
    <3> QED BY <3>1, <3>2, <3>3
  <2> QED BY <1>5, <2>1, <2>2, <2>3 DEF Given, Queued
<1>6. ASSUME NEW r \in Ops, Queued(r)' PROVE Queued(r)
  <2>1. PICK m \in Lanes, i \in Nat : InBacklog(r, m, i)'
    BY <1>6 DEF Queued
  <2>2. InBacklog(r, m, i) \/ InBacklog(r, m, i + 1)
    BY <1>4, <2>1
  <2>3. i + 1 \in Nat
    OBVIOUS
  <2> QED BY <2>2, <2>3 DEF Queued
<1>7. ASSUME NEW r \in Ops, BehindLate(r)' PROVE BehindLate(r)
  <2>1. PICK m \in Lanes : \E i \in Nat :
           InBacklog(r, m, i)' /\ \E j \in 1..i : backlog'[m][j].late
    BY <1>7 DEF BehindLate
  <2>2. PICK i \in Nat : InBacklog(r, m, i)' /\ \E j \in 1..i : backlog'[m][j].late
    BY <2>1
  <2>3. PICK j \in 1..i : backlog'[m][j].late
    BY <2>2
  <2>4. CASE m # l
    <3>1. InBacklog(r, m, i) /\ backlog[m][j].late
      BY <1>3, <1>4, <2>2, <2>3, <2>4
    <3> QED BY <3>1 DEF BehindLate
  <2>5. CASE m = l
    <3>1. InBacklog(r, l, i + 1)
      BY <1>4, <2>2, <2>5
    <3>2. j + 1 \in 1..(i + 1) /\ j \in Nat /\ j # 0 /\ i + 1 \in Nat
      BY <2>3
    <3>3. j + 1 \in DOMAIN backlog[l]
      <4>1. i + 1 \in DOMAIN backlog[l]
        BY <3>1 DEF InBacklog
      <4> QED BY <1>2, <3>2, <4>1
    <3>4. Tail(backlog[l])[j] = backlog[l][j + 1]
      BY <1>1, <1>2, <3>2, <3>3, SeqTail
    <3>5. backlog[l][j + 1].late
      BY <1>3, <2>3, <2>5, <3>4
    <3> QED BY <3>1, <3>2, <3>5 DEF BehindLate
  <2> QED BY <2>4, <2>5
<1>8. \A p \in Ops : Passed(p)' => Passed(p)
  BY <1>1 DEF Passed, InCh
<1>9. ASSUME NEW p \in Ops, Begun(p)' PROVE Begun(p)
  <2>1. PICK m \in Lanes : cur'[m].kind = "task" /\ cur'[m].op = p
    BY <1>9 DEF Begun
  <2>2. m # l
    BY <1>2, <1>3, <2>1
  <2> QED BY <1>3, <2>1, <2>2 DEF Begun
<1>10. owes' = owes /\ \A r \in Ops : outcome[r] # <<>> => outcome'[r] # <<>>
  BY <1>1
<1> QED BY <1>5, <1>6, <1>7, <1>8, <1>9, <1>10, OwesKept

\* The worker receives a task: the releases it owes are not queued, and no
\* worker has one in hand.
LEMMA OwesReceive ==
    ASSUME BaseType, OwesInv, NEW l \in Lanes, Handling(l), Receive(l),
           InHandOn(OpKey[Head(ch[l])], l)
    PROVE  OwesInv'
<1>1. /\ wpc[l] = "select" /\ ch[l] # <<>>
      /\ ch' = [ch EXCEPT ![l] = Tail(@)]
      /\ cur' = [cur EXCEPT ![l] = TaskEntry(Head(ch[l]))]
      /\ UNCHANGED <<pc, backlog, outcome, owes>>
  BY DEF Receive, WorkerFrame, submitVars
<1>2. /\ cur[l].kind = "none" /\ ch[l] \in Seq(Ops)
  BY <1>1 DEF Handling, BaseType, LaneType
<1>3. /\ cur'[l].op = Head(ch[l])
      /\ \A m \in Lanes : m # l => cur'[m] = cur[m]
  BY <1>1 DEF BaseType, WorkerType, TaskEntry
<1>4. ASSUME NEW r \in Ops
      PROVE  (Queued(r)' <=> Queued(r)) /\ (BehindLate(r)' <=> BehindLate(r))
  BY <1>1 DEF Queued, BehindLate, InBacklog
<1>5. ASSUME NEW r \in Ops, Given(r) PROVE Given(r)'
  <2>1. ASSUME NEW m \in Lanes, InHand(r, m) PROVE InHand(r, m)'
    BY <1>2, <1>3, <2>1 DEF InHand
  <2> QED BY <1>1, <1>4, <1>5, <2>1 DEF Given
<1>6. ASSUME NEW p \in Ops, Passed(p)' PROVE Passed(p)
  <2>1. ASSUME NEW m \in Lanes, NEW i \in Nat, InCh(p, m, i)' PROVE Passed(p)
    <3>1. InCh(p, m, i) \/ InCh(p, m, i + 1)
      BY <1>1, <2>1, ChTail
    <3>2. i + 1 \in Nat
      OBVIOUS
    <3> QED BY <3>1, <3>2 DEF Passed
  <2> QED BY <1>1, <1>6, <2>1 DEF Passed
<1>7. ASSUME NEW p \in Ops, Begun(p)', ~Begun(p), NEW r \in owes[p]
      PROVE  outcome[r] # <<>>
  <2>1. PICK m \in Lanes : cur'[m].kind = "task" /\ cur'[m].op = p
    BY <1>7 DEF Begun
  <2>2. p = Head(ch[l])
    BY <1>3, <1>7, <2>1 DEF Begun
  <2>3. InCh(p, l, 1)
    BY <1>1, <1>2, <2>2, SeqElements DEF InCh
  <2>4. Passed(p)
    BY <2>3 DEF Passed
  <2>5. r \in Ops /\ OpKey[r] = OpKey[p] /\ Given(r) /\ ~Queued(r)
    BY <2>4 DEF OwesInv, Owed
  <2>6. ASSUME NEW n \in Lanes PROVE ~InHand(r, n)
    BY <1>2, <2>2, <2>5 DEF InHand, InHandOn
  <2> QED BY <2>5, <2>6 DEF Given
<1>8. \A p \in Ops : Begun(p)' => Begun(p) \/ \A r \in owes[p] : outcome[r] # <<>>
  BY <1>7
<1>9. owes' = owes /\ \A r \in Ops : outcome[r] # <<>> => outcome'[r] # <<>>
  BY <1>1
<1> QED BY <1>4, <1>5, <1>6, <1>8, <1>9, OwesKept

\* The worker puts down what it has in hand.
LEMMA OwesComplete ==
    ASSUME BaseType, OwesInv, NEW l \in Lanes, Handling(l), Complete(l) \/ LeaveBarrier(l)
    PROVE  OwesInv'
<1>1. /\ cur' = [cur EXCEPT ![l] = NoEntry]
      /\ UNCHANGED <<pc, ch, backlog, owes>>
  BY DEF Complete, LeaveBarrier, WorkerFrame, submitVars
<1>2. cur'[l].kind = "none" /\ \A m \in Lanes : m # l => cur'[m] = cur[m]
  BY <1>1 DEF NoEntry, BaseType, WorkerType
<1>3. /\ \A r \in Ops : outcome[r] # <<>> => outcome'[r] # <<>>
      /\ \A r \in Ops : InHand(r, l) => outcome'[r] # <<>>
  <2>1. CASE Complete(l)
    <3>1. PICK how : outcome' = [outcome EXCEPT ![cur[l].op] = Append(@, how)]
      BY <2>1 DEF Complete, Resolve
    <3>2. cur[l].op \in Ops
      BY <2>1 DEF Complete, Handling
    <3>3. \A q \in Seq(Results) : Append(q, how) # <<>>
      BY AppendResolves
    <3>4. outcome'[cur[l].op] # <<>>
      BY <3>1, <3>2, <3>3 DEF BaseType, HistoryType
    <3>5. \A r \in Ops : r # cur[l].op => outcome'[r] = outcome[r]
      BY <3>1 DEF BaseType, HistoryType
    <3> QED BY <3>4, <3>5 DEF InHand
  <2>2. CASE LeaveBarrier(l)
    <3>1. outcome' = outcome /\ cur[l].kind = "barrier"
      BY <2>2 DEF LeaveBarrier, Handling
    <3> QED BY <3>1 DEF InHand
  <2> QED BY <2>1, <2>2
<1>4. SameMarks
  BY <1>1 DEF SameMarks
<1>5. \A r \in Ops : (Queued(r)' <=> Queued(r)) /\ (BehindLate(r)' <=> BehindLate(r))
  BY <1>4, BacklogKeeps
<1>6. ASSUME NEW r \in Ops, Given(r) PROVE Given(r)'
  <2>1. ASSUME NEW m \in Lanes, InHand(r, m) PROVE Given(r)'
    <3>1. outcome'[r] # <<>> \/ InHand(r, m)'
      BY <1>2, <1>3, <2>1 DEF InHand
    <3> QED BY <3>1 DEF Given
  <2> QED BY <1>3, <1>5, <1>6, <2>1 DEF Given
<1>7. \A p \in Ops : Passed(p)' => Passed(p)
  BY <1>1 DEF Passed, InCh
<1>8. \A p \in Ops : Begun(p)' => Begun(p)
  BY <1>2 DEF Begun
<1>9. owes' = owes
  BY <1>1
<1> QED BY <1>3, <1>5, <1>6, <1>7, <1>8, <1>9, OwesKept

\* The steps of a worker.
LEMMA OwesLane ==
    ASSUME BaseType, OwesInv, NEW l \in Lanes, Handling(l),
           ch[l] # <<>> => InHandOn(OpKey[Head(ch[l])], l), WorkerStep(l)
    PROVE  OwesInv'
<1>1. CASE NoMandatory(l)
  <2>1. UNCHANGED <<pc, owes, ch, cur, outcome>>
    BY <1>1 DEF NoMandatory, WorkerFrame, submitVars
  <2>2. SameMarks
    <3>1. CASE backlog' = backlog
      BY <3>1 DEF SameMarks
    <3>2. CASE backlog[l] # <<>> /\ backlog' = [backlog EXCEPT ![l][1] = Head1(l)]
      <4>1. /\ backlog'[l] = [backlog[l] EXCEPT ![1] = Head1(l)]
            /\ \A m \in Lanes : m # l => backlog'[m] = backlog[m]
        BY <3>2 DEF BaseType, LaneType
      <4>2. /\ DOMAIN backlog'[l] = DOMAIN backlog[l]
            /\ \A i \in DOMAIN backlog[l] :
                  /\ backlog'[l][i].kind = backlog[l][i].kind
                  /\ backlog'[l][i].op = backlog[l][i].op
                  /\ backlog'[l][i].late = backlog[l][i].late
        BY <3>2, <4>1, HeadKeeps DEF BaseType, LaneType
      <4> QED BY <4>1, <4>2 DEF SameMarks
    <3> QED BY <1>1, <3>1, <3>2 DEF NoMandatory
  <2> QED BY <2>1, <2>2, OwesMoves
<1>2. CASE TakeWake(l) \/ SeeFence(l) \/ SeeClosed(l) \/ FinishWorker(l) \/ ParkBarrier(l)
  <2>1. UNCHANGED <<pc, owes, ch, backlog, cur, outcome>>
    BY <1>2 DEF TakeWake, SeeFence, SeeClosed, FinishWorker, ParkBarrier, IdleFrame,
       WorkerFrame, submitVars
  <2> QED BY <2>1, OwesSame
<1>3. CASE Receive(l)
  BY <1>3, OwesReceive DEF Receive
<1> QED BY <1>1, <1>2, <1>3, OwesTake, OwesComplete DEF WorkerStep


\* A call that moves is no nearer to its send than it was.
LEMMA OwesPlace ==
    ASSUME BaseType, NEW o \in Ops, NEW x, pc' = [pc EXCEPT ![o] = x],
           x \in {"admit", "send", "blocked"} => pc[o] \in {"admit", "send", "blocked"}
    PROVE  \A p \in Ops : pc'[p] \in {"admit", "send", "blocked"}
                            => pc[p] \in {"admit", "send", "blocked"}
BY DEF BaseType, SubmitType

\* A failed attempt.
LEMMA OwesFail ==
    ASSUME BaseType, NEW o \in Ops, Fail(o)
    PROVE  /\ \A r \in Ops : outcome[r] # <<>> => outcome'[r] # <<>>
           /\ \A p \in Ops : pc'[p] \in {"admit", "send", "blocked"}
                               => pc[p] \in {"admit", "send", "blocked"}
<1>1. PICK x : x = IF o \in Closing THEN "handoff" ELSE Return(o)
  OBVIOUS
<1>2. pc' = [pc EXCEPT ![o] = x] /\ x \notin {"admit", "send", "blocked"}
  BY <1>1 DEF Fail, Return
<1>3. outcome' = outcome \/ \E r : outcome' = [outcome EXCEPT ![r] = Append(@, "failed")]
  BY DEF Fail
<1> QED BY <1>2, <1>3, OwesPlace, StaysResolved

\* The steps of a producer; first is where beginSubmit leads.
LEMMA OwesProducer ==
    ASSUME BaseType, OnePlace, LateInv, OwesInv, NEW o \in Ops,
           NEW first \in QueuePc \ {"admit", "send", "blocked"},
           pc[o] \in {"wait", "send", "blocked"} => at[o] \in Lanes,
           pc[o] = "wait" => QueuedOn(OpKey[o], at[o]),
           \/ BeginSubmit(o, first)
           \/ WaitForMandatoryCleanup(o) \/ FenceProgress(o) \/ FenceStopped(o)
           \/ CancelBeforeAdmit(o) \/ AdmitTask(o) \/ SendTask(o)
           \/ SendOnClosed(o) \/ SendBlocks(o)
           \/ EndSubmit(o) \/ EndSubmitTest(o) \/ \E r : AbandonSend(o, r)
    PROVE  OwesInv'
<1>1. CASE BeginSubmit(o, first) /\ ~stopped
  BY <1>1, OwesBegin
<1>2. CASE WaitForMandatoryCleanup(o)
  BY <1>2, OwesWait DEF WaitForMandatoryCleanup
<1>3. CASE SendTask(o)
  BY <1>3, OwesSend DEF SendTask
<1>4. ASSUME UNCHANGED backlog PROVE SameMarks
  BY <1>4 DEF SameMarks
<1>5. CASE (BeginSubmit(o, first) /\ stopped) \/ FenceStopped(o) \/ CancelBeforeAdmit(o)
  <2>1. UNCHANGED <<owes, ch, cur, backlog>> /\ Fail(o)
    BY <1>5 DEF BeginSubmit, FenceStopped, CancelBeforeAdmit, ProducerFrame, laneVars,
       workerVars, historyVars
  <2> QED BY <2>1, <1>4, OwesFail, OwesMoves
<1>6. CASE \/ FenceProgress(o) \/ AdmitTask(o) \/ SendOnClosed(o) \/ SendBlocks(o)
           \/ EndSubmit(o) \/ EndSubmitTest(o)
  <2>1. UNCHANGED <<owes, ch, cur, backlog, outcome>>
    BY <1>6 DEF FenceProgress, AdmitTask, SendOnClosed, SendBlocks, EndSubmit,
       EndSubmitTest, TestStop, ProducerFrame, laneVars, workerVars, historyVars
  <2>2. \/ UNCHANGED pc
        \/ \E x : /\ pc' = [pc EXCEPT ![o] = x]
                  /\ x \in {"admit", "send", "blocked"}
                       => pc[o] \in {"admit", "send", "blocked"}
    BY <1>6 DEF FenceProgress, AdmitTask, SendOnClosed, SendBlocks, EndSubmit,
       EndSubmitTest, LeaveSubmit, TestStop, submitVars
  <2>3. \A p \in Ops : pc'[p] \in {"admit", "send", "blocked"}
                         => pc[p] \in {"admit", "send", "blocked"}
    BY <2>2, OwesPlace
  <2> QED BY <2>1, <2>3, <1>4, OwesMoves
<1>7. ASSUME NEW r, AbandonSend(o, r) PROVE OwesInv'
  <2>1. PICK l \in Lanes : l = at[o]
    BY <1>7 DEF AbandonSend
  <2>2. /\ backlog' = [backlog EXCEPT ![l] = RaiseTargets(@, ticket[o])]
        /\ UNCHANGED <<owes, ch, cur>> /\ Fail(o)
    BY <2>1, <1>7 DEF AbandonSend, UnmarkSent, workerVars, historyVars
  <2>3. backlog[l] \in Seq(EntryType)
    BY DEF BaseType, LaneType
  <2>4. /\ backlog'[l] = RaiseTargets(backlog[l], ticket[o])
        /\ \A m \in Lanes : m # l => backlog'[m] = backlog[m]
    BY <2>2 DEF BaseType, LaneType
  <2>5. SameMarks
    BY <2>3, <2>4, RaiseKeeps DEF SameMarks
  <2> QED BY <2>2, <2>5, OwesFail, OwesMoves
<1> QED BY <1>1, <1>2, <1>3, <1>5, <1>6, <1>7

\* The steps of a handoff; n is the lane that a late one finds, and retry is
\* where a refused one goes on.
LEMMA OwesRelease ==
    ASSUME BaseType, OnePlace, OwesInv, NEW o \in Ops, NEW n \in Lanes \cup {NoLane},
           NEW retry \in {"late", "handoff"}, pc[o] = "enqueue" => at[o] \in Lanes,
           \/ EnqueueCleanup(o) \/ EndHandoff(o, retry) \/ EndHandoffTest(o, retry)
           \/ HandoffLate(o, n) \/ BeginLifecycleCleanup(o) \/ EndLifecycleCleanup(o)
    PROVE  OwesInv'
<1>1. UNCHANGED <<owes, ch, cur>>
  BY DEF EnqueueCleanup, HandoffLate, EndHandoff, EndHandoffTest, TestStop,
     BeginLifecycleCleanup, EndLifecycleCleanup, HandoffFrame, workerVars, historyVars,
     laneVars, EnqueueMandatory
<1>2. \E x : pc' = [pc EXCEPT ![o] = x] /\ x \notin {"admit", "send", "blocked"}
  BY DEF EnqueueCleanup, HandoffLate, EndHandoff, EndHandoffTest, LeaveSubmit, TestStop,
     BeginLifecycleCleanup, EndLifecycleCleanup, Return
<1>3. \A p \in Ops : pc'[p] \in {"admit", "send", "blocked"}
                       => pc[p] \in {"admit", "send", "blocked"}
  BY <1>2, OwesPlace
<1>4. CASE UNCHANGED laneVars
  <2>1. outcome' = outcome \/ \E r : outcome' = [outcome EXCEPT ![r] = Append(@, "failed")]
    BY DEF EnqueueCleanup, HandoffLate, EndHandoff, EndHandoffTest, TestStop,
       BeginLifecycleCleanup, EndLifecycleCleanup, Resolve
  <2>2. SameMarks
    BY <1>4 DEF laneVars, SameMarks
  <2> QED BY <1>1, <1>3, <2>1, <2>2, StaysResolved, OwesMoves
<1>5. CASE ~UNCHANGED laneVars
  <2>1. EnqueueCleanup(o) \/ HandoffLate(o, n)
    BY <1>5 DEF EndHandoff, EndHandoffTest, TestStop, BeginLifecycleCleanup,
       EndLifecycleCleanup
  <2>2. \E l \in Lanes, w \in BOOLEAN : EnqueueMandatory(l, Entry("release", o, l, w))
    BY <1>5, <2>1 DEF EnqueueCleanup, HandoffLate
  <2>3. PICK l \in Lanes, w \in BOOLEAN : EnqueueMandatory(l, Entry("release", o, l, w))
    BY <2>2
  <2>4. PICK e \in EntryType : e = Entry("release", o, l, w)
    BY EntryTyped
  <2>5. e.op = o /\ backlog' = [backlog EXCEPT ![l] = Append(@, e)]
    BY <2>3, <2>4 DEF Entry, EnqueueMandatory
  <2>6. pc[o] \in CallPc /\ UNCHANGED outcome
    BY <2>1, CallPcFacts DEF EnqueueCleanup, HandoffLate
  <2>7. ~Given(o)
    BY <2>6, NotGiven
  <2> QED BY <1>1, <1>3, <2>5, <2>6, <2>7, OwesEnqueue
<1> QED BY <1>4, <1>5

\* A barrier is queued.
LEMMA OwesBarrier ==
    ASSUME BaseType, OwesInv, NEW s \in Sections, NEW l \in Lanes,
           EnqueueMandatory(l, Entry("barrier", s, l, FALSE)),
           UNCHANGED <<owes, cur, outcome>>,
           \A p \in Ops : pc'[p] \in {"admit", "send", "blocked"}
                            => pc[p] \in {"admit", "send", "blocked"}
    PROVE  OwesInv'
<1>1. PICK e \in EntryType : e = Entry("barrier", s, l, FALSE)
  BY EntryTyped
<1>2. /\ e.kind = "barrier" /\ UNCHANGED ch
      /\ backlog' = [backlog EXCEPT ![l] = Append(@, e)]
  BY <1>1 DEF Entry, EnqueueMandatory
<1> QED BY <1>2, OwesEnqueue

\* The steps of a section.
LEMMA OwesSection ==
    ASSUME BaseType, OwesInv, NEW s \in Sections, NEW ls, NEW done,
           SectionMove(s, ls, done)
    PROVE  OwesInv'
<1>1. UNCHANGED <<pc, owes, cur>>
  BY SectionFramed DEF SectionFrame, submitVars, workerVars, historyVars
<1>2. CASE UNCHANGED laneVars
  <2>1. outcome' = outcome \/ \E r : outcome' = [outcome EXCEPT ![r] = Append(@, "failed")]
    BY DEF SectionMove, TakeTurn, SectionStep, SectionFails, InstallExclusive,
       AwaitRunning, BeginSection, PlaceBarrier, CollectDone, StartFn, EndFn,
       WithdrawExclusive, EndDeferred, ReleaseLanes, SectionMoves, Resolve
  <2>2. SameMarks
    BY <1>2 DEF laneVars, SameMarks
  <2> QED BY <1>1, <1>2, <2>1, <2>2, StaysResolved, OwesMoves DEF laneVars
<1>3. CASE ~UNCHANGED laneVars
  <2>1. PlaceBarrier(s)
    BY <1>3, SectionLanes
  <2>2. PICK l \in todo : EnqueueMandatory(l, Entry("barrier", s, l, FALSE))
    BY <1>3, <2>1 DEF PlaceBarrier
  <2>3. l \in Lanes /\ UNCHANGED outcome
    BY <2>1 DEF BaseType, SectionType, PlaceBarrier
  <2> QED BY <1>1, <2>2, <2>3, OwesBarrier
<1> QED BY <1>2, <1>3

\* A task that starts finds the releases it owes done.
LEMMA OwesImplies ==
    ASSUME OwesInv, \A l \in Lanes : Handling(l)
    PROVE  NoOvertake
<1> SUFFICES ASSUME NEW l \in Lanes, Executing(l), cur[l].kind = "task",
                    NEW r \in owes[cur[l].op]
             PROVE  outcome[r] # <<>>
  BY DEF NoOvertake
<1>1. cur[l].op \in Ops
  BY DEF Handling, Executing
<1>2. Begun(cur[l].op)
  BY <1>1 DEF Begun
<1> QED BY <1>1, <1>2 DEF OwesInv, Owed

=============================================================================
