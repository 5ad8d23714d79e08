------------------------- MODULE DynamicDrainProofs -------------------------
(***************************************************************************)
(* What the Dynamic strategy leaves behind, and its two fences, for every    *)
(* number of calls, keys, lanes, sections and stop calls.                    *)
(*                                                                         *)
(* A call's work is at one place (OnePlace, of LifecycleProofs), although   *)
(* its lane may be new or gone.  The lanes a section must hold are those in *)
(* the map; one that is created while the section collects raises the       *)
(* number it expects, and one that is created afterwards is not waited for  *)
(* at all.  So at fn not every lane with a barrier reported: each is Fenced, *)
(* that is, does nothing before it waits for the section.                   *)
(*                                                                         *)
(* The fences are those of FenceProofs.  A producer that waits for the      *)
(* releases of its key holds the gate of the key's lane, so they are queued *)
(* there and nowhere else.                                                  *)
(***************************************************************************)
EXTENDS DynamicProofs, FenceProofs

\* How the worker of a lane ends: its channel is closed, or the lane retired,
\* with nothing in it, and it exits with nothing queued.
Ends ==
    \A l \in Lanes :
        /\ wpc[l] \in {"finish", "park", "exited"} => ended[l]
        /\ ended[l] => closed[l] /\ ch[l] = <<>>
        /\ wpc[l] = "exited" => backlog[l] = <<>>

\* The order of a stop: the map is closed to new lanes before the workers are
\* waited for, then come the sections and the counted releases.
StopOrder ==
    /\ sealed => /\ stopped /\ tracked = {}
                 /\ \A s \in Sections : ~SectionRegistered(s)
    /\ \A x \in Stoppers :
          /\ stpc[x] \in {"closing", "workers", "sections", "cleanups", "returned"}
                => stopping
          /\ stpc[x] \in {"sections", "cleanups", "returned"}
                => \A l \in Lanes : wpc[l] \in {"exited", "unborn"}
          /\ stpc[x] \in {"cleanups", "returned"}
                => \A s \in Sections : ~SectionRegistered(s)
          /\ stpc[x] = "returned" => sealed

\* A release that runs on its caller is counted, and once a section has waited
\* for those that ran none runs off the lanes.
HoldPc == {"barriers", "collect", "check", "fn"}
OffLanes ==
    /\ \A o \in Ops : pc[o] = "cleanup" => o \in tracked \/ sealed
    /\ \A s \in Sections : spc[s] \in HoldPc =>
          \A o \in Ops : pc[o] \notin {"cleanup", "cleanupHere"}

\* A section counts its barriers, and no more of them report than lanes are
\* held.  When it has collected, the lanes that have one wait for it.
Barriers(s) ==
    /\ spc[s] \in {"idle", "begin", "install"} => Placed(s) = {}
    /\ spc[s] # "ended" =>
          /\ expected[s] = Cardinality(Placed(s))
          /\ parked[s] <= Cardinality(HeldLanes(s))
    /\ spc[s] \in {"running", "barriers"} => todo \cap Placed(s) = {}
    /\ spc[s] \in {"check", "fn"} => \A l \in Placed(s) : Fenced(l)

\* Every lane in the map has its barrier or will get it.  A section that meets
\* the stop signal may miss a lane: then its callback does not start.
Surrounded(s) ==
    (spc[s] = "fn" \/ (spc[s] \in {"running", "barriers", "collect", "check"} /\ ~stopped))
        => \A k \in Keys : queues[k] # NoLane =>
              \/ queues[k] \in Placed(s)
              \/ spc[s] \in {"running", "barriers"} /\ queues[k] \in todo

SectionHold == OffLanes /\ \A s \in Sections : Barriers(s) /\ Surrounded(s)

DrainInv == KeyOrder /\ Ends /\ StopOrder /\ OnePlace /\ SectionHold

-----------------------------------------------------------------------------
(* Where a call's work is.                                                  *)

\* The steps around the map: the call keeps its work, or fails.
LEMMA PlaceRoute ==
    ASSUME LaneInv, OnePlace, NEW o \in Ops,
           \/ SubmitRoute(o) \/ SubmitLookup(o) \/ EnterGate(o)
           \/ AwaitBarrier(o, "waitBarrier", "route")
           \/ AwaitBarrier(o, "hwaitBarrier", "handoff")
           \/ ScheduleCleanup(o) \/ CleanupLookup(o) \/ CleanupBegin(o)
    PROVE  OnePlace'
<1>0. BaseType
  BY DEF LaneInv
<1>1. UNCHANGED <<ch, backlog, cur, deferred>>
  BY DEF SubmitRoute, SubmitLookup, EnterGate, AwaitBarrier, ScheduleCleanup, CleanupLookup,
         CleanupBegin, Lookup, RouteFrame, HandoffFrame, laneVars, workerVars, sectionVars
<1>2. \/ Fail(o) /\ pc[o] \in {"route", "lookup"}
      \/ /\ pc[o] \in {"route", "lookup", "gate", "waitBarrier", "hwaitBarrier", "handoff",
                       "hlookup", "hbegin", "hlimit"}
         /\ outcome' = outcome
         /\ \E x \in {"lookup", "gate", "create", "waitBarrier", "route", "wait", "handoff",
                      "hlookup", "late", "hwaitBarrier", "hbegin", "hcreate", "enqueue",
                      "nolane"} : pc' = [pc EXCEPT ![o] = x]
  BY DEF SubmitRoute, SubmitLookup, EnterGate, AwaitBarrier, ScheduleCleanup, CleanupLookup,
         CleanupBegin, Lookup, Goto
<1>3. CASE Fail(o) /\ pc[o] \in {"route", "lookup"}
  BY <1>0, <1>1, <1>3, CallPcFacts, BacklogSame, PlaceFail
<1>4. ASSUME NEW x \in CallPc, pc[o] \in CallPc, pc' = [pc EXCEPT ![o] = x],
             outcome' = outcome
      PROVE  OnePlace'
  <2>1. \A p \in Ops : pc'[p] \in CallPc <=> pc[p] \in CallPc
    BY <1>0, <1>4 DEF BaseType, SubmitType
  <2> QED BY <1>1, <1>4, <2>1, PlaceMoves
<1> QED BY <1>2, <1>3, <1>4, CallPcFacts

\* The decisions under s.mu.Lock; a new lane has a barrier at most.
LEMMA PlaceCreate ==
    ASSUME LaneInv, OnePlace, NEW o \in Ops, SubmitCreate(o) \/ CleanupCreate(o)
    PROVE  OnePlace'
<1>0. BaseType
  BY DEF LaneInv
<1>1. UNCHANGED <<ch, cur, deferred>>
  BY DEF SubmitCreate, CleanupCreate, Create, NewLane, EnqueueMandatory, laneVars, workerVars,
         sectionVars
<1>2. \A p \in Ops : \A l \in Lanes : \A i \in Nat :
         InBacklog(p, l, i)' <=> InBacklog(p, l, i)
  <2>1. CASE backlog' = backlog
    BY <2>1, BacklogSame
  <2>2. CASE backlog' # backlog
    <3>1. PICK n \in Unborn : NewLane(n, OpKey[o]) /\ active # NoSection
      BY <2>2, CreateMap DEF laneVars, NewLane
    <3>2. n \in Lanes /\ active \in Sections
      BY <1>0, <3>1 DEF Unborn, BaseType, SectionType
    <3>3. PICK e \in EntryType : e = Entry("barrier", active, n, FALSE)
      BY <1>0, <3>2, EntryTyped
    <3>4. e.kind = "barrier" /\ backlog' = [backlog EXCEPT ![n] = Append(@, e)]
      BY <3>1, <3>3 DEF NewLane, EnqueueMandatory, Entry
    <3> QED BY <1>0, <3>2, <3>4, BacklogAppend
  <2> QED BY <2>1, <2>2
<1>3. \/ Fail(o) /\ pc[o] = "create"
      \/ /\ pc[o] \in {"create", "hcreate"} /\ outcome' = outcome
         /\ \E x \in {"waitBarrier", "gate", "hwaitBarrier", "hbegin", "hlimit", "late"} :
               pc' = [pc EXCEPT ![o] = x]
  BY DEF SubmitCreate, CleanupCreate, Create, Goto
<1>4. CASE Fail(o) /\ pc[o] = "create"
  BY <1>0, <1>1, <1>2, <1>4, CallPcFacts, PlaceFail
<1>5. ASSUME NEW x \in CallPc, pc[o] \in CallPc, pc' = [pc EXCEPT ![o] = x],
             outcome' = outcome
      PROVE  OnePlace'
  <2>1. \A p \in Ops : pc'[p] \in CallPc <=> pc[p] \in CallPc
    BY <1>0, <1>5 DEF BaseType, SubmitType
  <2>2. \A p \in Ops : \A l \in Lanes : InHand(p, l)' <=> InHand(p, l)
    BY <1>1 DEF InHand
  <2> QED BY <1>1, <1>2, <1>5, <2>1, <2>2, PlaceKept
<1> QED BY <1>3, <1>4, <1>5, CallPcFacts

\* cleanupWithoutLiveLane: the release is refused, postponed or run here.
LEMMA PlaceHere ==
    ASSUME LaneInv, OnePlace, NEW o \in Ops,
           CleanupWithoutLiveLane(o) \/ EndCleanupHere(o)
    PROVE  OnePlace'
<1>0. BaseType
  BY DEF LaneInv
<1>1. UNCHANGED <<ch, backlog, cur>>
  BY DEF CleanupWithoutLiveLane, EndCleanupHere, HandoffFrame, laneVars, workerVars
<1>2. CASE EndCleanupHere(o)
  <2>1. /\ pc[o] = "cleanupHere" /\ pc' = [pc EXCEPT ![o] = "taken"]
        /\ outcome' = [outcome EXCEPT ![o] = Append(@, "failed")] /\ deferred' = deferred
    BY <1>2 DEF EndCleanupHere, Resolve, sectionVars
  <2> QED BY <1>0, <1>1, <2>1, CallPcFacts, BacklogSame, PlaceResolve
<1>3. CASE CleanupWithoutLiveLane(o)
  <2>1. /\ pc[o] = "nolane" /\ outcome' = outcome
        /\ \/ pc' = [pc EXCEPT ![o] = "taken"] /\ deferred' = Append(deferred, o)
           \/ /\ \E x \in {"refused", "cleanupHere"} : pc' = [pc EXCEPT ![o] = x]
              /\ deferred' = deferred
    BY <1>3 DEF CleanupWithoutLiveLane, Goto
  <2>2. CASE pc' = [pc EXCEPT ![o] = "taken"] /\ deferred' = Append(deferred, o)
    BY <1>0, <1>1, <2>1, <2>2, CallPcFacts, PlacePostpone
  <2>3. ASSUME NEW x \in CallPc, pc' = [pc EXCEPT ![o] = x], deferred' = deferred
        PROVE  OnePlace'
    <3>1. \A p \in Ops : pc'[p] \in CallPc <=> pc[p] \in CallPc
      BY <1>0, <2>1, <2>3, CallPcFacts DEF BaseType, SubmitType
    <3> QED BY <1>1, <2>1, <2>3, <3>1, PlaceMoves
  <2> QED BY <2>1, <2>2, <2>3, CallPcFacts
<1> QED BY <1>2, <1>3

\* The steps of calls.
LEMMA PlaceOp ==
    ASSUME LaneInv, OnePlace, NEW o \in Ops, Submit(o) \/ OpStep(o) \/ Cancel(o)
    PROVE  OnePlace'
<1>1. /\ BaseType /\ {"route", "handoff"} \subseteq CallPc
      /\ pc[o] \in {"send", "blocked"} => at[o] \in Lanes
      /\ pc[o] = "enqueue" => at[o] \in Lanes
  BY CallPcFacts DEF LaneInv, Arrivals, GatePc, NearPc
<1>2. queues[OpKey[o]] \in Lanes \cup {NoLane}
  BY KeyOf DEF LaneInv, MapType
<1>3. PICK n \in Lanes \cup {NoLane} : n = queues[OpKey[o]]
  BY <1>2
<1>4. CASE \/ BeginSubmit(o, "route")
           \/ WaitForMandatoryCleanup(o) \/ FenceProgress(o) \/ FenceStopped(o)
           \/ CancelBeforeAdmit(o) \/ AdmitTask(o) \/ SendTask(o)
           \/ SendOnClosed(o) \/ SendBlocks(o)
           \/ EndSubmit(o) \/ EndSubmitTest(o) \/ \E r : AbandonSend(o, r)
  BY <1>1, <1>4, PlaceProducer
<1>5. CASE \/ EnqueueCleanup(o)
           \/ EndHandoff(o, "handoff") \/ EndHandoffTest(o, "handoff")
           \/ HandoffLate(o, n)
           \/ BeginLifecycleCleanup(o) \/ EndLifecycleCleanup(o)
  BY <1>1, <1>5, PlaceRelease
<1>6. HandoffLate(o, queues[OpKey[o]]) => HandoffLate(o, n)
  BY <1>3
<1> QED BY <1>4, <1>5, <1>6, PlaceRoute, PlaceCreate, PlaceHere DEF Submit, OpStep, Cancel

\* Every step.
LEMMA NextPlace ==
    ASSUME LaneOrder, OnePlace, [Next]_vars
    PROVE  OnePlace'
<1>0. LaneInv /\ BaseType /\ Turn
  BY DEF LaneOrder, LaneInv
<1>1. ASSUME NEW l \in Lanes, LaneStep(l) PROVE OnePlace'
  <2>1. CASE SeeQuit(l)
    <3>1. UNCHANGED <<pc, ch, backlog, cur, deferred, outcome>>
      BY <1>0, <2>1, QuitFindsNothing DEF submitVars, laneVars, sectionVars
    <3> QED BY <3>1, PlaceMoves
  <2>2. CASE WorkerStep(l)
    <3>1. /\ wpc[l] \in {"poll", "select"} => cur[l].kind = "none"
          /\ wpc[l] \in {"run", "abort"} =>
                cur[l].kind \in {"task", "release"} /\ cur[l].op \in Ops
          /\ wpc[l] \in {"barrier", "held"} => cur[l].kind = "barrier"
          /\ \A i \in DOMAIN backlog[l] : backlog[l][i].kind \in {"release", "barrier"}
      BY <1>0 DEF LaneInv, Hands, HandFits, BusyPc, Home, AtHome, Fits
    <3> QED BY <1>0, <2>2, <3>1, PlaceWorker
  <2> QED BY <1>1, <2>1, <2>2 DEF LaneStep
<1>2. ASSUME NEW s \in Sections,
             \/ (TakeTurn(s) \/ SectionFails(s, "ctx")) /\ UNCHANGED dynamicVars
             \/ SectionRuns(s)
      PROVE  OnePlace'
  <2>1. PICK done : done = \A k \in Keys : barrier[k] = NoOp
    OBVIOUS
  <2>2. SectionMove(s, LivingLanes, done)
    BY <1>2, <2>1, SectionSteps
  <2> QED BY <1>0, <2>2, PlaceExclusive
<1>3. ASSUME NEW x \in Stoppers,
             \/ BeginStop(x) \/ StopRuns(x)
             \/ StopTimeout(x) /\ UNCHANGED dynamicVars
      PROVE  OnePlace'
  <2>1. UNCHANGED <<pc, ch, backlog, cur, deferred, outcome>>
    BY <1>3 DEF BeginStop, StopRuns, StopStep, StopTimeout, AwaitScan, MarkStopping, CloseLanes,
       SignalHardStop, SignalStop, WaitInFlightSubmits, WaitWorkers, WaitSections,
       FinishLifecycleCleanups, StopMoves, laneVars, StopFrame, submitVars,
       workerVars, sectionVars
  <2> QED BY <2>1, PlaceMoves
<1>4. ASSUME Scan PROVE OnePlace'
  <2>1. UNCHANGED <<pc, ch, backlog, cur, deferred, outcome>>
    BY <1>4 DEF Scan, ScanIdle, RetireIfIdle, ScanExit, ScanFrame, laneVars, submitVars,
       workerVars, sectionVars
  <2> QED BY <2>1, PlaceMoves
<1>5. ASSUME UNCHANGED vars PROVE OnePlace'
  BY <1>5, PlaceMoves DEF vars, allVars, submitVars, laneVars, workerVars, sectionVars
<1> QED BY <1>0, <1>1, <1>2, <1>3, <1>4, <1>5, PlaceOp DEF Next, Finished

\* Initially.
LEMMA InitPlace ==
    ASSUME Init
    PROVE  OnePlace
<1> SUFFICES ASSUME NEW o \in Ops PROVE Held(o, "call", NoLane, 0)
  BY DEF OnePlace, PlaceKind
<1>1. pc[o] \in CallPc
  BY CallPcFacts DEF Init, LifecycleInit
<1>2. \A l \in Lanes : \A i \in Nat : ~InCh(o, l, i) /\ ~InBacklog(o, l, i)
  BY DEF InCh, InBacklog, Init, LifecycleInit
<1>3. \A l \in Lanes : ~InHand(o, l)
  BY DEF InHand, Init, LifecycleInit, NoEntry
<1>4. \A i \in Nat : ~Postponed(o, i)
  BY DEF Postponed, Init, LifecycleInit
<1>5. outcome[o] = <<>> /\ Len(outcome[o]) <= 1
  BY DEF Init, LifecycleInit
<1> QED BY <1>1, <1>2, <1>3, <1>4, <1>5 DEF Held

-----------------------------------------------------------------------------
(* What a call does to the lanes.                                           *)

\* A call queues a release, gives up a send or creates a lane; only a send
\* touches a channel, and no call closes one.
LEMMA OpLaneSteps ==
    ASSUME LaneInv, NEW o \in Ops, Submit(o) \/ OpStep(o) \/ Cancel(o)
    PROVE  /\ \/ UNCHANGED <<backlog, workerVars, queues, todo, expected, parked>>
              \/ /\ UNCHANGED <<workerVars, queues, todo, expected, parked>>
                 /\ \E l \in Lanes, e \in EntryType :
                       /\ e.kind = "release" /\ TakesMandatory(l)
                       /\ backlog' = [backlog EXCEPT ![l] = Append(@, e)]
              \/ (\E r : AbandonSend(o, r)) /\ UNCHANGED dynamicVars
              \/ /\ ~stopping /\ queues[OpKey[o]] = NoLane
                 /\ \E n \in Unborn : NewLane(n, OpKey[o])
           /\ UNCHANGED <<closed, retired>>
           /\ ch' = ch \/ SendTask(o)
<1> DEFINE Still == UNCHANGED <<backlog, workerVars, queues, todo, expected, parked>>
           Open == UNCHANGED <<closed, retired>> /\ (ch' = ch \/ SendTask(o))
<1>0. BaseType
  BY DEF LaneInv
<1>1. CASE \E r : AbandonSend(o, r) /\ UNCHANGED dynamicVars
  BY <1>1 DEF AbandonSend
<1>2. CASE \/ Submit(o)
           \/ Cancel(o) /\ CancelBeforeAdmit(o)
           \/ /\ \/ WaitForMandatoryCleanup(o) \/ FenceProgress(o) \/ FenceStopped(o)
                 \/ AdmitTask(o) \/ SendTask(o) \/ SendOnClosed(o) \/ SendBlocks(o)
                 \/ EndSubmit(o) \/ EndSubmitTest(o)
              /\ UNCHANGED <<stpc, dynamicVars>>
  <2>1. Still
    BY <1>2 DEF Submit, Cancel, BeginSubmit, CancelBeforeAdmit, WaitForMandatoryCleanup,
       FenceProgress, FenceStopped, AdmitTask, SendTask, SendOnClosed, SendBlocks, EndSubmit,
       EndSubmitTest, TestStop, ProducerFrame, laneVars, workerVars, sectionVars, dynamicVars
  <2>2. Open
    BY <1>2 DEF Submit, Cancel, BeginSubmit, CancelBeforeAdmit, WaitForMandatoryCleanup,
       FenceProgress, FenceStopped, AdmitTask, SendTask, SendOnClosed, SendBlocks, EndSubmit,
       EndSubmitTest, TestStop, ProducerFrame, laneVars
  <2> QED BY <2>1, <2>2
<1>3. CASE /\ \/ EndHandoff(o, "handoff") \/ EndHandoffTest(o, "handoff")
              \/ BeginLifecycleCleanup(o) \/ EndLifecycleCleanup(o)
           /\ UNCHANGED dynamicVars
  BY <1>3 DEF EndHandoff, EndHandoffTest, TestStop, BeginLifecycleCleanup,
     EndLifecycleCleanup, HandoffFrame, laneVars, workerVars, sectionVars, dynamicVars
<1>4. CASE (EnqueueCleanup(o) \/ HandoffLate(o, queues[OpKey[o]])) /\ UNCHANGED dynamicVars
  <2>1. UNCHANGED <<workerVars, queues, todo, expected, parked, closed, retired, ch>>
    BY <1>4 DEF EnqueueCleanup, HandoffLate, HandoffFrame, EnqueueMandatory, laneVars,
       sectionVars, dynamicVars
  <2>2. \/ backlog' = backlog
        \/ \E l \in Lanes : \E w \in BOOLEAN : EnqueueMandatory(l, Entry("release", o, l, w))
    <3>1. pc[o] = "enqueue" => at[o] \in Lanes
      BY DEF LaneInv, Arrivals, NearPc
    <3>2. queues[OpKey[o]] \in Lanes \cup {NoLane}
      BY KeyOf DEF LaneInv, MapType
    <3> QED BY <1>4, <3>1, <3>2 DEF EnqueueCleanup, HandoffLate, laneVars
  <2>3. ASSUME NEW l \in Lanes, NEW w \in BOOLEAN,
               EnqueueMandatory(l, Entry("release", o, l, w))
        PROVE  \E e \in EntryType :
                  /\ e.kind = "release" /\ TakesMandatory(l)
                  /\ backlog' = [backlog EXCEPT ![l] = Append(@, e)]
    <3>1. PICK e \in EntryType : e = Entry("release", o, l, w)
      BY <1>0, EntryTyped
    <3> QED BY <2>3, <3>1 DEF EnqueueMandatory, Entry
  <2> QED BY <2>1, <2>2, <2>3
<1>5. CASE \/ SubmitRoute(o) \/ SubmitLookup(o) \/ EnterGate(o)
           \/ AwaitBarrier(o, "waitBarrier", "route")
           \/ AwaitBarrier(o, "hwaitBarrier", "handoff")
           \/ ScheduleCleanup(o) \/ CleanupLookup(o)
  BY <1>5 DEF SubmitRoute, SubmitLookup, EnterGate, AwaitBarrier, ScheduleCleanup,
     CleanupLookup, Lookup, RouteFrame, laneVars, workerVars, sectionVars
<1>6. CASE SubmitCreate(o) \/ CleanupCreate(o)
  <2>1. PICK n : n = CHOOSE u \in Unborn : TRUE
    OBVIOUS
  <2>2. \/ UNCHANGED <<laneVars, workerVars, sectionVars, queues>>
        \/ ~stopping /\ ~Live(OpKey[o]) /\ NewLane(n, OpKey[o])
    BY <1>6, <2>1 DEF SubmitCreate, CleanupCreate, Create
  <2>3. CASE UNCHANGED <<laneVars, workerVars, sectionVars, queues>>
    BY <2>3 DEF laneVars, workerVars, sectionVars
  <2>4. CASE ~stopping /\ ~Live(OpKey[o]) /\ NewLane(n, OpKey[o])
    <3>1. n \in Unborn /\ queues[OpKey[o]] = NoLane
      BY <2>1, <2>4, FreshLane, KeyOf
    <3>2. UNCHANGED <<closed, retired, ch>>
      BY <2>4 DEF NewLane, EnqueueMandatory, laneVars
    <3> QED BY <2>4, <3>1, <3>2
  <2> QED BY <2>2, <2>3, <2>4
<1>7. CASE CleanupBegin(o) \/ CleanupWithoutLiveLane(o) \/ EndCleanupHere(o)
  BY <1>7 DEF CleanupBegin, CleanupWithoutLiveLane, EndCleanupHere, HandoffFrame, laneVars,
     workerVars, sectionVars, dynamicVars
<1>8. CASE Cancel(o)
  <2>1. UNCHANGED dynamicVars
    BY <1>8 DEF Cancel
  <2> QED BY <1>1, <1>2, <1>8, <2>1 DEF Cancel
<1>9. CASE OpStep(o)
  <2>1. CASE AbandonSend(o, "stop") /\ UNCHANGED <<stpc, dynamicVars>>
    <3>1. UNCHANGED dynamicVars
      BY <2>1
    <3> QED BY <1>1, <2>1, <3>1
  <2>2. CASE ~(AbandonSend(o, "stop") /\ UNCHANGED <<stpc, dynamicVars>>)
    BY <1>2, <1>3, <1>4, <1>5, <1>6, <1>7, <1>9, <2>2 DEF OpStep
  <2> QED BY <2>1, <2>2
<1>10. CASE Submit(o)
  BY <1>2, <1>10
<1> QED BY <1>8, <1>9, <1>10

\* A call counts the release that it runs itself, and never runs one that
\* a section is to run.
LEMMA OpCounted ==
    ASSUME BaseType, NEW o \in Ops, Submit(o) \/ OpStep(o) \/ Cancel(o)
    PROVE  /\ sealed' = sealed
           /\ \/ tracked' = tracked
              \/ tracked' = tracked \cup {o} /\ ~sealed
              \/ tracked' = tracked \ {o} /\ pc'[o] # "cleanup"
           /\ \A p \in Ops \ {o} : pc'[p] = pc[p]
           /\ pc'[o] = "cleanup" =>
                 /\ pc[o] = "off" /\ (sealed \/ active = NoSection)
                 /\ sealed \/ o \in tracked'
           /\ pc'[o] = "cleanupHere" => active = NoSection
<1>0. pc \in [Ops -> PcType]
  BY DEF BaseType, SubmitType
<1>1. \A p \in Ops \ {o} : pc'[p] = pc[p]
  BY <1>0, OpMoves
<1> DEFINE Away == PcType \ {"cleanup", "cleanupHere"}
<1>2. ASSUME UNCHANGED cleanupVars, NEW x \in Away,
             pc' = [pc EXCEPT ![o] = x] \/ (pc' = pc /\ pc[o] \in {"send", "blocked"})
      PROVE  sealed' = sealed /\ tracked' = tracked /\ pc'[o] \notin {"cleanup", "cleanupHere"}
  BY <1>0, <1>2 DEF cleanupVars
<1>3. CASE \/ Submit(o) \/ Cancel(o)
           \/ WaitForMandatoryCleanup(o) \/ FenceProgress(o) \/ FenceStopped(o)
           \/ AdmitTask(o) \/ SendTask(o) \/ SendOnClosed(o) \/ SendBlocks(o)
           \/ AbandonSend(o, "stop") \/ EndSubmit(o) \/ EndSubmitTest(o)
  <2>1. UNCHANGED cleanupVars
    BY <1>3 DEF Submit, Cancel, BeginSubmit, CancelBeforeAdmit, WaitForMandatoryCleanup,
       FenceProgress, FenceStopped, AdmitTask, SendTask, SendOnClosed, SendBlocks, AbandonSend,
       EndSubmit, EndSubmitTest, TestStop, ProducerFrame
  <2>2. \E x \in {"route", "admit", "fenced", "wait", "send", "blocked", "handoff", "end",
                  "endTest", "done"} :
           pc' = [pc EXCEPT ![o] = x] \/ (pc' = pc /\ pc[o] \in {"send", "blocked"})
    BY <1>3 DEF Submit, Cancel, BeginSubmit, CancelBeforeAdmit, WaitForMandatoryCleanup,
       FenceProgress, FenceStopped, AdmitTask, SendTask, SendOnClosed, SendBlocks,
       AbandonSend, EndSubmit, EndSubmitTest, TestStop, LeaveSubmit, Fail, Return, submitVars
  <2>3. {"route", "admit", "fenced", "wait", "send", "blocked", "handoff", "end", "endTest",
         "done"} \subseteq Away
    BY DEF PcType
  <2> QED BY <1>1, <1>2, <2>1, <2>2, <2>3
<1>4. CASE \/ EnqueueCleanup(o)
           \/ EndHandoff(o, "handoff") \/ EndHandoffTest(o, "handoff")
           \/ HandoffLate(o, queues[OpKey[o]])
  <2>1. UNCHANGED cleanupVars
    BY <1>4 DEF EnqueueCleanup, EndHandoff, EndHandoffTest, TestStop, HandoffLate
  <2>2. \E x \in {"taken", "refused", "takenTest", "refusedTest", "handoff", "off", "end",
                  "done"} : pc' = [pc EXCEPT ![o] = x]
    BY <1>4 DEF EnqueueCleanup, EndHandoff, EndHandoffTest, TestStop, LeaveSubmit,
       HandoffLate, Return
  <2>3. {"taken", "refused", "takenTest", "refusedTest", "handoff", "off", "end", "done"}
           \subseteq Away
    BY DEF PcType
  <2> QED BY <1>1, <1>2, <2>1, <2>2, <2>3
<1>5. CASE \/ SubmitRoute(o) \/ SubmitLookup(o) \/ EnterGate(o)
           \/ AwaitBarrier(o, "waitBarrier", "route")
           \/ AwaitBarrier(o, "hwaitBarrier", "handoff")
           \/ ScheduleCleanup(o) \/ CleanupLookup(o) \/ SubmitCreate(o) \/ CleanupCreate(o)
  <2>1. UNCHANGED cleanupVars
    BY <1>5 DEF SubmitRoute, SubmitLookup, EnterGate, AwaitBarrier, ScheduleCleanup,
       CleanupLookup, SubmitCreate, CleanupCreate, Lookup, Create, RouteFrame
  <2>2. \E x \in {"lookup", "waitBarrier", "gate", "create", "route", "wait", "hlookup",
                  "hwaitBarrier", "hbegin", "hcreate", "hlimit", "handoff", "late", "end",
                  "done"} : pc' = [pc EXCEPT ![o] = x]
    BY <1>5 DEF SubmitRoute, SubmitLookup, EnterGate, AwaitBarrier, ScheduleCleanup,
       CleanupLookup, SubmitCreate, CleanupCreate, Lookup, Create, Goto, Fail, Return
  <2>3. {"lookup", "waitBarrier", "gate", "create", "route", "wait", "hlookup",
         "hwaitBarrier", "hbegin", "hcreate", "hlimit", "handoff", "late", "end", "done"}
           \subseteq Away
    BY DEF PcType
  <2> QED BY <1>1, <1>2, <2>1, <2>2, <2>3
<1>6. CASE CleanupBegin(o) \/ EndCleanupHere(o)
  <2>1. UNCHANGED cleanupVars
    BY <1>6 DEF CleanupBegin, EndCleanupHere
  <2>2. \E x \in {"enqueue", "nolane", "late", "taken"} : pc' = [pc EXCEPT ![o] = x]
    BY <1>6 DEF CleanupBegin, EndCleanupHere, Goto
  <2>3. {"enqueue", "nolane", "late", "taken"} \subseteq Away
    BY DEF PcType
  <2> QED BY <1>1, <1>2, <2>1, <2>2, <2>3
<1>7. CASE CleanupWithoutLiveLane(o)
  <2>1. sealed' = sealed /\ tracked' = tracked
    BY <1>7 DEF CleanupWithoutLiveLane, cleanupVars
  <2>2. \/ pc'[o] \in {"refused", "taken"}
        \/ pc'[o] = "cleanupHere" /\ active = NoSection
    BY <1>0, <1>7 DEF CleanupWithoutLiveLane, Goto
  <2> QED BY <1>1, <2>1, <2>2
<1>8. CASE BeginLifecycleCleanup(o)
  <2>1. sealed' = sealed /\ pc[o] = "off"
    BY <1>8 DEF BeginLifecycleCleanup
  <2>2. CASE ~sealed /\ active # NoSection
    <3>1. tracked' = tracked /\ pc'[o] \in {"end", "done"}
      BY <1>0, <1>8, <2>2 DEF BeginLifecycleCleanup, Return
    <3> QED BY <1>1, <2>1, <3>1
  <2>3. CASE sealed \/ active = NoSection
    <3>1. pc'[o] = "cleanup" /\ tracked' = IF sealed THEN tracked ELSE tracked \cup {o}
      BY <1>0, <1>8, <2>3 DEF BeginLifecycleCleanup
    <3> QED BY <1>1, <2>1, <2>3, <3>1
  <2> QED BY <2>2, <2>3
<1>9. CASE EndLifecycleCleanup(o)
  <2>1. sealed' = sealed /\ tracked' = tracked \ {o} /\ pc'[o] \in {"end", "done"}
    BY <1>0, <1>9 DEF EndLifecycleCleanup, Return
  <2> QED BY <1>1, <2>1
<1> QED BY <1>3, <1>4, <1>5, <1>6, <1>7, <1>8, <1>9 DEF OpStep

-----------------------------------------------------------------------------
(* How workers end.                                                         *)

\* Steps that send to no ended lane, queue on no exited one and open none.
LEMMA EndsKept ==
    ASSUME Ends, UNCHANGED ended,
           \A l \in Lanes : wpc'[l] = wpc[l] \/ wpc'[l] = "poll",
           \A l \in Lanes : closed[l] => closed'[l],
           \A l \in Lanes : ended[l] => ch'[l] = ch[l],
           \A l \in Lanes : wpc[l] = "exited" => backlog'[l] = backlog[l]
    PROVE  Ends'
BY DEF Ends

\* The steps of calls.
LEMMA OpEnds ==
    ASSUME LaneInv, Ends, NEW o \in Ops, Submit(o) \/ OpStep(o) \/ Cancel(o)
    PROVE  Ends'
<1>0. /\ BaseType
      /\ pc[o] \in {"send", "blocked"} => at[o] \in Lanes /\ ~closed[at[o]] /\ ~ended[at[o]]
  BY DEF LaneInv, Arrivals, GatePc, Ends
<1>1. ended' = ended /\ \A l \in Lanes : wpc'[l] = wpc[l] \/ wpc'[l] = "poll"
  <2>1. workerVars' = workerVars \/ \E n \in Unborn : NewLane(n, OpKey[o])
    BY OpLaneSteps DEF AbandonSend
  <2> QED BY <1>0, <2>1 DEF workerVars, NewLane, BaseType, WorkerType
<1>2. \A l \in Lanes : closed[l] => closed'[l]
  BY OpLaneSteps
<1>3. \A l \in Lanes : ended[l] => ch'[l] = ch[l]
  BY <1>0, OpLaneSteps DEF SendTask, BaseType, LaneType
<1>4. \A l \in Lanes : wpc[l] = "exited" => backlog'[l] = backlog[l]
  <2>0. backlog \in [Lanes -> Seq(EntryType)]
    BY <1>0 DEF BaseType, LaneType
  <2>1. CASE backlog' = backlog
    BY <2>1
  <2>2. CASE \E l \in Lanes, e \in EntryType :
                TakesMandatory(l) /\ backlog' = [backlog EXCEPT ![l] = Append(@, e)]
    BY <2>0, <2>2 DEF TakesMandatory
  <2>3. CASE \E r : AbandonSend(o, r)
    <3>1. pc[o] = "blocked" /\ backlog' = [backlog EXCEPT ![at[o]] = RaiseTargets(@, ticket[o])]
      BY <2>3 DEF AbandonSend, UnmarkSent
    <3> QED BY <1>0, <2>0, <3>1 DEF Ends
  <2>4. CASE \E n \in Unborn : NewLane(n, OpKey[o])
    <3>1. PICK n \in Unborn : NewLane(n, OpKey[o])
      BY <2>4
    <3>2. \/ backlog' = backlog
          \/ backlog' = [backlog EXCEPT ![n] = Append(@, Entry("barrier", active, n, FALSE))]
      BY <3>1 DEF NewLane, EnqueueMandatory, laneVars
    <3> QED BY <2>0, <3>1, <3>2 DEF Unborn
  <2> QED BY <2>1, <2>2, <2>3, <2>4, OpLaneSteps
<1> QED BY <1>1, <1>2, <1>3, <1>4, EndsKept

\* The steps of workers.
LEMMA WorkerEnds ==
    ASSUME LaneInv, Ends, NEW l \in Lanes, LaneStep(l)
    PROVE  Ends'
<1>0. BaseType
  BY DEF LaneInv
<1>1. CASE SeeQuit(l)
  <2>1. /\ wpc[l] = "select" /\ wpc' = [wpc EXCEPT ![l] = "poll"]
        /\ ended' = [ended EXCEPT ![l] = TRUE] /\ closed[l] /\ ch[l] = <<>>
        /\ UNCHANGED <<closed, ch, backlog>>
    BY <1>1, QuitFindsNothing DEF laneVars, LaneInv, Retirement
  <2> QED BY <1>0, <2>1 DEF Ends, BaseType, WorkerType
<1>2. CASE WorkerStep(l)
  <2>1. /\ closed' = closed
        /\ \A m \in Lanes : m # l => /\ wpc'[m] = wpc[m] /\ ended'[m] = ended[m]
                                     /\ ch'[m] = ch[m] /\ backlog'[m] = backlog[m]
    <3> USE <1>0, <1>2 DEF WorkerStep, TakeMandatory, NoMandatory, Receive, Complete,
        TakeWake, SeeFence, SeeClosed, FinishWorker, ParkBarrier, LeaveBarrier, IdleFrame
    <3>1. closed' = closed
      BY DEF WorkerFrame
    <3>2. \A m \in Lanes : m # l => wpc'[m] = wpc[m] /\ ended'[m] = ended[m]
      BY DEF BaseType, WorkerType
    <3>3. \A m \in Lanes : m # l => ch'[m] = ch[m] /\ backlog'[m] = backlog[m]
      BY DEF BaseType, LaneType
    <3> QED BY <3>1, <3>2, <3>3
  <2>2. ended[l] => closed[l] /\ ch[l] = <<>>
    BY DEF Ends
  <2> DEFINE Mine ==
        /\ wpc'[l] \in {"finish", "park", "exited"} => ended'[l]
        /\ ended'[l] => closed[l] /\ ch'[l] = <<>>
        /\ wpc'[l] = "exited" => backlog'[l] = <<>>
  <2>3. SUFFICES Mine
    BY <2>1, <2>3 DEF Ends
  <2>4. CASE TakeMandatory(l)
    <3>1. UNCHANGED <<ch, ended>> /\ wpc'[l] \in {"held", "barrier", "abort", "run"}
      BY <1>0, <2>4 DEF TakeMandatory, BaseType, WorkerType
    <3> QED BY <2>2, <3>1
  <2>5. CASE NoMandatory(l)
    <3>1. /\ UNCHANGED <<ch, ended>>
          /\ wpc'[l] = IF ended[l] THEN "finish" ELSE "select"
      BY <1>0, <2>5 DEF NoMandatory, BaseType, WorkerType
    <3> QED BY <2>2, <3>1
  <2>6. CASE Receive(l)
    <3>1. /\ ended' = ended /\ wpc'[l] \in {"abort", "run"} /\ ch[l] # <<>>
      BY <1>0, <2>6 DEF Receive, BaseType, WorkerType
    <3> QED BY <2>2, <3>1
  <2>7. CASE Complete(l) \/ LeaveBarrier(l)
    <3>1. UNCHANGED <<ch, ended>> /\ wpc'[l] = "poll"
      BY <1>0, <2>7 DEF Complete, LeaveBarrier, BaseType, WorkerType
    <3> QED BY <2>2, <3>1
  <2>8. CASE TakeWake(l) \/ SeeFence(l) \/ ParkBarrier(l)
    <3>1. UNCHANGED <<ch, ended>> /\ wpc'[l] \in {"poll", "held"}
      BY <1>0, <2>8 DEF TakeWake, SeeFence, ParkBarrier, IdleFrame, BaseType, WorkerType
    <3> QED BY <2>2, <3>1
  <2>9. CASE SeeClosed(l)
    BY <1>0, <2>9 DEF SeeClosed, ChannelClosed, IdleFrame, BaseType, WorkerType
  <2>10. CASE FinishWorker(l)
    <3>1. /\ UNCHANGED <<ch, ended, backlog>> /\ ended[l]
          /\ wpc'[l] = IF backlog[l] = <<>> THEN "exited" ELSE "park"
      BY <1>0, <2>10 DEF FinishWorker, IdleFrame, BaseType, WorkerType, Ends
    <3> QED BY <2>2, <3>1
  <2> QED BY <1>2, <2>4, <2>5, <2>6, <2>7, <2>8, <2>9, <2>10 DEF WorkerStep
<1> QED BY <1>1, <1>2 DEF LaneStep

\* Every step.
LEMMA NextEnds ==
    ASSUME LaneOrder, Ends, [Next]_vars
    PROVE  Ends'
<1>0. LaneInv /\ BaseType
  BY DEF LaneOrder, LaneInv
<1>1. ASSUME NEW s \in Sections,
             \/ (TakeTurn(s) \/ SectionFails(s, "ctx")) /\ UNCHANGED dynamicVars
             \/ SectionRuns(s)
      PROVE  Ends'
  <2>1. PICK done : done = \A k \in Keys : barrier[k] = NoOp
    OBVIOUS
  <2>2. SectionMove(s, LivingLanes, done)
    BY <1>1, <2>1, SectionSteps
  <2>3. UNCHANGED workerVars
    BY <2>2, SectionFramed DEF SectionFrame
  <2>4. \/ UNCHANGED laneVars
        \/ \E l \in Lanes : EnqueueMandatory(l, Entry("barrier", s, l, FALSE))
    BY <1>0, <2>2, SectionLanes DEF PlaceBarrier, BaseType, SectionType
  <2>5. UNCHANGED <<closed, ch>>
    BY <2>4 DEF laneVars, EnqueueMandatory
  <2>6. \A l \in Lanes : wpc[l] = "exited" => backlog'[l] = backlog[l]
    BY <1>0, <2>4 DEF laneVars, EnqueueMandatory, TakesMandatory, BaseType, LaneType
  <2> QED BY <2>3, <2>5, <2>6, EndsKept DEF workerVars
<1>2. ASSUME NEW x \in Stoppers,
             \/ BeginStop(x) \/ StopRuns(x)
             \/ StopTimeout(x) /\ UNCHANGED dynamicVars
      PROVE  Ends'
  <2>1. UNCHANGED <<ch, backlog, workerVars>>
    BY <1>2 DEF BeginStop, StopRuns, StopStep, StopTimeout, AwaitScan, MarkStopping, CloseLanes,
       SignalHardStop, SignalStop, WaitInFlightSubmits, WaitWorkers, WaitSections,
       FinishLifecycleCleanups, StopMoves, laneVars, StopFrame
  <2>2. closed' = closed \/ \E l : closed' = [closed EXCEPT ![l] = TRUE]
    BY <1>2 DEF BeginStop, StopRuns, StopStep, StopTimeout, AwaitScan, MarkStopping, CloseLanes,
       SignalHardStop, SignalStop, WaitInFlightSubmits, WaitWorkers, WaitSections,
       FinishLifecycleCleanups, StopMoves, laneVars
  <2>3. \A l \in Lanes : closed[l] => closed'[l]
    BY <1>0, <2>2 DEF BaseType, LaneType
  <2> QED BY <2>1, <2>3, EndsKept DEF workerVars
<1>3. ASSUME Scan PROVE Ends'
  <2>1. UNCHANGED <<ch, backlog, workerVars>>
    BY <1>3 DEF Scan, ScanIdle, RetireIfIdle, ScanExit, ScanFrame, laneVars
  <2>2. closed' = closed \/ \E l : closed' = [closed EXCEPT ![l] = TRUE]
    BY <1>3 DEF Scan, ScanIdle, RetireIfIdle, ScanExit, laneVars
  <2>3. \A l \in Lanes : closed[l] => closed'[l]
    BY <1>0, <2>2 DEF BaseType, LaneType
  <2> QED BY <2>1, <2>3, EndsKept DEF workerVars
<1>4. ASSUME UNCHANGED vars PROVE Ends'
  BY <1>4, EndsKept DEF vars, allVars, laneVars, workerVars
<1> QED BY <1>0, <1>1, <1>2, <1>3, <1>4, OpEnds, WorkerEnds DEF Next, Finished

-----------------------------------------------------------------------------
(* The order of a stop.                                                     *)

\* Steps of calls, workers and the scan.
LEMMA StopOrderKept ==
    ASSUME StopOrder, UNCHANGED <<stopped, stopping, sealed, spc, stpc>>,
           tracked' = tracked \/ ~sealed \/ tracked' \subseteq tracked,
           \/ ~stopping
           \/ \A l \in Lanes : wpc[l] \in {"exited", "unborn"} => wpc'[l] = wpc[l]
    PROVE  StopOrder'
BY DEF StopOrder, SectionRegistered

\* Every step.
LEMMA NextStopOrder ==
    ASSUME KeyOrder, StopOrder, [Next]_vars
    PROVE  StopOrder'
<1>0. LaneInv /\ BaseType /\ Turn /\ KeyBase /\ StopFirst
  BY DEF KeyOrder, KeyInv, KeyBase, LaneOrder, LaneInv
<1>1. ASSUME NEW o \in Ops, Submit(o) \/ OpStep(o) \/ Cancel(o) PROVE StopOrder'
  <2>1. UNCHANGED <<stopped, stopping, stpc, spc>>
    BY <1>1, OpMoves, OpFrame
  <2>2. sealed' = sealed /\ (tracked' = tracked \/ ~sealed \/ tracked' \subseteq tracked)
    BY <1>0, <1>1, OpCounted
  <2>3. workerVars' = workerVars \/ ~stopping
    BY <1>0, <1>1, OpLaneSteps DEF AbandonSend
  <2> QED BY <2>1, <2>2, <2>3, StopOrderKept DEF workerVars
<1>2. ASSUME NEW l \in Lanes, LaneStep(l) PROVE StopOrder'
  <2>1. UNCHANGED <<stopped, stopping, stpc, spc>> /\ UNCHANGED <<sealed, tracked>>
    <3>1. UNCHANGED <<stopped, stpc, spc>> /\ UNCHANGED dynamicVars
      BY <1>0, <1>2, WorkerFramed
    <3>2. UNCHANGED cleanupVars
      BY <1>2 DEF LaneStep, SeeQuit, WorkerStep, TakeMandatory, NoMandatory, Receive, Complete,
         TakeWake, SeeFence, SeeClosed, FinishWorker, ParkBarrier, LeaveBarrier, IdleFrame,
         WorkerFrame
    <3> QED BY <3>1, <3>2 DEF dynamicVars, cleanupVars
  <2>2. wpc[l] \notin {"exited", "unborn"}
    BY <1>2 DEF LaneStep, SeeQuit, WorkerStep, TakeMandatory, NoMandatory, Receive, Complete,
       TakeWake, SeeFence, SeeClosed, FinishWorker, ParkBarrier, LeaveBarrier
  <2>3. \A m \in Lanes : wpc[m] \in {"exited", "unborn"} => wpc'[m] = wpc[m]
    BY <1>0, <1>2, <2>2, WorkerLocal
  <2> QED BY <2>1, <2>3, StopOrderKept
<1>3. ASSUME NEW s \in Sections,
             \/ (TakeTurn(s) \/ SectionFails(s, "ctx")) /\ UNCHANGED dynamicVars
             \/ SectionRuns(s)
      PROVE  StopOrder'
  <2>1. PICK done : done = \A k \in Keys : barrier[k] = NoOp
    OBVIOUS
  <2>2. SectionMove(s, LivingLanes, done) /\ UNCHANGED dynamicVars
    BY <1>3, <2>1, SectionSteps
  <2>3. UNCHANGED <<workerVars, stopVars, cleanupVars, stpc>>
    BY <2>2, SectionFramed DEF SectionFrame
  <2>4. spc'[s] \in {"idle", "begin", "ended"} \/ SectionRegistered(s) \/ ~stopped
    BY <1>0, <2>2 DEF SectionMove, TakeTurn, SectionStep, SectionFails,
       InstallExclusive, AwaitRunning, BeginSection, PlaceBarrier, CollectDone,
       StartFn, EndFn, WithdrawExclusive, EndDeferred, ReleaseLanes, SectionMoves,
       SectionRegistered, BaseType, SectionType
  <2>5. \A t \in Sections : t # s => spc'[t] = spc[t]
    BY <1>0, <2>2 DEF SectionMove, TakeTurn, SectionStep, SectionFails,
       InstallExclusive, AwaitRunning, BeginSection, PlaceBarrier, CollectDone,
       StartFn, EndFn, WithdrawExclusive, EndDeferred, ReleaseLanes, SectionMoves,
       BaseType, SectionType
  <2>6. (stopped /\ \A t \in Sections : ~SectionRegistered(t))
           => \A t \in Sections : ~SectionRegistered(t)'
    BY <2>4, <2>5 DEF SectionRegistered
  <2>7. UNCHANGED <<stopped, stopping, sealed, tracked, wpc>>
    BY <2>2, <2>3 DEF stopVars, cleanupVars, workerVars, dynamicVars
  <2>8. stopping => stopped
    BY <1>0 DEF StopFirst
  <2> QED BY <2>3, <2>6, <2>7, <2>8 DEF StopOrder
<1>4. ASSUME NEW x \in Stoppers,
             \/ BeginStop(x) \/ StopRuns(x)
             \/ StopTimeout(x) /\ UNCHANGED dynamicVars
      PROVE  StopOrder'
  <2> USE DEF BeginStop, StopRuns, StopStep, StopTimeout, AwaitScan, MarkStopping, CloseLanes,
       SignalHardStop, SignalStop, WaitInFlightSubmits, WaitWorkers, WaitSections,
       FinishLifecycleCleanups, StopMoves
  <2>1. UNCHANGED <<workerVars, sectionVars, tracked>>
    BY <1>4 DEF StopFrame, cleanupVars
  <2>2. (stopped => stopped') /\ (stopping => stopping') /\ (sealed => sealed')
    BY <1>4 DEF cleanupVars, dynamicVars, mapVars
  <2>3. \A y \in Stoppers : y # x => stpc'[y] = stpc[y]
    BY <1>0, <1>4 DEF BaseType, StopType
  <2>4. /\ stpc'[x] \in {"closing", "workers", "sections", "cleanups", "returned"}
              => stopping'
        /\ stpc'[x] \in {"sections", "cleanups", "returned"}
              => \A l \in Lanes : wpc[l] \in {"exited", "unborn"}
        /\ stpc'[x] \in {"cleanups", "returned"}
              => \A s \in Sections : ~SectionRegistered(s)
        /\ stpc'[x] = "returned" => sealed'
        /\ sealed' # sealed => tracked = {} /\ stpc[x] = "cleanups"
    BY <1>0, <1>4 DEF StopOrder, BaseType, StopType, cleanupVars, dynamicVars, mapVars
  <2>5. \A y \in Stoppers : stpc[y] = "cleanups" =>
           stopped /\ \A s \in Sections : ~SectionRegistered(s)
    BY <1>0 DEF StopOrder, StopFirst
  <2> HIDE DEF BeginStop, StopRuns, StopStep, StopTimeout, AwaitScan, MarkStopping, CloseLanes,
       SignalHardStop, SignalStop, WaitInFlightSubmits, WaitWorkers, WaitSections,
       FinishLifecycleCleanups, StopMoves
  <2> QED BY <2>1, <2>2, <2>3, <2>4, <2>5
          DEF StopOrder, SectionRegistered, workerVars, sectionVars
<1>5. ASSUME Scan PROVE StopOrder'
  <2>1. UNCHANGED <<workerVars, stopVars, sectionVars, stpc, stopping>>
    BY <1>0, <1>5, ScanMap
  <2>2. UNCHANGED cleanupVars
    BY <1>5 DEF Scan, ScanIdle, RetireIfIdle, ScanExit, ScanFrame
  <2> QED BY <2>1, <2>2, StopOrderKept DEF workerVars, stopVars, sectionVars, cleanupVars
<1>6. ASSUME UNCHANGED vars PROVE StopOrder'
  BY <1>6, StopOrderKept DEF vars, allVars, dynamicVars, workerVars, stopVars, sectionVars,
     cleanupVars
<1> QED BY <1>1, <1>2, <1>3, <1>4, <1>5, <1>6 DEF Next, Finished

-----------------------------------------------------------------------------
(* What a section holds.                                                    *)

\* The lanes are finitely many, and a lane that is held has the barrier.
LEMMA HeldFinite ==
    ASSUME LaneInv, NEW s \in Sections
    PROVE  /\ HeldLanes(s) \subseteq Placed(s)
           /\ IsFiniteSet(Placed(s)) /\ IsFiniteSet(HeldLanes(s))
           /\ Cardinality(Placed(s)) \in Nat /\ Cardinality(HeldLanes(s)) \in Nat
<1>1. HeldLanes(s) \subseteq Placed(s) /\ Placed(s) \subseteq Lanes
  BY DEF HeldLanes, Placed, HasBarrier, LaneInv, Hands, HandFits, BusyPc
<1>2. IsFiniteSet(Placed(s)) /\ IsFiniteSet(HeldLanes(s))
  BY <1>1, DynamicAssumption, FS_Subset DEF DynamicAssumption
<1> QED BY <1>1, <1>2, FS_CardinalityType

\* Steps that leave the section, its barriers and the lanes that wait for it
\* where they are.
LEMMA BarriersKept ==
    ASSUME LaneInv, NEW s \in Sections, Barriers(s), Surrounded(s),
           spc'[s] = spc[s], expected'[s] = expected[s], parked'[s] = parked[s],
           spc[s] \in {"running", "barriers"} => todo' = todo,
           stopped => stopped',
           \A k \in Keys : queues'[k] = queues[k] \/ queues'[k] = NoLane,
           spc[s] # "ended" => \A l \in Lanes : HasBarrier(s, l)' <=> HasBarrier(s, l),
           spc[s] # "ended" => HeldLanes(s) \subseteq HeldLanes(s)',
           spc[s] \in {"check", "fn"} => \A l \in Placed(s) : Fenced(l) => Fenced(l)'
    PROVE  Barriers(s)' /\ Surrounded(s)'
<1>1. CASE spc[s] = "ended"
  BY <1>1 DEF Barriers, Surrounded
<1>2. CASE spc[s] # "ended"
  <2>1. Placed(s)' = Placed(s)
    BY <1>2 DEF Placed
  <2>2. parked[s] <= Cardinality(HeldLanes(s)) /\ expected[s] = Cardinality(Placed(s))
    BY <1>2 DEF Barriers
  <2>3. HeldLanes(s) \subseteq HeldLanes(s)' /\ IsFiniteSet(HeldLanes(s)')
    <3>1. HeldLanes(s)' \subseteq Lanes
      BY DEF HeldLanes
    <3> QED BY <1>2, <3>1, DynamicAssumption, FS_Subset DEF DynamicAssumption
  <2>4. /\ Cardinality(HeldLanes(s)) <= Cardinality(HeldLanes(s)')
        /\ Cardinality(HeldLanes(s)) \in Nat /\ Cardinality(HeldLanes(s)') \in Nat
    BY <2>3, FS_Subset, FS_CardinalityType
  <2>5. parked[s] \in Nat
    BY DEF LaneInv, BaseType, SectionType
  <2>6. parked'[s] <= Cardinality(HeldLanes(s)')
    BY <2>2, <2>4, <2>5
  <2>7. Barriers(s)'
    BY <1>2, <2>1, <2>2, <2>6 DEF Barriers
  <2>8. Surrounded(s)'
    BY <2>1 DEF Surrounded
  <2> QED BY <2>7, <2>8
<1> QED BY <1>1, <1>2

\* A lane has its barrier in addition; the section expects one more.
LEMMA BarrierAdded ==
    ASSUME LaneInv, NEW s \in Sections, Barriers(s), spc[s] # "ended", NEW l \in Lanes,
           l \notin Placed(s), Placed(s)' = Placed(s) \cup {l},
           expected' = [expected EXCEPT ![s] = @ + 1]
    PROVE  expected'[s] = Cardinality(Placed(s)')
<1>1. IsFiniteSet(Placed(s)) /\ Cardinality(Placed(s)) \in Nat
  BY HeldFinite
<1>2. Cardinality(Placed(s)') = Cardinality(Placed(s)) + 1
  BY <1>1, FS_AddElement
<1>3. expected[s] = Cardinality(Placed(s))
  BY DEF Barriers
<1>4. expected'[s] = expected[s] + 1
  BY DEF LaneInv, BaseType, SectionType
<1> QED BY <1>2, <1>3, <1>4

\* The section whose barriers count is the active one.
LEMMA HoldActive ==
    ASSUME KeyBase, NEW s \in Sections, spc[s] \in ActivePc
    PROVE  active = s /\ active # NoSection
BY ConstantsAssumption DEF KeyBase, ActiveSection, ConstantsAssumption

\* A lane that is created has its barrier, or no section needs one.
LEMMA NewLaneHold ==
    ASSUME LaneInv, KeyBase, SectionHold, NEW k \in Keys, NEW n \in Unborn,
           NewLane(n, k), queues[k] = NoLane, stopped' = stopped
    PROVE  \A s \in Sections : Barriers(s)' /\ Surrounded(s)'
<1>0. BaseType /\ n \in Lanes /\ wpc[n] = "unborn"
  BY DEF LaneInv, Unborn
<1>1. /\ queues' = [queues EXCEPT ![k] = n] /\ wpc' = [wpc EXCEPT ![n] = "poll"]
      /\ UNCHANGED <<cur, spc, active, todo, parked>>
  BY DEF NewLane
<1>2. /\ \A j \in Keys : j # k => queues'[j] = queues[j]
      /\ queues'[k] = n
  BY <1>1 DEF LaneInv, MapType
<1>3. \A s \in Sections : ~HasBarrier(s, n) /\ n \notin HeldLanes(s)
  <2>1. backlog[n] = <<>> /\ cur[n].kind = "none"
    BY <1>0 DEF LaneInv, Untouched, Hands, HandFits, BusyPc
  <2> QED BY <1>0, <2>1 DEF HasBarrier, HeldLanes
<1>4. ASSUME NEW s \in Sections PROVE HeldLanes(s)' = HeldLanes(s)
  BY <1>0, <1>1, <1>3 DEF HeldLanes, BaseType, WorkerType
<1>5. CASE active = NoSection
  <2>1. UNCHANGED laneVars /\ UNCHANGED expected
    BY <1>5 DEF NewLane
  <2>2. ASSUME NEW s \in Sections PROVE Barriers(s)' /\ Surrounded(s)'
    <3>1. spc[s] \notin ActivePc
      BY <1>5, HoldActive
    <3>2. Placed(s)' = Placed(s)
      BY <1>1, <2>1 DEF Placed, HasBarrier, laneVars
    <3>3. Barriers(s)'
      BY <1>1, <1>4, <2>1, <3>1, <3>2 DEF SectionHold, Barriers, ActivePc
    <3>4. Surrounded(s)'
      BY <1>1, <3>1 DEF Surrounded, ActivePc
    <3> QED BY <3>3, <3>4
  <2> QED BY <2>2
<1>6. CASE active # NoSection
  <2>1. active \in Sections
    BY <1>0, <1>6 DEF BaseType, SectionType
  <2>2. PICK e \in EntryType : e = Entry("barrier", active, n, FALSE)
    BY <1>0, <2>1, EntryTyped
  <2>3. /\ e.kind = "barrier" /\ e.op = active
        /\ backlog' = [backlog EXCEPT ![n] = Append(@, e)]
        /\ expected' = [expected EXCEPT ![active] = @ + 1]
        /\ settled' = settled
    BY <1>6, <2>2 DEF NewLane, EnqueueMandatory, Entry
  <2>4. \A s \in Sections : \A m \in Lanes :
           HasBarrier(s, m)' <=> HasBarrier(s, m) \/ (m = n /\ s = active)
    BY <1>0, <1>1, <2>3, BarrierAppend
  <2>5. \A l \in Lanes : Fenced(l) => Fenced(l)'
    <3>1. ASSUME NEW l \in Lanes, Fenced(l), l # n PROVE Fenced(l)'
      <4>1. /\ wpc'[l] = wpc[l] /\ cur'[l] = cur[l] /\ settled'[l] = settled[l]
            /\ backlog'[l] = backlog[l]
        BY <1>0, <1>1, <2>3, <3>1 DEF BaseType, WorkerType, LaneType
      <4> QED BY <1>0, <1>1, <3>1, <4>1, FencedKept
    <3> QED BY <1>6, <3>1, NewLaneFenced
  <2>6. ASSUME NEW s \in Sections, s # active PROVE Barriers(s)' /\ Surrounded(s)'
    <3>1. spc[s] \notin ActivePc
      BY <2>6, HoldActive
    <3>2. Placed(s)' = Placed(s) /\ expected'[s] = expected[s]
      BY <1>0, <2>3, <2>4, <2>6 DEF Placed, BaseType, SectionType
    <3>3. Barriers(s)'
      BY <1>1, <1>4, <3>1, <3>2 DEF SectionHold, Barriers, ActivePc
    <3>4. Surrounded(s)'
      BY <1>1, <3>1 DEF Surrounded, ActivePc
    <3> QED BY <3>3, <3>4
  <2>7. ASSUME NEW s \in Sections, s = active PROVE Barriers(s)' /\ Surrounded(s)'
    <3>1. Placed(s)' = Placed(s) \cup {n} /\ n \notin Placed(s)
      BY <1>0, <1>3, <2>4, <2>7 DEF Placed
    <3>2. spc[s] \in ActivePc
      BY <2>7 DEF KeyBase, ActiveSection
    <3>3. expected'[s] = Cardinality(Placed(s)')
      BY <1>0, <2>3, <2>7, <3>1, <3>2, BarrierAdded DEF SectionHold, ActivePc
    <3>4. n \notin todo
      BY <1>0 DEF LaneInv, Untouched
    <3>5. Fenced(n)'
      BY <1>6, NewLaneFenced
    <3>6. parked[s] <= Cardinality(HeldLanes(s))
      BY <3>2 DEF SectionHold, Barriers, ActivePc
    <3>7. Barriers(s)'
      <4>1. spc[s] \in {"running", "barriers"} => todo \cap Placed(s)' = {}
        BY <3>1, <3>4 DEF SectionHold, Barriers
      <4>2. spc[s] \in {"check", "fn"} => \A l \in Placed(s)' : Fenced(l)'
        <5>1. spc[s] \in {"check", "fn"} => \A l \in Placed(s) : Fenced(l)
          BY DEF SectionHold, Barriers
        <5>2. Placed(s) \subseteq Lanes
          BY DEF Placed
        <5> QED BY <2>5, <3>1, <3>5, <5>1, <5>2
      <4> QED BY <1>1, <1>4, <3>2, <3>3, <3>6, <4>1, <4>2 DEF Barriers, ActivePc
    <3>8. Surrounded(s)'
      BY <1>1, <1>2, <3>1 DEF SectionHold, Surrounded
    <3> QED BY <3>7, <3>8
  <2> QED BY <2>6, <2>7
<1> QED BY <1>5, <1>6

\* Releases that run off the lanes, while calls move.
LEMMA OpOffLanes ==
    ASSUME BaseType, KeyBase, StopOrder, OffLanes, NEW o \in Ops,
           Submit(o) \/ OpStep(o) \/ Cancel(o)
    PROVE  OffLanes'
<1>1. spc' = spc /\ sealed' = sealed
  BY OpFrame, OpCounted
<1>2. \A p \in Ops : pc'[p] = "cleanup" => p \in tracked' \/ sealed
  BY OpCounted DEF OffLanes
<1>3. ASSUME NEW s \in Sections, spc[s] \in HoldPc, NEW p \in Ops
      PROVE  pc'[p] \notin {"cleanup", "cleanupHere"}
  <2>1. active # NoSection
    BY <1>3, HoldActive DEF HoldPc, ActivePc
  <2>2. ~sealed
    BY <1>3 DEF StopOrder, SectionRegistered, HoldPc
  <2> QED BY <1>3, <2>1, <2>2, OpCounted DEF OffLanes
<1> QED BY <1>1, <1>2, <1>3 DEF OffLanes

\* The steps of calls.
LEMMA OpHold ==
    ASSUME LaneInv, KeyBase, StopOrder, SectionHold, NEW o \in Ops,
           Submit(o) \/ OpStep(o) \/ Cancel(o)
    PROVE  SectionHold'
<1>0. BaseType /\ backlog \in [Lanes -> Seq(EntryType)]
  BY DEF LaneInv, BaseType, LaneType
<1>1. UNCHANGED <<stopped, active, spc>>
  BY OpMoves, OpFrame
<1>2. OffLanes'
  BY <1>0, OpOffLanes DEF SectionHold
<1>3. ASSUME UNCHANGED <<workerVars, queues, todo, expected, parked>>,
             \A s \in Sections : \A l \in Lanes : HasBarrier(s, l)' <=> HasBarrier(s, l),
             \A l \in Lanes : Fenced(l) => Fenced(l)'
      PROVE  \A s \in Sections : Barriers(s)' /\ Surrounded(s)'
  <2>1. ASSUME NEW s \in Sections PROVE Barriers(s)' /\ Surrounded(s)'
    <3>1. HeldLanes(s) \subseteq HeldLanes(s)' /\ Placed(s) \subseteq Lanes
      BY <1>3 DEF HeldLanes, workerVars, Placed
    <3>2. Barriers(s) /\ Surrounded(s)
      BY DEF SectionHold
    <3>3. stopped => stopped'
      BY <1>1
    <3> QED BY <1>1, <1>3, <3>1, <3>2, <3>3, BarriersKept
  <2> QED BY <2>1
<1>4. CASE ~\E r : AbandonSend(o, r)
  <2>0. UNCHANGED <<cur, settled>>
        /\ \A l \in Lanes : \/ backlog'[l] = backlog[l]
                            \/ \E e : backlog'[l] = Append(backlog[l], e)
    BY <1>0, <1>4, OpBacklogs
  <2>1. ASSUME UNCHANGED workerVars, NEW l \in Lanes, Fenced(l) PROVE Fenced(l)'
    BY <1>0, <1>1, <2>0, <2>1, FencedKept DEF workerVars
  <2>2. CASE UNCHANGED <<backlog, workerVars, queues, todo, expected, parked>>
    <3>1. UNCHANGED <<workerVars, queues, todo, expected, parked>>
      BY <2>2
    <3>2. \A s \in Sections : \A l \in Lanes : HasBarrier(s, l)' <=> HasBarrier(s, l)
      BY <2>2, BarrierSame DEF workerVars
    <3> QED BY <1>2, <1>3, <2>1, <3>1, <3>2 DEF SectionHold
  <2>3. ASSUME UNCHANGED <<workerVars, queues, todo, expected, parked>>,
               NEW l \in Lanes, NEW e \in EntryType, e.kind = "release",
               backlog' = [backlog EXCEPT ![l] = Append(@, e)]
        PROVE  SectionHold'
    <3>1. \A s \in Sections : \A m \in Lanes : HasBarrier(s, m)' <=> HasBarrier(s, m)
      BY <1>0, <2>3, BarrierAppend DEF workerVars
    <3> QED BY <1>2, <1>3, <2>1, <2>3, <3>1 DEF SectionHold
  <2>4. ASSUME NEW n \in Unborn, NewLane(n, OpKey[o]), queues[OpKey[o]] = NoLane
        PROVE  SectionHold'
    BY <1>1, <1>2, <2>4, KeyOf, NewLaneHold DEF SectionHold
  <2> QED BY <1>4, <2>2, <2>3, <2>4, OpLaneSteps
<1>5. CASE \E r : AbandonSend(o, r)
  <2>0. PICK r : AbandonSend(o, r)
    BY <1>5
  <2>1. /\ UNCHANGED <<workerVars, queues, todo, expected, parked>>
        /\ at[o] \in Lanes
        /\ backlog' = [backlog EXCEPT ![at[o]] = RaiseTargets(@, ticket[o])]
    <3>1. /\ UNCHANGED <<workerVars, todo, expected, parked>> /\ pc[o] = "blocked"
          /\ backlog' = [backlog EXCEPT ![at[o]] = RaiseTargets(@, ticket[o])]
      BY <2>0 DEF AbandonSend, UnmarkSent, sectionVars
    <3>2. queues' = queues
      BY <2>0, OpBarriers DEF SubmitCreate, CleanupCreate, Create, AbandonSend
    <3> QED BY <3>1, <3>2 DEF LaneInv, Arrivals, GatePc
  <2>2. \A m \in Lanes :
           /\ DOMAIN backlog'[m] = DOMAIN backlog[m]
           /\ \A i \in DOMAIN backlog[m] : /\ backlog'[m][i].kind = backlog[m][i].kind
                                           /\ backlog'[m][i].op = backlog[m][i].op
    <3>1. /\ backlog[at[o]] \in Seq(EntryType)
          /\ backlog'[at[o]] = RaiseTargets(backlog[at[o]], ticket[o])
          /\ \A m \in Lanes : m # at[o] => backlog'[m] = backlog[m]
      BY <1>0, <2>1
    <3> QED BY <3>1, RaiseKeeps
  <2>3. \A s \in Sections : \A m \in Lanes : HasBarrier(s, m)' <=> HasBarrier(s, m)
    BY <2>1, <2>2 DEF HasBarrier, workerVars
  <2>4. \A l \in Lanes : Fenced(l) => Fenced(l)'
    BY <2>0, AbandonFenced
  <2> QED BY <1>2, <1>3, <2>1, <2>3, <2>4 DEF SectionHold
<1> QED BY <1>4, <1>5

\* The steps of workers.
LEMMA WorkerHold ==
    ASSUME LaneInv, KeyBase, SectionHold, NEW l \in Lanes, LaneStep(l)
    PROVE  SectionHold'
<1>0. BaseType /\ wpc[l] # "unborn"
  BY DEF LaneInv, LaneStep
<1>1. /\ UNCHANGED <<pc, stopped, spc, active, queues>>
      /\ UNCHANGED <<sealed, tracked, todo, expected>>
  <2>1. UNCHANGED <<pc, stopped, spc, active>> /\ UNCHANGED dynamicVars
    BY WorkerFramed
  <2>2. UNCHANGED <<cleanupVars, todo, expected>>
    BY DEF LaneStep, SeeQuit, WorkerStep, TakeMandatory, NoMandatory, Receive, Complete,
       TakeWake, SeeFence, SeeClosed, FinishWorker, ParkBarrier, LeaveBarrier, IdleFrame,
       WorkerFrame, sectionVars
  <2> QED BY <2>1, <2>2 DEF dynamicVars, cleanupVars
<1>2. OffLanes'
  BY <1>1 DEF SectionHold, OffLanes
<1>3. \A m \in Lanes : m # l => /\ wpc'[m] = wpc[m] /\ cur'[m] = cur[m]
                                /\ settled'[m] = settled[m] /\ backlog'[m] = backlog[m]
  BY <1>0, WorkerLocal
<1>4. ASSUME NEW s \in Sections
      PROVE  /\ spc[s] # "ended" => HasBarrier(s, l)' <=> HasBarrier(s, l)
             /\ spc[s] # "ended" /\ wpc[l] = "held" /\ cur[l].op = s =>
                   wpc'[l] = "held" /\ cur'[l].op = s
             /\ parked'[s] # parked[s] => ParkBarrier(l)
  <2>1. CASE SeeQuit(l)
    <3>1. /\ UNCHANGED <<laneVars, cur, sectionVars>> /\ wpc[l] = "select"
      BY <2>1, QuitFindsNothing
    <3> QED BY <3>1 DEF HasBarrier, laneVars, sectionVars
  <2>2. CASE WorkerStep(l)
    <3>1. /\ wpc[l] \in {"run", "abort"} => cur[l].kind \in {"task", "release"}
          /\ wpc[l] \notin {"run", "abort", "barrier", "held"} => cur[l].kind = "none"
      BY DEF LaneInv, Hands, HandFits, BusyPc
    <3> QED BY <1>0, <2>2, <3>1, BarrierWorker
  <2> QED BY <2>1, <2>2 DEF LaneStep
<1>5. ASSUME NEW s \in Sections
      PROVE  Barriers(s)' /\ Surrounded(s)'
  <2>1. Barriers(s) /\ Surrounded(s)
    BY DEF SectionHold
  <2>2. spc[s] # "ended" => \A m \in Lanes : HasBarrier(s, m)' <=> HasBarrier(s, m)
    BY <1>3, <1>4, BarrierSame
  <2>3. spc[s] # "ended" => HeldLanes(s) \subseteq HeldLanes(s)'
    BY <1>3, <1>4 DEF HeldLanes
  <2>4. CASE parked'[s] = parked[s]
    <3>1. spc[s] \in {"check", "fn"} => \A m \in Placed(s) : Fenced(m) => Fenced(m)'
      <4>1. ASSUME spc[s] \in {"check", "fn"}, NEW m \in Lanes, Fenced(m)
            PROVE  Fenced(m)'
        <5>1. active # NoSection
          BY <4>1, HoldActive DEF ActivePc
        <5>2. CASE m = l
          BY <4>1, <5>1, <5>2, WorkerFenced
        <5>3. CASE m # l
          BY <1>0, <1>1, <1>3, <4>1, <5>3, FencedKept
        <5> QED BY <5>2, <5>3
      <4> QED BY <4>1 DEF Placed
    <3>2. stopped => stopped'
      BY <1>1
    <3> QED BY <1>1, <2>1, <2>2, <2>3, <2>4, <3>1, <3>2, BarriersKept
  <2>5. CASE parked'[s] # parked[s]
    <3>1. /\ ParkBarrier(l) /\ cur[l].op = s /\ spc[s] = "collect"
          /\ parked'[s] = parked[s] + 1
          /\ wpc[l] = "barrier" /\ wpc'[l] = "held" /\ cur' = cur
      BY <1>0, <1>4, <2>5 DEF ParkBarrier, BaseType, WorkerType, SectionType
    <3>2. Placed(s)' = Placed(s)
      BY <2>2, <3>1 DEF Placed
    <3>3. HeldLanes(s)' = HeldLanes(s) \cup {l} /\ l \notin HeldLanes(s)
      BY <1>3, <3>1 DEF HeldLanes
    <3>4. IsFiniteSet(HeldLanes(s)) /\ Cardinality(HeldLanes(s)) \in Nat
      BY HeldFinite
    <3>5. Cardinality(HeldLanes(s)') = Cardinality(HeldLanes(s)) + 1
      BY <3>3, <3>4, FS_AddElement
    <3>6. parked[s] \in Nat /\ parked[s] <= Cardinality(HeldLanes(s))
      BY <1>0, <2>1, <3>1 DEF Barriers, BaseType, SectionType
    <3>7. parked'[s] <= Cardinality(HeldLanes(s)')
      BY <3>1, <3>4, <3>5, <3>6
    <3>8. Barriers(s)'
      BY <1>1, <2>1, <3>1, <3>2, <3>7 DEF Barriers
    <3>9. Surrounded(s)'
      BY <1>1, <2>1, <3>2 DEF Surrounded
    <3> QED BY <3>8, <3>9
  <2> QED BY <2>4, <2>5
<1> QED BY <1>2, <1>5 DEF SectionHold

\* When every barrier it placed has reported, the section holds the lanes.
LEMMA Collected ==
    ASSUME LaneInv, KeyBase, NEW s \in Sections, Barriers(s), spc[s] = "collect",
           parked[s] >= expected[s]
    PROVE  \A l \in Placed(s) : Fenced(l)
<1>1. /\ HeldLanes(s) \subseteq Placed(s)
      /\ IsFiniteSet(Placed(s)) /\ IsFiniteSet(HeldLanes(s))
      /\ Cardinality(Placed(s)) \in Nat /\ Cardinality(HeldLanes(s)) \in Nat
  BY HeldFinite
<1>2. expected[s] = Cardinality(Placed(s)) /\ parked[s] <= Cardinality(HeldLanes(s))
  BY DEF Barriers
<1>3. parked[s] \in Nat
  BY DEF LaneInv, BaseType, SectionType
<1>4. Cardinality(Placed(s)) <= Cardinality(HeldLanes(s))
  BY <1>1, <1>2, <1>3
<1>5. HeldLanes(s) = Placed(s)
  <2>1. HeldLanes(s) # Placed(s) => Cardinality(HeldLanes(s)) < Cardinality(Placed(s))
    BY <1>1, FS_Subset
  <2> QED BY <1>1, <1>4, <2>1
<1>6. active = s
  BY HoldActive DEF ActivePc
<1> QED BY <1>5, <1>6 DEF HeldLanes, Fenced

\* A lane that the section passes over has lost its worker to a stop.
LEMMA PassedOver ==
    ASSUME LaneInv, KeyBase, Ends, NEW k \in Keys, NEW l \in Lanes, queues[k] = l,
           ~TakesMandatory(l)
    PROVE  stopped
<1>1. queues[k] # NoLane
  BY NotALane
<1>2. ~retired[l] /\ (closed[l] => stopping)
  BY <1>1 DEF LaneInv, Mapping
<1>3. wpc[l] = "exited"
  BY <1>2 DEF TakesMandatory
<1> QED BY <1>2, <1>3 DEF Ends, KeyBase, StopFirst

\* The section that moves.
LEMMA MovingHold ==
    ASSUME LaneInv, Turn, KeyBase, Ends, NEW s \in Sections, Barriers(s), Surrounded(s),
           NEW done, SectionMove(s, LivingLanes, done), UNCHANGED dynamicVars
    PROVE  Barriers(s)' /\ Surrounded(s)'
<1>0. BaseType
  BY DEF LaneInv
<1>1. UNCHANGED <<wpc, cur, stopped, queues>>
  BY SectionFramed DEF SectionFrame, workerVars, stopVars, dynamicVars
<1>2. parked' = parked
  BY DEF SectionMove, TakeTurn, SectionStep, SectionFails, InstallExclusive, AwaitRunning,
     BeginSection, PlaceBarrier, CollectDone, StartFn, EndFn, WithdrawExclusive, EndDeferred,
     ReleaseLanes, SectionMoves
<1>3. \A m \in Lanes :
         HasBarrier(s, m)' <=>
            HasBarrier(s, m) \/ (PlaceBarrier(s) /\ m \in todo
                                 /\ m \notin todo' /\ TakesMandatory(m))
  BY <1>0, BarrierSection
<1>4. HeldLanes(s)' = HeldLanes(s)
  BY <1>1 DEF HeldLanes
<1>5. CASE ~PlaceBarrier(s)
  <2>1. Placed(s)' = Placed(s)
    BY <1>3, <1>5 DEF Placed
  <2>2. expected' = expected
    BY <1>5 DEF SectionMove, TakeTurn, SectionStep, SectionFails, InstallExclusive,
       AwaitRunning, BeginSection, CollectDone, StartFn, EndFn, WithdrawExclusive,
       EndDeferred, ReleaseLanes, SectionMoves
  <2>3. \/ spc'[s] = "ended"
        \/ spc[s] \in {"idle", "begin"} /\ spc'[s] \in {"begin", "install"}
        \/ spc[s] = "install" /\ spc'[s] = "running" /\ todo' = LivingLanes
        \/ spc[s] = "running" /\ spc'[s] = "barriers" /\ UNCHANGED todo
        \/ spc[s] = "collect" /\ spc'[s] = "check" /\ parked[s] >= expected[s] /\ CollectDone(s)
        \/ spc[s] = "check" /\ spc'[s] = "fn" /\ ~stopped /\ StartFn(s)
        \/ spc[s] # "ended" /\ spc'[s] \in {"drain", "releasing", "release"}
    BY <1>0, <1>5 DEF SectionMove, TakeTurn, SectionStep, SectionFails, InstallExclusive,
       AwaitRunning, BeginSection, CollectDone, StartFn, EndFn, WithdrawExclusive,
       EndDeferred, ReleaseLanes, SectionMoves, BaseType, SectionType
  <2>4. CASE spc[s] = "install" /\ spc'[s] = "running" /\ todo' = LivingLanes
    <3>1. Barriers(s)'
      BY <1>2, <1>4, <2>1, <2>2, <2>4 DEF Barriers
    <3>2. ~stopped => \A k \in Keys : queues[k] # NoLane => queues[k] \in LivingLanes
      <4>1. ~stopped => ~stopping
        BY DEF KeyBase, StopFirst
      <4> QED BY <4>1 DEF LaneInv, MapType, Mapping, LivingLanes, Live
    <3>3. Surrounded(s)'
      BY <1>1, <2>4, <3>2 DEF Surrounded
    <3> QED BY <3>1, <3>3
  <2>5. CASE spc[s] = "collect" /\ spc'[s] = "check" /\ parked[s] >= expected[s] /\ CollectDone(s)
    <3>1. UNCHANGED <<backlog, settled, active>>
      BY <2>5 DEF CollectDone, SectionMoves, laneVars
    <3>2. \A l \in Placed(s) : Fenced(l)
      BY <2>5, Collected
    <3>3. \A l \in Placed(s)' : Fenced(l)'
      BY <1>1, <2>1, <3>1, <3>2 DEF Fenced
    <3>4. Barriers(s)'
      BY <1>2, <1>4, <2>1, <2>2, <2>5, <3>3 DEF Barriers
    <3>5. Surrounded(s)'
      BY <1>1, <2>1, <2>5 DEF Surrounded
    <3> QED BY <3>4, <3>5
  <2>6. CASE spc[s] = "check" /\ spc'[s] = "fn" /\ ~stopped /\ StartFn(s)
    <3>1. UNCHANGED <<backlog, settled, active>>
      BY <2>6 DEF StartFn, SectionMoves, laneVars
    <3>2. \A l \in Placed(s)' : Fenced(l)'
      BY <1>1, <2>1, <2>6, <3>1 DEF Fenced, Barriers
    <3>3. Barriers(s)'
      BY <1>2, <1>4, <2>1, <2>2, <2>6, <3>2 DEF Barriers
    <3>4. Surrounded(s)'
      BY <1>1, <2>1, <2>6 DEF Surrounded
    <3> QED BY <3>3, <3>4
  <2>7. CASE \/ spc'[s] = "ended"
             \/ spc[s] \in {"idle", "begin"} /\ spc'[s] \in {"begin", "install"}
             \/ spc[s] = "running" /\ spc'[s] = "barriers" /\ UNCHANGED todo
             \/ spc[s] # "ended" /\ spc'[s] \in {"drain", "releasing", "release"}
    <3>1. Barriers(s)'
      BY <1>2, <1>4, <2>1, <2>2, <2>7 DEF Barriers
    <3>2. Surrounded(s)'
      BY <1>1, <2>1, <2>7 DEF Surrounded
    <3> QED BY <3>1, <3>2
  <2> QED BY <2>3, <2>4, <2>5, <2>6, <2>7
<1>6. CASE PlaceBarrier(s)
  <2>0. /\ spc[s] = "barriers" /\ todo \subseteq Lanes
        /\ todo \cap Placed(s) = {}
        /\ ~stopped => \A k \in Keys : queues[k] # NoLane =>
                          queues[k] \in Placed(s) \/ queues[k] \in todo
    BY <1>0, <1>6 DEF PlaceBarrier, Barriers, Surrounded, BaseType, SectionType
  <2>1. CASE todo = {}
    <3>1. Placed(s)' = Placed(s)
      BY <1>3, <2>1 DEF Placed
    <3>2. spc'[s] = "collect" /\ UNCHANGED <<todo, expected>>
      BY <1>0, <1>6, <2>1 DEF PlaceBarrier, BaseType, SectionType
    <3>3. Barriers(s)'
      BY <1>2, <1>4, <2>0, <3>1, <3>2 DEF Barriers
    <3>4. Surrounded(s)'
      BY <1>1, <2>0, <2>1, <3>1, <3>2 DEF Surrounded
    <3> QED BY <3>3, <3>4
  <2>2. ASSUME NEW l \in todo, todo' = todo \ {l}, ~TakesMandatory(l)
        PROVE  Barriers(s)' /\ Surrounded(s)'
    <3>1. l \in Lanes
      BY <2>0
    <3>2. spc' = spc /\ expected' = expected
      BY <1>6, <2>2 DEF PlaceBarrier
    <3>3. Placed(s)' = Placed(s)
      BY <1>3, <2>2 DEF Placed
    <3>4. Barriers(s)'
      BY <1>2, <1>4, <2>0, <2>2, <3>2, <3>3 DEF Barriers
    <3>5. ~stopped => \A k \in Keys : queues[k] # l
      BY <2>2, <3>1, PassedOver
    <3>6. Surrounded(s)'
      BY <1>1, <2>0, <2>2, <3>2, <3>3, <3>5 DEF Surrounded
    <3> QED BY <3>4, <3>6
  <2>3. ASSUME NEW l \in todo, todo' = todo \ {l}, TakesMandatory(l)
        PROVE  Barriers(s)' /\ Surrounded(s)'
    <3>1. l \in Lanes
      BY <2>0
    <3>2. spc' = spc /\ expected' = [expected EXCEPT ![s] = @ + 1]
      BY <1>6, <2>3 DEF PlaceBarrier
    <3>3. Placed(s)' = Placed(s) \cup {l} /\ l \notin Placed(s)
      BY <1>3, <1>6, <2>0, <2>3, <3>1 DEF Placed
    <3>4. expected'[s] = Cardinality(Placed(s)')
      BY <2>0, <3>1, <3>2, <3>3, BarrierAdded
    <3>5. Barriers(s)'
      BY <1>2, <1>4, <2>0, <2>3, <3>2, <3>3, <3>4 DEF Barriers
    <3>6. Surrounded(s)'
      BY <1>1, <2>0, <2>3, <3>2, <3>3 DEF Surrounded
    <3> QED BY <3>5, <3>6
  <2>4. todo = {} \/ \E l \in todo : todo' = todo \ {l}
    BY <1>6 DEF PlaceBarrier
  <2> QED BY <2>1, <2>2, <2>3, <2>4
<1> QED BY <1>5, <1>6

\* The steps of sections.
LEMMA MoveHold ==
    ASSUME LaneInv, Turn, KeyBase, Ends, StopOrder, SectionHold, NEW s \in Sections,
           NEW done, done => \A k \in Keys : barrier[k] = NoOp,
           SectionMove(s, LivingLanes, done), UNCHANGED dynamicVars
    PROVE  SectionHold'
<1>0. BaseType
  BY DEF LaneInv
<1>1. UNCHANGED <<pc, wpc, cur, stopped, queues, sealed, tracked>>
  BY SectionFramed
     DEF SectionFrame, submitVars, workerVars, stopVars, cleanupVars, dynamicVars
<1>2. \A t \in Sections \ {s} :
         spc'[t] = spc[t] /\ expected'[t] = expected[t] /\ parked'[t] = parked[t]
  BY <1>0 DEF SectionMove, TakeTurn, SectionStep, SectionFails, InstallExclusive,
     AwaitRunning, BeginSection, PlaceBarrier, CollectDone, StartFn, EndFn,
     WithdrawExclusive, EndDeferred, ReleaseLanes, SectionMoves, BaseType, SectionType
<1>3. OffLanes'
  <2>1. spc'[s] \in HoldPc => spc[s] \in HoldPc \/ AwaitRunning(s, done)
    BY <1>0 DEF SectionMove, TakeTurn, SectionStep, SectionFails, InstallExclusive,
       BeginSection, PlaceBarrier, CollectDone, StartFn, EndFn,
       WithdrawExclusive, EndDeferred, ReleaseLanes, SectionMoves, BaseType, SectionType,
       HoldPc
  <2>2. ASSUME AwaitRunning(s, done), NEW o \in Ops
        PROVE  pc[o] \notin {"cleanup", "cleanupHere"}
    <3>1. spc[s] = "running" /\ tracked = {} /\ done
      BY <2>2 DEF AwaitRunning
    <3>2. ~sealed
      BY <3>1 DEF StopOrder, SectionRegistered
    <3>3. pc[o] # "cleanupHere"
      BY <3>1, KeyOf, DynamicAssumption DEF KeyBase, KeyBarriers, DynamicAssumption
    <3> QED BY <3>1, <3>2, <3>3 DEF SectionHold, OffLanes
  <2> QED BY <1>1, <1>2, <2>1, <2>2 DEF SectionHold, OffLanes
<1>4. ASSUME NEW t \in Sections, t # s
      PROVE  Barriers(t)' /\ Surrounded(t)'
  <2>1. \A m \in Lanes : HasBarrier(t, m)' <=> HasBarrier(t, m)
    BY <1>0, <1>4, BarrierSection
  <2>2. HeldLanes(t) \subseteq HeldLanes(t)'
    BY <1>1 DEF HeldLanes
  <2>3. spc[t] \notin {"idle", "ended"} => UNCHANGED <<todo, active, laneVars>>
    <3>1. \/ UNCHANGED <<todo, active, laneVars>>
          \/ spc[s] \notin {"idle", "ended"}
      BY DEF SectionMove, TakeTurn, SectionStep, SectionFails, InstallExclusive,
         AwaitRunning, BeginSection, PlaceBarrier, CollectDone, StartFn, EndFn,
         WithdrawExclusive, EndDeferred, ReleaseLanes, SectionMoves
    <3> QED BY <1>4, <3>1 DEF Turn
  <2>4. spc[t] \in {"check", "fn"} => \A l \in Placed(t) : Fenced(l) => Fenced(l)'
    BY <1>1, <2>3 DEF Fenced, laneVars
  <2>5. stopped => stopped'
    BY <1>1
  <2> QED BY <1>1, <1>2, <1>4, <2>1, <2>2, <2>3, <2>4, <2>5, BarriersKept DEF SectionHold
<1>5. Barriers(s)' /\ Surrounded(s)'
  BY MovingHold DEF SectionHold
<1> QED BY <1>3, <1>4, <1>5 DEF SectionHold

\* Steps that leave calls, backlogs, workers and sections alone.
LEMMA HoldKept ==
    ASSUME LaneInv, SectionHold, stopped => stopped', sealed => sealed',
           UNCHANGED <<pc, backlog, settled, workerVars, tracked, sectionVars>>,
           \A k \in Keys : queues'[k] = queues[k] \/ queues'[k] = NoLane
    PROVE  SectionHold'
<1>1. OffLanes'
  BY DEF SectionHold, OffLanes, sectionVars
<1>2. ASSUME NEW s \in Sections PROVE Barriers(s)' /\ Surrounded(s)'
  <2>1. \A m \in Lanes : HasBarrier(s, m)' <=> HasBarrier(s, m)
    BY DEF HasBarrier, workerVars
  <2>2. HeldLanes(s) \subseteq HeldLanes(s)'
    BY DEF HeldLanes, workerVars
  <2>3. \A l : Fenced(l) => Fenced(l)'
    BY DEF Fenced, workerVars, sectionVars
  <2> QED BY <2>1, <2>2, <2>3, BarriersKept DEF SectionHold, sectionVars
<1> QED BY <1>1, <1>2 DEF SectionHold

\* Every step.
LEMMA NextHold ==
    ASSUME KeyOrder, Ends, StopOrder, SectionHold, [Next]_vars
    PROVE  SectionHold'
<1>0. LaneInv /\ Turn /\ KeyBase
  BY DEF KeyOrder, KeyInv, LaneOrder
<1>1. ASSUME NEW o \in Ops, Submit(o) \/ OpStep(o) \/ Cancel(o) PROVE SectionHold'
  BY <1>0, <1>1, OpHold
<1>2. ASSUME NEW l \in Lanes, LaneStep(l) PROVE SectionHold'
  BY <1>0, <1>2, WorkerHold
<1>3. ASSUME NEW s \in Sections,
             \/ (TakeTurn(s) \/ SectionFails(s, "ctx")) /\ UNCHANGED dynamicVars
             \/ SectionRuns(s)
      PROVE  SectionHold'
  <2>1. PICK done : done = \A k \in Keys : barrier[k] = NoOp
    OBVIOUS
  <2>2. SectionMove(s, LivingLanes, done) /\ UNCHANGED dynamicVars
    BY <1>3, <2>1, SectionSteps
  <2>3. done => \A k \in Keys : barrier[k] = NoOp
    BY <2>1
  <2> QED BY <1>0, <2>2, <2>3, MoveHold
<1>4. ASSUME NEW x \in Stoppers,
             \/ BeginStop(x) \/ StopRuns(x)
             \/ StopTimeout(x) /\ UNCHANGED dynamicVars
      PROVE  SectionHold'
  <2> USE DEF BeginStop, StopRuns, StopStep, StopTimeout, AwaitScan, MarkStopping, CloseLanes,
       SignalHardStop, SignalStop, WaitInFlightSubmits, WaitWorkers, WaitSections,
       FinishLifecycleCleanups, StopMoves
  <2>1. UNCHANGED <<pc, backlog, settled, workerVars, tracked, sectionVars>>
    BY <1>4 DEF StopFrame, laneVars, submitVars, cleanupVars
  <2>2. (stopped => stopped') /\ (sealed => sealed')
    BY <1>4 DEF cleanupVars
  <2> HIDE DEF BeginStop, StopRuns, StopStep, StopTimeout, AwaitScan, MarkStopping, CloseLanes,
       SignalHardStop, SignalStop, WaitInFlightSubmits, WaitWorkers, WaitSections,
       FinishLifecycleCleanups, StopMoves
  <2>3. queues' = queues
    BY <1>0, <1>4, StopSignals DEF LaneInv, KeyBase
  <2> QED BY <1>0, <2>1, <2>2, <2>3, HoldKept
<1>5. ASSUME Scan PROVE SectionHold'
  <2>1. /\ UNCHANGED <<submitVars, workerVars, stopVars, sectionVars>>
        /\ UNCHANGED <<backlog, settled>>
        /\ \A k \in Keys : queues'[k] = queues[k] \/ queues'[k] = NoLane
    BY <1>0, <1>5, ScanMap
  <2>2. UNCHANGED cleanupVars
    BY <1>5 DEF Scan, ScanIdle, RetireIfIdle, ScanExit, ScanFrame
  <2>3. (stopped => stopped') /\ (sealed => sealed')
    BY <2>1, <2>2 DEF stopVars, cleanupVars
  <2> QED BY <1>0, <2>1, <2>2, <2>3, HoldKept DEF submitVars, cleanupVars
<1>6. ASSUME UNCHANGED vars PROVE SectionHold'
  <2>1. UNCHANGED <<submitVars, laneVars, workerVars, stopVars, cleanupVars, sectionVars,
                    dynamicVars>>
    BY <1>6 DEF vars, allVars
  <2>2. (stopped => stopped') /\ (sealed => sealed')
    BY <2>1 DEF stopVars, cleanupVars
  <2> QED BY <1>0, <2>1, <2>2, HoldKept
          DEF submitVars, laneVars, cleanupVars, dynamicVars
<1> QED BY <1>1, <1>2, <1>3, <1>4, <1>5, <1>6 DEF Next, Finished

-----------------------------------------------------------------------------
(* The theorems.                                                            *)

\* Initially.
LEMMA InitDrain ==
    ASSUME Init
    PROVE  DrainInv
<1>1. Ends /\ StopOrder /\ OffLanes
  BY DEF Init, LifecycleInit, Ends, StopOrder, OffLanes, HoldPc
<1>2. ASSUME NEW s \in Sections PROVE Barriers(s) /\ Surrounded(s)
  <2>1. Placed(s) = {} /\ HeldLanes(s) = {}
    BY DEF Placed, HasBarrier, HeldLanes, Init, LifecycleInit, NoEntry
  <2>2. spc[s] = "idle" /\ expected[s] = 0 /\ parked[s] = 0
    BY DEF Init, LifecycleInit
  <2> QED BY <2>1, <2>2, FS_EmptySet DEF Barriers, Surrounded
<1> QED BY <1>1, <1>2, InitKeys, InitPlace DEF DrainInv, SectionHold

\* Whatever lanes come and go, a call is at one place, workers and stops end in
\* order and a section holds the lanes.
THEOREM DrainInOrder == Spec => []DrainInv
<1>1. DrainInv /\ [Next]_vars => DrainInv'
  <2> SUFFICES ASSUME DrainInv, [Next]_vars PROVE DrainInv'
    OBVIOUS
  <2>1. KeyOrder /\ Ends /\ StopOrder /\ OnePlace /\ SectionHold /\ LaneOrder
    BY DEF DrainInv, KeyOrder
  <2> QED BY <2>1, NextKeys, NextEnds, NextStopOrder, NextPlace, NextHold DEF DrainInv
<1> QED BY <1>1, InitDrain, PTL DEF Spec

\* No operation is resolved twice and no handle released twice, whichever of a
\* lane, the caller behind a key barrier and a section comes to do it.
THEOREM DynamicResolvedOnce == Spec => []ResolvedOnce
<1>1. DrainInv => ResolvedOnce
  BY DEF DrainInv, OnePlace, Held, ResolvedOnce
<1> QED BY <1>1, DrainInOrder, PTL

\* At fn a lane that works is mapped, so it has the barrier, so it waits.
LEMMA HoldImplies ==
    ASSUME DrainInv
    PROVE  ExclusiveAlone
<1> SUFFICES ASSUME NEW s \in Sections, spc[s] = "fn"
             PROVE  /\ \A l \in Lanes : ~Executing(l)
                    /\ \A o \in Ops : pc[o] \notin {"cleanup", "cleanupHere"}
                    /\ \A t \in Sections : spc[t] \in {"fn", "releasing"} => t = s
  BY DEF ExclusiveAlone
<1>0. LaneInv /\ Turn /\ SectionHold
  BY DEF DrainInv, KeyOrder, LaneOrder
<1>1. ASSUME NEW l \in Lanes, Executing(l) PROVE FALSE
  <2>1. cur[l].op \in Ops /\ queues[OpKey[cur[l].op]] = l
    BY <1>0, <1>1 DEF Executing, LaneInv, Hands, HandFits
  <2>2. PICK k \in Keys : queues[k] = l
    BY <2>1, KeyOf
  <2>3. l \in Placed(s)
    BY <1>0, <2>2, NotALane DEF SectionHold, Surrounded
  <2>4. Fenced(l)
    BY <1>0, <2>3 DEF SectionHold, Barriers
  <2> QED BY <1>1, <2>4 DEF Executing, Fenced
<1>2. \A o \in Ops : pc[o] \notin {"cleanup", "cleanupHere"}
  BY <1>0 DEF SectionHold, OffLanes, HoldPc
<1>3. \A t \in Sections : spc[t] \in {"fn", "releasing"} => t = s
  BY <1>0 DEF Turn
<1> QED BY <1>1, <1>2, <1>3

\* While the callback of an Exclusive section runs nothing else does, although
\* lanes may be created while it collects and while it runs.
THEOREM DynamicExclusiveAlone == Spec => []ExclusiveAlone
<1>1. DrainInv => ExclusiveAlone
  BY HoldImplies
<1> QED BY <1>1, DrainInOrder, PTL

\* A returned stop leaves nothing behind.
LEMMA StopImplies ==
    ASSUME DrainInv
    PROVE  StopQuiescent
<1> SUFFICES ASSUME NEW x \in Stoppers, stpc[x] = "returned"
             PROVE  /\ \A l \in Lanes : wpc[l] \in {"exited", "unborn"} /\ ch[l] = <<>>
                    /\ \A s \in Sections : ~SectionRegistered(s)
                    /\ tracked = {}
                    /\ \A o \in Ops : pc[o] = "done" => outcome[o] # <<>>
  BY DEF StopQuiescent, EngineReleased
<1>0. LaneInv /\ BaseType /\ KeyBase /\ Ends /\ StopOrder /\ OnePlace
  BY DEF DrainInv, KeyOrder, KeyInv, LaneOrder, LaneInv
<1>1. /\ \A l \in Lanes : wpc[l] \in {"exited", "unborn"}
      /\ \A s \in Sections : ~SectionRegistered(s)
      /\ tracked = {}
  BY <1>0 DEF StopOrder
<1>2. \A l \in Lanes : ch[l] = <<>> /\ backlog[l] = <<>> /\ cur[l].kind = "none"
  BY <1>0, <1>1 DEF Ends, LaneInv, Untouched, Hands, HandFits, BusyPc
<1>3. deferred = <<>>
  <2>1. active = NoSection
    BY <1>0, <1>1 DEF KeyBase, ActiveSection, ActivePc, SectionRegistered, BaseType,
       SectionType
  <2> QED BY <1>0, <2>1 DEF KeyBase, ActiveSection
<1>4. ASSUME NEW o \in Ops, pc[o] = "done" PROVE outcome[o] # <<>>
  <2>1. PICK k \in PlaceKind, m \in Lanes \cup {NoLane}, j \in Nat : Held(o, k, m, j)
    BY <1>0 DEF OnePlace
  <2>2. k # "call"
    BY <1>4, <2>1, CallPcFacts DEF Held
  <2>3. k \notin {"ch", "backlog", "hand"}
    BY <1>2, <2>1 DEF Held, InCh, InBacklog, InHand
  <2>4. k # "deferred"
    BY <1>3, <2>1 DEF Held, Postponed
  <2> QED BY <2>1, <2>2, <2>3, <2>4 DEF Held, PlaceKind
<1> QED BY <1>1, <1>2, <1>4

\* A stop that returned without error left no lane, no section, no counted
\* release and no call unresolved.
THEOREM DynamicStopQuiescent == Spec => []StopQuiescent
<1>1. DrainInv => StopQuiescent
  BY StopImplies
<1> QED BY <1>1, DrainInOrder, PTL

-----------------------------------------------------------------------------
(* The two fences: calls around the map.                                    *)

\* The steps of a call that looks for a lane, and of a release that finds none.
Around(o) ==
    \/ SubmitRoute(o) \/ SubmitLookup(o) \/ SubmitCreate(o) \/ EnterGate(o)
    \/ AwaitBarrier(o, "waitBarrier", "route")
    \/ AwaitBarrier(o, "hwaitBarrier", "handoff")
    \/ ScheduleCleanup(o) \/ CleanupLookup(o) \/ CleanupCreate(o)
    \/ CleanupBegin(o) \/ CleanupWithoutLiveLane(o) \/ EndCleanupHere(o)

\* A submit that fails here fails before the gate, other calls go on, and what
\* was registered stays registered; beginSubmit registers a handoff.
LEMMA AroundMoves ==
    ASSUME NEW o \in Ops, Around(o)
    PROVE  /\ reg' = reg
           /\ \/ Fail(o) /\ pc[o] \in {"route", "lookup", "create"} /\ inFlight' = inFlight
              \/ /\ pc[o] \in {"route", "lookup", "create", "gate", "waitBarrier"}
                 /\ inFlight' = inFlight /\ outcome' = outcome
                 /\ \E x \in {"lookup", "create", "gate", "waitBarrier", "route", "wait"} :
                       pc' = [pc EXCEPT ![o] = x]
              \/ /\ pc[o] \in {"handoff", "hlookup", "hcreate", "hwaitBarrier", "hbegin",
                               "hlimit"}
                 /\ inFlight' = inFlight /\ outcome' = outcome
                 /\ \E x \in {"late", "hlookup", "hcreate", "hwaitBarrier", "handoff",
                              "hbegin", "hlimit"} : pc' = [pc EXCEPT ![o] = x]
              \/ /\ pc[o] \in {"hbegin", "hlimit"} /\ ~stopped
                 /\ inFlight' = inFlight + 1 /\ outcome' = outcome
                 /\ \E x \in {"enqueue", "nolane"} : pc' = [pc EXCEPT ![o] = x]
              \/ /\ pc[o] \in {"nolane", "cleanupHere"} /\ inFlight' = inFlight
                 /\ \/ outcome' = outcome
                    \/ outcome' = [outcome EXCEPT ![o] = Append(@, "failed")]
                 /\ \E x \in {"refused", "taken", "cleanupHere"} :
                       pc' = [pc EXCEPT ![o] = x]
<1>1. CASE \/ SubmitRoute(o) \/ SubmitLookup(o) \/ SubmitCreate(o) \/ EnterGate(o)
           \/ AwaitBarrier(o, "waitBarrier", "route")
  BY <1>1 DEF SubmitRoute, SubmitLookup, SubmitCreate, EnterGate, AwaitBarrier, Lookup,
     Create, RouteFrame, Goto, stopVars
<1>2. CASE \/ AwaitBarrier(o, "hwaitBarrier", "handoff")
           \/ ScheduleCleanup(o) \/ CleanupLookup(o) \/ CleanupCreate(o)
  BY <1>2 DEF AwaitBarrier, ScheduleCleanup, CleanupLookup, CleanupCreate, Lookup,
     Create, RouteFrame, Goto, stopVars
<1>3. CASE CleanupBegin(o)
  BY <1>3 DEF CleanupBegin, HandoffFrame, Goto
<1>4. CASE CleanupWithoutLiveLane(o) \/ EndCleanupHere(o)
  BY <1>4 DEF CleanupWithoutLiveLane, EndCleanupHere, HandoffFrame, Goto, Resolve
<1> QED BY <1>1, <1>2, <1>3, <1>4 DEF Around

\* They touch a lane only to create it, with its barrier during a section.
LEMMA AroundLanes ==
    ASSUME LaneInv, NEW o \in Ops, Around(o)
    PROVE  /\ UNCHANGED <<cur, accepted, handled, owes, stopped, fence, crashed, early>>
           /\ \/ UNCHANGED laneVars
              \/ /\ outcome' = outcome /\ active \in Sections
                 /\ \E n \in Lanes : EnqueueMandatory(n, Entry("barrier", active, n, FALSE))
<1>1. CASE SubmitCreate(o) \/ CleanupCreate(o)
  <2>1. UNCHANGED <<accepted, handled, owes, stopped, fence, crashed, early>>
    BY <1>1 DEF SubmitCreate, CleanupCreate, Create, RouteFrame, historyVars, stopVars
  <2>2. CASE UNCHANGED <<laneVars, workerVars, sectionVars, queues>>
    BY <2>1, <2>2 DEF workerVars
  <2>3. CASE ~UNCHANGED <<laneVars, workerVars, sectionVars, queues>>
    <3>1. outcome' = outcome
      BY <1>1, <2>3 DEF SubmitCreate, CleanupCreate, Create
    <3>2. PICK n \in Unborn : NewLane(n, OpKey[o])
      BY <1>1, <2>3, CreateMap
    <3>3. n \in Lanes /\ active \in Sections \cup {NoSection}
      BY DEF Unborn, LaneInv, BaseType, SectionType
    <3> QED BY <2>1, <3>1, <3>2, <3>3 DEF NewLane
  <2> QED BY <2>2, <2>3
<1>2. CASE ~(SubmitCreate(o) \/ CleanupCreate(o))
  <2>1. UNCHANGED <<cur, accepted, handled, owes, stopped, fence, crashed, early>>
    BY <1>2 DEF Around, SubmitRoute, SubmitLookup, EnterGate, AwaitBarrier, ScheduleCleanup,
       CleanupLookup, Lookup, RouteFrame, CleanupBegin, CleanupWithoutLiveLane,
       EndCleanupHere, HandoffFrame, historyVars, stopVars, workerVars
  <2>2. UNCHANGED laneVars
    BY <1>2 DEF Around, SubmitRoute, SubmitLookup, EnterGate, AwaitBarrier, ScheduleCleanup,
       CleanupLookup, Lookup, CleanupBegin, CleanupWithoutLiveLane, EndCleanupHere
  <2> QED BY <2>1, <2>2
<1> QED BY <1>1, <1>2

\* They keep the count of registrations ...
LEMMA AroundRegistered ==
    ASSUME BaseType, Registrations, NEW o \in Ops, Around(o)
    PROVE  Registrations'
<1>0. reg' = reg /\ (pc[o] \in QueuePc => reg[o])
  BY AroundMoves DEF Registrations
<1>1. CASE Fail(o) /\ pc[o] \in {"route", "lookup", "create"} /\ inFlight' = inFlight
  BY <1>0, <1>1, RegFail DEF HandPc
<1>2. ASSUME NEW x, pc' = [pc EXCEPT ![o] = x], inFlight' = inFlight,
             \/ /\ pc[o] \in {"route", "lookup", "create", "gate", "waitBarrier"}
                /\ x \in {"lookup", "create", "gate", "waitBarrier", "route", "wait"}
             \/ /\ pc[o] \in {"handoff", "hlookup", "hcreate", "hwaitBarrier", "hbegin",
                              "hlimit"}
                /\ x \in {"late", "hlookup", "hcreate", "hwaitBarrier", "handoff",
                          "hbegin", "hlimit"}
             \/ /\ pc[o] \in {"nolane", "cleanupHere"}
                /\ x \in {"refused", "taken", "cleanupHere"}
      PROVE  Registrations'
  BY <1>0, <1>2, RegKept DEF HandPc, QueuePc
<1>3. ASSUME NEW x \in {"enqueue", "nolane"}, pc' = [pc EXCEPT ![o] = x],
             inFlight' = inFlight + 1, pc[o] \in {"hbegin", "hlimit"}
      PROVE  Registrations'
  <2>1. x \in HandPc /\ pc[o] \notin HandPc
    BY <1>3 DEF HandPc
  <2> QED BY <1>0, <1>3, <2>1, RegHand
<1> QED BY <1>1, <1>2, <1>3, AroundMoves

\* ... the submit fence ...
LEMMA AroundFence ==
    ASSUME LaneInv, FenceInv, NEW o \in Ops, Around(o)
    PROVE  FenceMoves
<1>1. stopped => inFlight' = inFlight
  BY AroundMoves
<1> QED BY <1>1, AroundLanes, FenceEnters

\* ... the marks of late releases ...
LEMMA AroundLate ==
    ASSUME LaneInv, LateInv, FenceMoves, NEW o \in Ops, Around(o)
    PROVE  LateInv'
<1>1. UNCHANGED <<cur, accepted, handled>> /\ BaseType
  BY AroundLanes DEF LaneInv
<1>2. CASE UNCHANGED laneVars
  BY <1>1, <1>2, LateKept DEF laneVars
<1>3. ASSUME NEW n \in Lanes, NEW s \in Sections,
             EnqueueMandatory(n, Entry("barrier", s, n, FALSE))
      PROVE  LateInv'
  BY <1>1, <1>3, LateBarrier
<1> QED BY <1>2, <1>3, AroundLanes

\* ... and what calls are owed.
LEMMA AroundOwed ==
    ASSUME LaneInv, OwesInv, NEW o \in Ops, Around(o)
    PROVE  OwesInv'
<1>1. UNCHANGED <<cur, owes>> /\ BaseType
  BY AroundLanes DEF LaneInv
<1>2. /\ \A r \in Ops : outcome[r] # <<>> => outcome'[r] # <<>>
      /\ \A p \in Ops : pc'[p] \in {"admit", "send", "blocked"}
                          => pc[p] \in {"admit", "send", "blocked"}
  <2>1. CASE Fail(o)
    BY <1>1, <2>1, OwesFail
  <2>2. CASE ~Fail(o)
    <3>1. \/ outcome' = outcome
          \/ \E r : outcome' = [outcome EXCEPT ![r] = Append(@, "failed")]
      BY <2>2, AroundMoves
    <3>2. \E x : pc' = [pc EXCEPT ![o] = x] /\ x \notin {"admit", "send", "blocked"}
      BY <2>2, AroundMoves
    <3> QED BY <1>1, <3>1, <3>2, StaysResolved, OwesPlace
  <2> QED BY <2>1, <2>2
<1>3. CASE UNCHANGED laneVars
  <2>1. SameMarks /\ ch' = ch
    BY <1>3 DEF SameMarks, laneVars
  <2> QED BY <1>1, <1>2, <2>1, OwesMoves
<1>4. ASSUME NEW n \in Lanes, NEW s \in Sections, outcome' = outcome,
             EnqueueMandatory(n, Entry("barrier", s, n, FALSE))
      PROVE  OwesInv'
  BY <1>1, <1>2, <1>4, OwesBarrier
<1> QED BY <1>3, <1>4, AroundLanes

-----------------------------------------------------------------------------
(* The two fences.                                                          *)

\* The producers in flight, the submit fence, the releases behind it and the
\* releases that calls wait for.
Fences == Registrations /\ FenceInv /\ LateInv /\ OwesInv

\* A worker has in hand what fits where it is.
LEMMA LaneHandling ==
    ASSUME LaneInv
    PROVE  \A l \in Lanes : Handling(l)
BY DEF LaneInv, Hands, HandFits, BusyPc, Home, AtHome, Fits, Handling

\* While a key has its lane, its releases are queued and its work is done there.
LEMMA LaneOfKey ==
    ASSUME LaneInv, NEW k \in Keys, NEW l \in Lanes, queues[k] = l
    PROVE  QueuedOn(k, l) /\ InHandOn(k, l)
<1>1. ASSUME NEW m \in Lanes, ReleasesFor(m, k) # {} PROVE m = l
  <2>1. PICK i \in ReleasesFor(m, k) : TRUE
    BY <1>1
  <2>2. /\ i \in DOMAIN backlog[m] /\ backlog[m][i].kind = "release"
        /\ OpKey[backlog[m][i].op] = k
    BY <2>1 DEF ReleasesFor
  <2> QED BY <2>2 DEF LaneInv, Home, AtHome, Fits
<1>2. ASSUME NEW m \in Lanes, cur[m].kind \in {"task", "release"}, OpKey[cur[m].op] = k
      PROVE  m = l
  BY <1>2 DEF LaneInv, Hands, HandFits, BusyPc
<1> QED BY <1>1, <1>2 DEF QueuedOn, InHandOn

\* The steps of calls.
LEMMA OpFences ==
    ASSUME DrainInv, Fences, NEW o \in Ops, Submit(o) \/ OpStep(o) \/ Cancel(o)
    PROVE  Fences'
<1>1. LaneInv /\ BaseType /\ OnePlace /\ StopFirst
  BY DEF DrainInv, KeyOrder, LaneOrder, LaneInv, KeyInv, KeyBase
<1>2. Registrations /\ FenceInv /\ LateInv /\ OwesInv
  BY DEF Fences
<1>3. /\ pc[o] \in {"wait", "admit", "send", "blocked", "enqueue"} => at[o] \in Lanes
      /\ pc[o] \in {"send", "blocked"} => ~closed[at[o]]
      /\ pc[o] = "late" => stopped
  BY <1>1 DEF LaneInv, Arrivals, GatePc, NearPc, StopFirst
<1>4. pc[o] = "wait" => QueuedOn(OpKey[o], at[o])
  <2> SUFFICES ASSUME pc[o] = "wait" PROVE QueuedOn(OpKey[o], at[o])
    OBVIOUS
  <2>1. queues[OpKey[o]] = at[o]
    BY <1>1 DEF LaneInv, Arrivals, GatePc
  <2>2. PICK l \in Lanes, k \in Keys : l = at[o] /\ k = OpKey[o]
    BY <1>3, KeyOf
  <2>3. QueuedOn(k, l)
    BY <1>1, <2>1, <2>2, LaneOfKey
  <2> QED BY <2>2, <2>3
<1>5. queues[OpKey[o]] \in Lanes \cup {NoLane}
  BY <1>1, KeyOf DEF LaneInv, MapType
<1>6. PICK n \in Lanes \cup {NoLane} : n = queues[OpKey[o]]
  BY <1>5
<1>7. /\ "route" \in QueuePc /\ "route" \in QueuePc \ {"admit", "send", "blocked"}
      /\ "handoff" \in {"late", "handoff"}
  BY DEF QueuePc
<1>8. CASE \/ BeginSubmit(o, "route")
           \/ WaitForMandatoryCleanup(o) \/ FenceProgress(o) \/ FenceStopped(o)
           \/ CancelBeforeAdmit(o) \/ AdmitTask(o) \/ SendTask(o)
           \/ SendOnClosed(o) \/ SendBlocks(o)
           \/ EndSubmit(o) \/ EndSubmitTest(o) \/ \E r : AbandonSend(o, r)
  <2>1. Registrations'
    BY <1>1, <1>2, <1>7, <1>8, RegProducer
  <2>2. FenceMoves
    BY <1>1, <1>2, <1>3, <1>8, FenceProducer
  <2>3. LateInv'
    BY <1>1, <1>2, <1>3, <1>8, <2>2, LateProducer
  <2>4. OwesInv'
    BY <1>1, <1>2, <1>3, <1>4, <1>7, <1>8, OwesProducer
  <2> QED BY <2>1, <2>2, <2>3, <2>4 DEF Fences, FenceMoves
<1>9. CASE \/ EnqueueCleanup(o)
           \/ EndHandoff(o, "handoff") \/ EndHandoffTest(o, "handoff")
           \/ HandoffLate(o, n)
           \/ BeginLifecycleCleanup(o) \/ EndLifecycleCleanup(o)
  <2>1. Registrations'
    BY <1>1, <1>2, <1>7, <1>9, RegRelease
  <2>2. FenceMoves
    BY <1>1, <1>2, <1>9, FenceRelease
  <2>3. LateInv'
    BY <1>1, <1>2, <1>3, <1>9, <2>2, LateRelease
  <2>4. OwesInv'
    BY <1>1, <1>2, <1>3, <1>7, <1>9, OwesRelease
  <2> QED BY <2>1, <2>2, <2>3, <2>4 DEF Fences, FenceMoves
<1>10. CASE Around(o)
  <2>1. Registrations' /\ FenceMoves /\ OwesInv'
    BY <1>1, <1>2, <1>10, AroundRegistered, AroundFence, AroundOwed
  <2>2. LateInv'
    BY <1>1, <1>2, <1>10, <2>1, AroundLate
  <2> QED BY <2>1, <2>2 DEF Fences, FenceMoves
<1>11. HandoffLate(o, queues[OpKey[o]]) => HandoffLate(o, n)
  BY <1>6
<1> QED BY <1>8, <1>9, <1>10, <1>11 DEF Submit, OpStep, Cancel, Around

\* The steps of workers.
LEMMA WorkerFences ==
    ASSUME LaneInv, OrderInv, Fences, NEW l \in Lanes, LaneStep(l)
    PROVE  Fences'
<1>1. BaseType /\ MapType /\ Registrations /\ FenceInv /\ LateInv /\ OwesInv
  BY DEF LaneInv, Fences
<1>2. CASE SeeQuit(l)
  <2>1. UNCHANGED <<submitVars, laneVars, cur, stopVars, crashed, outcome, historyVars>>
    BY <1>2, QuitFindsNothing
  <2>2. Registrations' /\ FenceMoves /\ OwesInv'
    BY <1>1, <2>1, RegSame, FenceSame, OwesSame
       DEF submitVars, laneVars, stopVars, historyVars
  <2>3. LateInv'
    BY <1>1, <2>1, <2>2, LateKept DEF laneVars, historyVars
  <2> QED BY <2>2, <2>3 DEF Fences, FenceMoves
<1>3. CASE WorkerStep(l)
  <2>1. /\ UNCHANGED <<stopVars, crashed, early>>
        /\ UNCHANGED <<pc, reg, inFlight>>
    BY <1>3 DEF WorkerStep, TakeMandatory, NoMandatory, Receive, Complete, TakeWake, SeeFence,
       SeeClosed, FinishWorker, ParkBarrier, LeaveBarrier, IdleFrame, WorkerFrame,
       submitVars, stopVars
  <2>2. Registrations' /\ FenceMoves
    BY <1>1, <2>1, RegSame, FenceSame
  <2>3. LateInv'
    BY <1>1, <1>3, <2>2, LateLane, LaneHandling
  <2>4. ASSUME ch[l] # <<>> PROVE InHandOn(OpKey[Head(ch[l])], l)
    <3>1. PICK o \in Ops : o = ch[l][1] /\ 1 \in DOMAIN ch[l] /\ o = Head(ch[l])
      BY <1>1, <2>4 DEF BaseType, LaneType
    <3>2. PICK k \in Keys : k = OpKey[o]
      BY KeyOf
    <3>3. queues[k] = l
      BY <3>1, <3>2 DEF LaneInv, Home, AtHome
    <3> QED BY <3>1, <3>2, <3>3, LaneOfKey
  <2>5. OwesInv'
    BY <1>1, <1>3, <2>4, OwesLane, LaneHandling
  <2> QED BY <2>2, <2>3, <2>5 DEF Fences, FenceMoves
<1> QED BY <1>2, <1>3 DEF LaneStep

\* The steps of sections.
LEMMA SectionFences ==
    ASSUME BaseType, Fences, NEW s \in Sections, NEW ls, NEW done, SectionMove(s, ls, done)
    PROVE  Fences'
<1>1. Registrations /\ FenceInv /\ LateInv /\ OwesInv
  BY DEF Fences
<1>2. Registrations' /\ FenceMoves
  BY <1>1, SectionFramed, RegSame, FenceSame
     DEF SectionFrame, submitVars, stopVars, historyVars
<1>3. LateInv' /\ OwesInv'
  BY <1>1, <1>2, LateSection, OwesSection
<1> QED BY <1>2, <1>3 DEF Fences, FenceMoves

\* The steps of stop calls.
LEMMA StopFences ==
    ASSUME BaseType, Fences, NEW x \in Stoppers,
           \/ BeginStop(x) \/ StopRuns(x)
           \/ StopTimeout(x) /\ UNCHANGED dynamicVars
    PROVE  Fences'
<1>1. Registrations /\ FenceInv /\ LateInv /\ OwesInv
  BY DEF Fences
<1>2. /\ UNCHANGED <<ch, backlog, admitted, inFlight, crashed, early>> /\ StopFrame
      /\ \/ UNCHANGED <<stopped, fence>>
         \/ stopped' = TRUE /\ fence' = (fence \/ (~stopped /\ inFlight = 0))
  BY DEF BeginStop, StopRuns, StopStep, StopTimeout, AwaitScan, MarkStopping, CloseLanes,
     SignalHardStop, SignalStop, WaitInFlightSubmits, WaitWorkers, WaitSections,
     FinishLifecycleCleanups, StopMoves, laneVars, StopFrame
<1>3. UNCHANGED <<pc, reg, owes, cur, outcome>>
  BY <1>2 DEF StopFrame, submitVars, workerVars
<1>4. Registrations' /\ FenceMoves /\ OwesInv'
  BY <1>1, <1>2, <1>3, RegSame, FenceStop, OwesSame
<1>5. LateInv'
  BY <1>1, <1>2, <1>4, LateStop
<1> QED BY <1>4, <1>5 DEF Fences, FenceMoves

\* The scan for idle lanes, and steps of nobody.
LEMMA IdleFences ==
    ASSUME BaseType, Fences, Scan \/ UNCHANGED vars
    PROVE  Fences'
<1>1. Registrations /\ FenceInv /\ LateInv /\ OwesInv
  BY DEF Fences
<1>2. UNCHANGED <<pc, reg, inFlight, stopVars, crashed, early, ch, backlog, cur, admitted,
                  accepted, handled, owes, outcome>>
  BY DEF Scan, ScanIdle, RetireIfIdle, ScanExit, ScanFrame, vars, allVars, laneVars,
     submitVars, workerVars, stopVars, historyVars
<1>3. Registrations' /\ FenceMoves /\ OwesInv'
  BY <1>1, <1>2, RegSame, FenceSame, OwesSame
<1>4. LateInv'
  BY <1>1, <1>2, <1>3, LateKept
<1> QED BY <1>3, <1>4 DEF Fences, FenceMoves

\* Every step.
LEMMA NextFences ==
    ASSUME DrainInv, OrderInv, Fences, [Next]_vars
    PROVE  Fences'
<1>1. LaneInv /\ BaseType
  BY DEF DrainInv, KeyOrder, LaneOrder, LaneInv
<1>2. ASSUME NEW s \in Sections,
             \/ (TakeTurn(s) \/ SectionFails(s, "ctx")) /\ UNCHANGED dynamicVars
             \/ SectionRuns(s)
      PROVE  Fences'
  <2>1. PICK done : done = \A k \in Keys : barrier[k] = NoOp
    OBVIOUS
  <2>2. PICK ls : ls = LivingLanes
    OBVIOUS
  <2>3. SectionMove(s, ls, done)
    BY <1>2, <2>1, <2>2, SectionSteps
  <2> QED BY <1>1, <2>3, SectionFences
<1> QED BY <1>1, <1>2, OpFences, WorkerFences, StopFences, IdleFences DEF Next, Finished

\* Initially.
LEMMA InitFences ==
    ASSUME Init
    PROVE  Fences
<1>1. Registrations
  BY RegNone DEF Init, LifecycleInit
<1> QED BY <1>1, LateNone DEF Fences, FenceInv, OwesInv, Init, LifecycleInit

\* The fences hold although lanes come and go: a producer behind the gate of a
\* lane keeps it the lane of its key, so the releases it waits for are there.
FencesInv == DrainInv /\ OrderInv /\ Fences

\* They hold in every reachable state.
THEOREM FencesInOrder == Spec => []FencesInv
<1>1. ASSUME Init PROVE FencesInv
  BY <1>1, InitDrain, InitOrder, InitFences DEF FencesInv
<1>2. ASSUME OrderInv, DrainInv, [Next]_vars PROVE OrderInv'
  BY <1>2, NextOrder DEF DrainInv, KeyOrder
<1>3. ASSUME DrainInv, OrderInv, Fences, [Next]_vars PROVE Fences'
  BY <1>3, NextFences
<1>4. FencesInv <=> DrainInv /\ OrderInv /\ Fences
  BY DEF FencesInv
<1> QED BY <1>1, <1>2, <1>3, <1>4, DrainInOrder, PTL DEF Spec

\* The state of strategy.go, exclusive.go and dynamic.go keeps its types, and
\* inFlightSubmits is never negative.
THEOREM DynamicTypes == Spec => []TypeOK
<1>1. FencesInv => TypeOK
  <2> SUFFICES ASSUME FencesInv PROVE TypeOK
    OBVIOUS
  <2>1. BaseType /\ inFlight \in Nat
    BY RegFinite DEF FencesInv, DrainInv, KeyOrder, LaneOrder, LaneInv, Fences, Registrations
  <2> QED BY <2>1 DEF BaseType, TypeOK
<1> QED BY FencesInOrder, <1>1, PTL

\* A task submitted after a release was queued for its key does not start
\* before that release has run, on whichever lane the key has then.
THEOREM DynamicNoOvertake == Spec => []NoOvertake
<1>1. FencesInv => NoOvertake
  BY OwesImplies, LaneHandling DEF FencesInv, DrainInv, KeyOrder, LaneOrder, Fences
<1> QED BY <1>1, FencesInOrder, PTL

\* A release queued after the stop signal runs when its lane is drained and no
\* producer can send to it, unless the submit fence was closed early.
THEOREM DynamicLateReleaseLast == Spec => []LateReleaseLast
<1>1. FencesInv => LateReleaseLast
  BY LateImplies DEF FencesInv, Fences
<1> QED BY <1>1, FencesInOrder, PTL

=============================================================================
