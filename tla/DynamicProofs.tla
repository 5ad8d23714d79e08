--------------------------- MODULE DynamicProofs ---------------------------
(***************************************************************************)
(* Theorems about the Dynamic strategy, for any finite sets of calls, keys  *)
(* and lanes, any sections, stop calls, queue limit and queue capacity.     *)
(*                                                                         *)
(* A lane is taken away by a goroutine that only looks at it: it reads a    *)
(* count, an empty channel and an empty backlog, and tries the gate.  The   *)
(* invariant says why that is enough: the count covers what the channel and *)
(* the backlog do not show, a lane has one key as long as it is mapped, and *)
(* whoever still holds a retired lane is stopped at its gate.               *)
(***************************************************************************)
EXTENDS Dynamic, LifecycleProofs

-----------------------------------------------------------------------------
(* The lanes and the map.                                                   *)

\* The calls that hold q.gate for reading, and the calls that looked a lane up
\* and have not come to it yet.
GatePc == {"wait", "fenced", "admit", "send", "blocked"}
NearPc == {"gate", "hbegin", "enqueue"}

\* The worker has something in hand that q.pending counts.
BusyPc == {"run", "abort", "barrier", "held"}

\* The types of the state of dynamic.go.
MapType ==
    /\ queues \in [Keys -> Lanes \cup {NoLane}]
    /\ stopping \in BOOLEAN
    /\ barrier \in [Keys -> Ops \cup {NoOp}]
    /\ scan \in {"idle", "retiring", "exited"}
    /\ candidates \subseteq Keys \X Lanes
    /\ scanStop \in BOOLEAN
    /\ toClose \in [Stoppers -> SUBSET Lanes]

\* A mapped lane belongs to one key, runs, and is closed only by a stop.
Mapping ==
    \A k \in Keys : queues[k] # NoLane =>
        /\ wpc[queues[k]] # "unborn"
        /\ ~retired[queues[k]]
        /\ closed[queues[k]] => stopping
        /\ \A j \in Keys : queues[j] = queues[k] => j = k

\* A lane not created yet is untouched, and nobody means to touch it.
Untouched ==
    /\ \A l \in Lanes : wpc[l] = "unborn" =>
          ~closed[l] /\ ~retired[l] /\ ch[l] = <<>> /\ backlog[l] = <<>>
    /\ \A l \in todo : wpc[l] # "unborn"
    /\ \A x \in Stoppers : \A l \in toClose[x] : wpc[l] # "unborn" /\ stopping

\* A key without a lane finds one, and len(queues) is within its limit.
Supply ==
    /\ Cardinality(Unborn) >= Cardinality(Keys \ Mapped)
    /\ QueueLimit

\* A producer behind the gate of a lane is at the open lane of its key; a call
\* on its way to a lane may find it retired.
Arrivals ==
    \A o \in Ops :
        /\ pc[o] \in GatePc =>
              at[o] \in Lanes /\ ~closed[at[o]] /\ queues[OpKey[o]] = at[o]
        /\ pc[o] \in NearPc =>
              /\ at[o] \in Lanes /\ wpc[at[o]] # "unborn"
              /\ retired[at[o]] \/ queues[OpKey[o]] = at[o]

\* Entry e may be queued on lane l.
Fits(e, l) ==
    \/ e.kind = "release" /\ e.op \in Ops /\ queues[OpKey[e.op]] = l
    \/ e.kind = "barrier" /\ e.op \in Sections

\* What is on a lane is for the key the lane is mapped to.
AtHome(l) ==
    /\ \A i \in DOMAIN ch[l] : queues[OpKey[ch[l][i]]] = l
    /\ \A i \in DOMAIN backlog[l] : Fits(backlog[l][i], l)
Home == \A l \in Lanes : AtHome(l)

\* What a worker has in hand fits where it is.
HandFits(l) ==
    /\ wpc[l] \in {"run", "abort"} =>
          /\ cur[l].kind \in {"task", "release"} /\ cur[l].op \in Ops
          /\ queues[OpKey[cur[l].op]] = l
    /\ wpc[l] \in {"barrier", "held"} =>
          cur[l].kind = "barrier" /\ cur[l].op \in Sections
    /\ wpc[l] \notin BusyPc => cur[l].kind = "none"
Hands == \A l \in Lanes : HandFits(l)

\* q.pending counts the sends on their way, the tasks in the channel, the
\* backlog and what the worker has in hand.
Busy(l) == IF wpc[l] \in BusyPc THEN 1 ELSE 0
Weight(l) == Cardinality(Unsent(l)) + Len(ch[l]) + Len(backlog[l]) + Busy(l)
Load == TracksIdle => \A l \in Lanes : pending[l] = Weight(l)

\* A retired lane has nothing, and its gate is shut.
Retirement ==
    /\ \A l \in Lanes : retired[l] =>
          closed[l] /\ ch[l] = <<>> /\ backlog[l] = <<>> /\ wpc[l] \notin BusyPc
    /\ ~TracksIdle => scan = "exited"

\* The inductive invariant.
LaneInv ==
    /\ BaseType
    /\ MapType
    /\ Mapping
    /\ Untouched
    /\ Supply
    /\ Arrivals
    /\ Home
    /\ Hands
    /\ Load
    /\ Retirement

-----------------------------------------------------------------------------
(* Keys, barriers and sections.                                             *)

\* Stop is signalled before the map is closed, and a release leaves the lanes
\* for good only after it.
StopFirst ==
    /\ stopping => stopped
    /\ \A x \in Stoppers :
          stpc[x] \in {"fence", "close", "closing", "workers", "sections",
                       "cleanups", "returned"} => stopped
    /\ \A o \in Ops : pc[o] \in {"late", "off", "cleanup"} => stopped

\* The barrier of a key is the call that runs behind it, and the key has no
\* lane.
KeyBarriers ==
    /\ \A o \in Ops : pc[o] = "cleanupHere" => barrier[OpKey[o]] = o
    /\ \A k \in Keys : barrier[k] # NoOp => queues[k] = NoLane

\* The active section is the one between its installation and its withdrawal,
\* and only it has postponed releases.
ActivePc == {"running", "barriers", "collect", "check", "fn", "drain", "releasing"}
ActiveSection ==
    /\ \A s \in Sections : active = s <=> spc[s] \in ActivePc
    /\ deferred # <<>> => active # NoSection

\* The first thing the worker of lane l does, or does now, is to wait for the
\* active section.
Fenced(l) ==
    \/ /\ wpc[l] = "poll" /\ backlog[l] # <<>>
       /\ LET e == backlog[l][1]
          IN  /\ e.kind = "barrier" /\ e.op = active /\ ~e.wsf
              /\ e.cutoff = 0 /\ e.target <= settled[l]
    \/ wpc[l] \in {"barrier", "held"} /\ cur[l].op = active

\* Before a stop the key of a postponed release is left alone.
LeftAlone(k) == barrier[k] = NoOp /\ (queues[k] # NoLane => Fenced(queues[k]))
Postponing(k) == \E i \in DOMAIN deferred : OpKey[deferred[i]] = k
PostponedAlone == ~stopped => \A k \in Keys : Postponing(k) => LeftAlone(k)

\* Tickets begin at one, and a new lane has issued none.
Tickets ==
    /\ \A o \in Ops : pc[o] \in {"send", "blocked"} => ticket[o] > 0
    /\ \A l \in Lanes : wpc[l] = "unborn" => admitted[l] = 0

KeyBase ==
    /\ StopFirst
    /\ KeyBarriers
    /\ ActiveSection
    /\ Tickets

KeyInv == KeyBase /\ PostponedAlone

-----------------------------------------------------------------------------
(* Aborts.                                                                  *)

AbortInv ==
    /\ \A l \in Lanes : wpc[l] = "abort" => hard
    /\ AbortsOnlyOnHardStop

-----------------------------------------------------------------------------
(* What steps that leave a part of the state alone preserve.                *)

\* The key of a call.
LEMMA KeyOf == \A o \in Ops : OpKey[o] \in Keys
BY ConstantsAssumption DEF ConstantsAssumption

\* NoLane is no lane.
LEMMA NotALane == NoLane \notin Lanes
BY ConstantsAssumption DEF ConstantsAssumption

\* A step creates no lane.
SameBorn == \A l \in Lanes : wpc'[l] = "unborn" <=> wpc[l] = "unborn"

\* A call moves, but not to a lane, and neither admits, sends nor gives up.
Plain(from, to) ==
    /\ to \in GatePc => from \in GatePc
    /\ to \in NearPc => from \in NearPc
    /\ to \in {"send", "blocked"} <=> from \in {"send", "blocked"}

\* A call comes to no lane it was not at or near.
Onward(from, to) ==
    /\ to \in GatePc => from \in GatePc
    /\ to \in NearPc => from \in NearPc

\* Steps that leave the map and the lanes' fate alone.
LEMMA MappingKept ==
    ASSUME MapType, Mapping, UNCHANGED <<queues, retired, closed, stopping>>, SameBorn
    PROVE  Mapping'
BY DEF MapType, Mapping, SameBorn

\* The supply of lanes.
LEMMA SupplyKept ==
    ASSUME Supply, UNCHANGED queues, SameBorn
    PROVE  Supply'
<1>1. Unborn' = Unborn /\ Mapped' = Mapped
  BY DEF Unborn, Mapped, SameBorn
<1> QED BY <1>1 DEF Supply, QueueLimit

\* Lanes not created yet.
LEMMA UntouchedKept ==
    ASSUME Untouched, SameBorn, MapType, BaseType, todo' \subseteq todo,
           UNCHANGED <<retired, closed, stopping, toClose>>,
           \A l \in Lanes : wpc[l] = "unborn" =>
               ch'[l] = ch[l] /\ backlog'[l] = backlog[l]
    PROVE  Untouched'
<1>1. todo \subseteq Lanes /\ \A x \in Stoppers : toClose[x] \subseteq Lanes
  BY DEF MapType, BaseType, SectionType
<1> QED BY <1>1 DEF Untouched, SameBorn

\* Calls on their way to a lane.
LEMMA ArrivalsKept ==
    ASSUME Arrivals, UNCHANGED <<at, closed, queues, retired>>, SameBorn,
           \A o \in Ops : Onward(pc[o], pc'[o])
    PROVE  Arrivals'
<1> SUFFICES ASSUME NEW o \in Ops
             PROVE  /\ pc'[o] \in GatePc => /\ at[o] \in Lanes /\ ~closed[at[o]]
                                            /\ queues[OpKey[o]] = at[o]
                    /\ pc'[o] \in NearPc =>
                          /\ at[o] \in Lanes /\ wpc'[at[o]] # "unborn"
                          /\ retired[at[o]] \/ queues[OpKey[o]] = at[o]
  BY DEF Arrivals
<1>1. Onward(pc[o], pc'[o])
  OBVIOUS
<1> QED BY <1>1 DEF Arrivals, Onward, SameBorn

\* What q.pending counts.
LEMMA LoadKept ==
    ASSUME Load, UNCHANGED <<at, pending, ch, backlog>>,
           \A l \in Lanes : wpc'[l] \in BusyPc <=> wpc[l] \in BusyPc,
           \A o \in Ops : pc'[o] \in {"send", "blocked"}
                             <=> pc[o] \in {"send", "blocked"}
    PROVE  Load'
<1>1. \A l : Unsent(l)' = Unsent(l)
  BY DEF Unsent
<1> QED BY <1>1 DEF Load, Weight, Busy

\* A step of calls, sections or stop calls that touches no lane.
LEMMA LaneKept ==
    ASSUME LaneInv, BaseType', MapType', todo' \subseteq todo,
           UNCHANGED <<at, ch, closed, retired, backlog, pending, wpc, cur, queues,
                       stopping, toClose>>,
           ~TracksIdle => scan' = "exited",
           \A o \in Ops : Plain(pc[o], pc'[o])
    PROVE  LaneInv'
<1> USE DEF LaneInv
<1>1. SameBorn
  BY DEF SameBorn
<1>2. \A o \in Ops : /\ pc'[o] \in {"send", "blocked"} <=> pc[o] \in {"send", "blocked"}
                     /\ Onward(pc[o], pc'[o])
  BY DEF Plain, Onward
<1>3. Mapping' /\ Supply' /\ Untouched' /\ Arrivals'
  BY <1>1, <1>2, MappingKept, SupplyKept, UntouchedKept, ArrivalsKept
<1>4. Load'
  BY <1>2, LoadKept
<1>5. Home'
  BY DEF Home, AtHome, Fits
<1>6. Hands' /\ Retirement'
  BY DEF Hands, HandFits, Retirement
<1> QED BY <1>3, <1>4, <1>5, <1>6

\* The same for a call that moves.
LEMMA LaneMoves ==
    ASSUME LaneInv, BaseType', NEW o \in Ops, NEW x, Plain(pc[o], x),
           pc' = [pc EXCEPT ![o] = x],
           UNCHANGED <<at, ch, closed, retired, backlog, pending, wpc, cur, todo,
                       dynamicVars>>
    PROVE  LaneInv'
<1>1. MapType' /\ (~TracksIdle => scan' = "exited")
  BY DEF LaneInv, MapType, Retirement, dynamicVars
<1>2. ASSUME NEW p \in Ops PROVE Plain(pc[p], pc'[p])
  BY DEF LaneInv, BaseType, SubmitType, Plain
<1> QED BY <1>1, <1>2, LaneKept DEF dynamicVars

-----------------------------------------------------------------------------
(* The steps of a producer.                                                 *)

\* The error path of a submit that has admitted nothing.
LEMMA FailMoves ==
    ASSUME LaneInv, BaseType', NEW o \in Ops, Fail(o),
           pc[o] \notin {"send", "blocked"},
           UNCHANGED <<at, ch, closed, retired, backlog, pending, wpc, cur, todo,
                       dynamicVars>>
    PROVE  LaneInv'
<1>1. PICK x \in {"handoff", "end", "done"} : pc' = [pc EXCEPT ![o] = x]
  BY DEF Fail, Return
<1>2. Plain(pc[o], x)
  BY DEF Plain, GatePc, NearPc
<1> QED BY <1>1, <1>2, LaneMoves

\* beginSubmit, waitForMandatoryCleanup, a full channel and endSubmit.
LEMMA ProducerLanes ==
    ASSUME LaneInv, NEW o \in Ops, stpc' = stpc, UNCHANGED dynamicVars,
           \/ BeginSubmit(o, "route") \/ WaitForMandatoryCleanup(o)
           \/ FenceProgress(o) \/ FenceStopped(o) \/ CancelBeforeAdmit(o)
           \/ SendBlocks(o) \/ EndSubmit(o) \/ EndSubmitTest(o)
    PROVE  LaneInv'
<1>0. BaseType
  BY DEF LaneInv
<1>1. CASE BeginSubmit(o, "route")
  <2>1. BaseType'
    BY <1>0, <1>1, BeginTyped DEF PcType
  <2>2. UNCHANGED <<at, ch, closed, retired, backlog, pending, wpc, cur, todo>>
    BY <1>1 DEF BeginSubmit, laneVars, workerVars, sectionVars
  <2>3. CASE stopped
    BY <1>1, <2>1, <2>2, <2>3, FailMoves DEF BeginSubmit
  <2>4. CASE ~stopped
    <3>1. pc[o] = "idle" /\ pc' = [pc EXCEPT ![o] = "route"]
      BY <1>1, <2>4 DEF BeginSubmit
    <3> QED BY <2>1, <2>2, <3>1, LaneMoves DEF Plain, GatePc, NearPc
  <2> QED BY <2>3, <2>4
<1>2. CASE WaitForMandatoryCleanup(o) \/ FenceProgress(o) \/ SendBlocks(o)
  <2>1. ProducerFrame
    BY <1>2 DEF WaitForMandatoryCleanup, FenceProgress, SendBlocks
  <2>2. PICK x \in {"admit", "fenced", "wait", "blocked"} :
           /\ pc' = [pc EXCEPT ![o] = x]
           /\ pc[o] \in {"wait", "fenced", "send"}
           /\ x = "blocked" <=> pc[o] = "send"
    BY <1>2 DEF WaitForMandatoryCleanup, FenceProgress, SendBlocks
  <2>3. at[o] \in Lanes
    BY <2>2 DEF LaneInv, Arrivals, GatePc
  <2>4. BaseType'
    BY <1>0, <1>2, <2>3, WaitTyped, FenceProgressTyped, BlocksTyped
  <2>5. Plain(pc[o], x)
    BY <2>2 DEF Plain, GatePc, NearPc
  <2> QED BY <2>1, <2>2, <2>4, <2>5, LaneMoves
          DEF ProducerFrame, laneVars, workerVars, sectionVars
<1>3. CASE FenceStopped(o) \/ CancelBeforeAdmit(o)
  <2>1. BaseType'
    BY <1>0, <1>3, FenceStoppedTyped, CancelTyped
  <2>2. ProducerFrame /\ Fail(o) /\ pc[o] \notin {"send", "blocked"}
    BY <1>3 DEF FenceStopped, CancelBeforeAdmit
  <2> QED BY <2>1, <2>2, FailMoves
          DEF ProducerFrame, laneVars, workerVars, sectionVars
<1>4. CASE EndSubmit(o) \/ EndSubmitTest(o)
  <2>1. BaseType'
    BY <1>0, <1>4, EndSubmitTyped, EndTestTyped
  <2>2. PICK x \in {"endTest", "done"} :
           pc' = [pc EXCEPT ![o] = x] /\ pc[o] \in {"end", "endTest"}
    BY <1>4 DEF EndSubmit, LeaveSubmit, EndSubmitTest, TestStop
  <2>3. UNCHANGED <<at, ch, closed, retired, backlog, pending, wpc, cur, todo>>
    BY <1>4 DEF EndSubmit, EndSubmitTest, TestStop, laneVars, workerVars, sectionVars
  <2>4. Plain(pc[o], x)
    BY <2>2 DEF Plain, GatePc, NearPc
  <2> QED BY <2>1, <2>2, <2>3, <2>4, LaneMoves
<1> QED BY <1>1, <1>2, <1>3, <1>4

\* A send never finds its channel closed: the gate it holds keeps it open.
LEMMA GateKeepsOpen ==
    ASSUME LaneInv, NEW o \in Ops
    PROVE  ~SendOnClosed(o)
BY DEF LaneInv, Arrivals, GatePc, SendOnClosed, ChannelClosed

\* The parts of what q.pending counts.
LEMMA Weights ==
    ASSUME BaseType, NEW l \in Lanes
    PROVE  /\ Cardinality(Unsent(l)) \in Nat /\ Len(ch[l]) \in Nat
           /\ Len(backlog[l]) \in Nat /\ Busy(l) \in Nat /\ Weight(l) \in Nat
<1>1. Len(ch[l]) \in Nat /\ Len(backlog[l]) \in Nat
  BY DEF BaseType, LaneType
<1>2. Cardinality(Unsent(l)) \in Nat
  BY UnsentFinite
<1>3. Busy(l) \in Nat
  BY DEF Busy
<1> QED BY <1>1, <1>2, <1>3 DEF Weight

\* On lane l alone the sends on their way change by u, the channel by c, the
\* backlog by b and what is in hand by w.
Shift(l, u, c, b, w) ==
    /\ Cardinality(Unsent(l)') = Cardinality(Unsent(l)) + u
    /\ Len(ch'[l]) = Len(ch[l]) + c
    /\ Len(backlog'[l]) = Len(backlog[l]) + b
    /\ Busy(l)' = Busy(l) + w
    /\ \A m \in Lanes \ {l} :
          /\ Unsent(m)' = Unsent(m)
          /\ ch'[m] = ch[m] /\ backlog'[m] = backlog[m] /\ wpc'[m] = wpc[m]

\* What q.pending counts changes with it on one lane.
LEMMA LoadMoves ==
    ASSUME Load, BaseType, NEW l \in Lanes, NEW u \in Int, NEW c \in Int,
           NEW b \in Int, NEW w \in Int, Shift(l, u, c, b, w), NEW d, d = u + c + b + w,
           PendingBump(l, d)
    PROVE  Load'
<1> SUFFICES ASSUME TracksIdle, NEW m \in Lanes
             PROVE  pending'[m] = Weight(m)'
  BY DEF Load
<1>1. pending \in [Lanes -> Int] /\ pending' = [pending EXCEPT ![l] = @ + d] /\ d \in Int
  BY DEF BaseType, LaneType, PendingBump
<1>2. pending[m] = Weight(m)
  BY DEF Load
<1>3. m # l => Weight(m)' = Weight(m)
  BY DEF Weight, Busy, Shift
<1>4. PICK u0 \in Nat, c0 \in Nat, b0 \in Nat, w0 \in Nat :
         /\ u0 = Cardinality(Unsent(l)) /\ c0 = Len(ch[l])
         /\ b0 = Len(backlog[l]) /\ w0 = Busy(l)
  BY Weights
<1>5. Weight(l) = u0 + c0 + b0 + w0
  BY <1>4 DEF Weight
<1>6. Weight(l)' = (u0 + u) + (c0 + c) + (b0 + b) + (w0 + w)
  BY <1>4 DEF Weight, Shift
<1>7. Weight(l)' = Weight(l) + d
  BY <1>5, <1>6
<1> QED BY <1>1, <1>2, <1>3, <1>7

\* A step that touches one lane.
LEMMA OneLane ==
    ASSUME LaneInv, BaseType', NEW l \in Lanes, Load', AtHome(l)', HandFits(l)',
           UNCHANGED <<at, closed, retired, dynamicVars>>, todo' \subseteq todo,
           wpc[l] # "unborn", wpc'[l] # "unborn",
           retired[l] => ch'[l] = <<>> /\ backlog'[l] = <<>> /\ wpc'[l] \notin BusyPc,
           \A m \in Lanes \ {l} :
               /\ ch'[m] = ch[m] /\ backlog'[m] = backlog[m]
               /\ wpc'[m] = wpc[m] /\ cur'[m] = cur[m],
           \A o \in Ops : Onward(pc[o], pc'[o])
    PROVE  LaneInv'
<1> USE DEF LaneInv
<1>1. SameBorn
  BY DEF SameBorn
<1>2. Mapping' /\ Supply'
  BY <1>1, MappingKept, SupplyKept DEF dynamicVars
<1>3. Untouched'
  BY <1>1, UntouchedKept DEF dynamicVars
<1>4. Arrivals'
  BY <1>1, ArrivalsKept DEF dynamicVars
<1>5. MapType'
  BY DEF MapType, dynamicVars
<1>6. Home'
  <2>1. ASSUME NEW m \in Lanes, m # l PROVE AtHome(m)'
    BY <2>1 DEF Home, AtHome, Fits, dynamicVars
  <2> QED BY <2>1 DEF Home
<1>7. Hands'
  <2>1. ASSUME NEW m \in Lanes, m # l PROVE HandFits(m)'
    BY <2>1 DEF Hands, HandFits, dynamicVars
  <2> QED BY <2>1 DEF Hands
<1>8. Retirement'
  BY DEF Retirement, dynamicVars
<1> QED BY <1>2, <1>3, <1>4, <1>5, <1>6, <1>7, <1>8

\* admitTask counts the send it lets go on.
LEMMA AdmitLanes ==
    ASSUME LaneInv, NEW o \in Ops, stpc' = stpc, UNCHANGED dynamicVars, AdmitTask(o)
    PROVE  LaneInv'
<1> USE DEF LaneInv
<1>1. PICK l \in Lanes : l = at[o]
  BY DEF AdmitTask, Arrivals, GatePc
<1>2. /\ pc[o] = "admit" /\ pc' = [pc EXCEPT ![o] = "send"]
      /\ PendingBump(l, 1)
      /\ UNCHANGED <<at, ch, closed, retired, backlog, wpc, cur, todo>>
  BY <1>1 DEF AdmitTask, workerVars, sectionVars
<1>3. BaseType'
  BY <1>1, AdmitTyped
<1>4. /\ wpc[l] # "unborn" /\ ~retired[l]
      /\ AtHome(l)' /\ HandFits(l)'
  <2>1. queues[OpKey[o]] = l /\ OpKey[o] \in Keys /\ l # NoLane
    BY <1>1, <1>2, KeyOf, NotALane DEF Arrivals, GatePc
  <2>2. wpc[l] # "unborn" /\ ~retired[l]
    BY <2>1 DEF Mapping
  <2> QED BY <1>2, <2>2 DEF Home, AtHome, Fits, Hands, HandFits, dynamicVars
<1>5. /\ o \notin Unsent(l) /\ Unsent(l)' = Unsent(l) \cup {o}
      /\ \A k : k # l => Unsent(k)' = Unsent(k)
  BY <1>1, <1>2 DEF Unsent, BaseType, SubmitType
<1>6. Cardinality(Unsent(l)') = Cardinality(Unsent(l)) + 1
  BY <1>5, UnsentFinite, FS_AddElement
<1>7. Load'
  <2>1. Len(ch'[l]) = Len(ch[l]) /\ Len(backlog'[l]) = Len(backlog[l])
    BY <1>2
  <2>2. Busy(l)' = Busy(l)
    BY <1>2 DEF Busy
  <2>3. Shift(l, 1, 0, 0, 0) /\ 1 = 1 + 0 + 0 + 0
    BY <1>2, <1>5, <1>6, <2>1, <2>2, Weights DEF Shift
  <2> QED BY <1>2, <2>3, LoadMoves
<1>8. \A p \in Ops : Onward(pc[p], pc'[p])
  BY <1>2 DEF BaseType, SubmitType, Onward, GatePc, NearPc
<1> QED BY <1>2, <1>3, <1>4, <1>7, <1>8, OneLane

\* A send goes on to the channel of its lane.
LEMMA SendLanes ==
    ASSUME LaneInv, NEW o \in Ops, stpc' = stpc, UNCHANGED dynamicVars, SendTask(o)
    PROVE  LaneInv'
<1> USE DEF LaneInv
<1>1. PICK l \in Lanes : l = at[o]
  BY DEF SendTask, Arrivals, GatePc
<1>2. /\ pc[o] \in {"send", "blocked"} /\ pc' = [pc EXCEPT ![o] = "end"]
      /\ ch' = [ch EXCEPT ![l] = Append(@, o)]
      /\ UNCHANGED <<at, closed, retired, backlog, pending, wpc, cur, todo>>
  BY <1>1 DEF SendTask, workerVars, sectionVars
<1>3. BaseType'
  BY <1>1, SendTyped
<1>4. queues[OpKey[o]] = l /\ OpKey[o] \in Keys /\ l # NoLane
  BY <1>1, <1>2, KeyOf, NotALane DEF Arrivals, GatePc
<1>5. wpc[l] # "unborn" /\ ~retired[l]
  BY <1>4 DEF Mapping
<1>6. ch[l] \in Seq(Ops) /\ ch'[l] = Append(ch[l], o)
  BY <1>2 DEF BaseType, LaneType
<1>7. AtHome(l)'
  <2>1. \A i \in DOMAIN ch'[l] : queues[OpKey[ch'[l][i]]] = l
    <3>1. \A i \in DOMAIN ch'[l] : \/ i \in DOMAIN ch[l] /\ ch'[l][i] = ch[l][i]
                                   \/ ch'[l][i] = o
      BY <1>6, SeqElements
    <3> QED BY <1>4, <3>1 DEF Home, AtHome
  <2> QED BY <1>2, <2>1 DEF Home, AtHome, Fits, dynamicVars
<1>8. HandFits(l)'
  BY <1>2 DEF Hands, HandFits, dynamicVars
<1>9. Load'
  <2>1. pc' \in [Ops -> PcType] /\ pc'[o] \notin {"send", "blocked"}
        /\ \A p \in Ops \ {o} : pc'[p] = pc[p]
    BY <1>2, <1>3 DEF BaseType, SubmitType
  <2>2. /\ Cardinality(Unsent(l)') = Cardinality(Unsent(l)) - 1
        /\ \A k : k # l => Unsent(k)' = Unsent(k)
    BY <1>1, <1>2, <2>1, UnsentLeaves
  <2>3. Len(ch'[l]) = Len(ch[l]) + 1 /\ Len(backlog'[l]) = Len(backlog[l])
    BY <1>2, <1>6
  <2>4. Busy(l)' = Busy(l)
    BY <1>2 DEF Busy
  <2>5. \A m \in Lanes \ {l} : ch'[m] = ch[m] /\ backlog'[m] = backlog[m] /\ wpc'[m] = wpc[m]
    BY <1>2 DEF BaseType, LaneType
  <2>6. Shift(l, -1, 1, 0, 0) /\ 0 = -1 + 1 + 0 + 0
    BY <2>2, <2>3, <2>4, <2>5, Weights DEF Shift
  <2>7. PendingBump(l, 0)
    BY <1>2 DEF PendingBump, BaseType, LaneType
  <2> QED BY <2>6, <2>7, LoadMoves
<1>10. \A p \in Ops : Onward(pc[p], pc'[p])
  BY <1>2 DEF BaseType, SubmitType, Onward, GatePc, NearPc
<1>11. \A m \in Lanes \ {l} : ch'[m] = ch[m]
  BY <1>2 DEF BaseType, LaneType
<1> QED BY <1>2, <1>3, <1>5, <1>7, <1>8, <1>9, <1>10, <1>11, OneLane

\* A send given up is no longer counted (unmarkSent).
LEMMA AbandonLanes ==
    ASSUME LaneInv, NEW o \in Ops, NEW reason, stpc' = stpc, UNCHANGED dynamicVars,
           AbandonSend(o, reason)
    PROVE  LaneInv'
<1> USE DEF LaneInv
<1>1. PICK l \in Lanes : l = at[o]
  BY DEF AbandonSend, Arrivals, GatePc
<1>2. PICK t : t = ticket[o]
  OBVIOUS
<1>3. /\ pc[o] = "blocked" /\ Fail(o) /\ UnmarkSent(l, t)
      /\ UNCHANGED <<at, ch, closed, retired, wpc, cur, todo>>
  BY <1>1, <1>2 DEF AbandonSend, workerVars, sectionVars
<1>4. BaseType'
  BY <1>1, AbandonTyped
<1>5. queues[OpKey[o]] = l /\ OpKey[o] \in Keys /\ l # NoLane
  BY <1>1, <1>3, KeyOf, NotALane DEF Arrivals, GatePc
<1>6. wpc[l] # "unborn" /\ ~retired[l]
  BY <1>5 DEF Mapping
<1>7. /\ backlog[l] \in Seq(EntryType) /\ backlog'[l] \in Seq(EntryType)
      /\ backlog'[l] = RaiseTargets(backlog[l], t)
      /\ \A m \in Lanes \ {l} : backlog'[m] = backlog[m]
      /\ PendingBump(l, -1)
  BY <1>3, <1>4 DEF UnmarkSent, BaseType, LaneType
<1>8. /\ DOMAIN backlog'[l] = DOMAIN backlog[l]
      /\ \A i \in DOMAIN backlog[l] : /\ backlog'[l][i].kind = backlog[l][i].kind
                                      /\ backlog'[l][i].op = backlog[l][i].op
  BY <1>7, RaiseKeeps
<1>9. AtHome(l)'
  BY <1>3, <1>8 DEF Home, AtHome, Fits, dynamicVars
<1>10. HandFits(l)'
  BY <1>3 DEF Hands, HandFits, dynamicVars
<1>11. PICK x \in {"handoff", "end", "done"} : pc' = [pc EXCEPT ![o] = x]
  BY <1>3 DEF Fail, Return
<1>12. Load'
  <2>1. pc' \in [Ops -> PcType] /\ pc'[o] \notin {"send", "blocked"}
        /\ \A p \in Ops \ {o} : pc'[p] = pc[p]
    BY <1>4, <1>11 DEF BaseType, SubmitType
  <2>2. /\ Cardinality(Unsent(l)') = Cardinality(Unsent(l)) - 1
        /\ \A k : k # l => Unsent(k)' = Unsent(k)
    BY <1>1, <1>3, <2>1, UnsentLeaves
  <2>3. Len(ch'[l]) = Len(ch[l]) /\ Len(backlog'[l]) = Len(backlog[l])
    BY <1>3, <1>7, <1>8
  <2>4. Busy(l)' = Busy(l)
    BY <1>3 DEF Busy
  <2>5. \A m \in Lanes \ {l} : ch'[m] = ch[m] /\ backlog'[m] = backlog[m] /\ wpc'[m] = wpc[m]
    BY <1>3, <1>7
  <2>6. Shift(l, -1, 0, 0, 0) /\ -1 = -1 + 0 + 0 + 0
    BY <2>2, <2>3, <2>4, <2>5, Weights DEF Shift
  <2> QED BY <1>7, <2>6, LoadMoves
<1>13. \A p \in Ops : Onward(pc[p], pc'[p])
  BY <1>11 DEF BaseType, SubmitType, Onward, GatePc, NearPc
<1> QED BY <1>3, <1>4, <1>6, <1>7, <1>9, <1>10, <1>12, <1>13, OneLane

\* enqueueMandatory counts the entry it queues.
LEMMA EnqueueLanes ==
    ASSUME LaneInv, BaseType', NEW l \in Lanes, NEW e \in EntryType,
           EnqueueMandatory(l, e), wpc[l] # "unborn", Fits(e, l),
           UNCHANGED <<at, wpc, cur, dynamicVars>>, todo' \subseteq todo,
           \A o \in Ops : Plain(pc[o], pc'[o])
    PROVE  LaneInv'
<1> USE DEF LaneInv
<1>1. /\ backlog' = [backlog EXCEPT ![l] = Append(@, e)]
      /\ PendingBump(l, 1) /\ ~retired[l]
      /\ UNCHANGED <<ch, closed, retired>>
  BY DEF EnqueueMandatory, TakesMandatory
<1>2. /\ backlog[l] \in Seq(EntryType) /\ backlog'[l] = Append(backlog[l], e)
      /\ \A m \in Lanes \ {l} : backlog'[m] = backlog[m]
  BY <1>1 DEF BaseType, LaneType
<1>3. AtHome(l)'
  <2>1. \A i \in DOMAIN backlog'[l] :
           \/ i \in DOMAIN backlog[l] /\ backlog'[l][i] = backlog[l][i]
           \/ backlog'[l][i] = e
    BY <1>2, SeqElements
  <2>2. \A i \in DOMAIN backlog'[l] : Fits(backlog'[l][i], l)
    BY <2>1 DEF Home, AtHome
  <2> QED BY <1>1, <2>2 DEF Home, AtHome, Fits, dynamicVars
<1>4. HandFits(l)'
  BY DEF Hands, HandFits, dynamicVars
<1>5. \A o \in Ops : /\ pc'[o] \in {"send", "blocked"} <=> pc[o] \in {"send", "blocked"}
                     /\ Onward(pc[o], pc'[o])
  BY DEF Plain, Onward
<1>6. Load'
  <2>1. \A m : Unsent(m)' = Unsent(m)
    BY <1>5 DEF Unsent
  <2>2. Len(ch'[l]) = Len(ch[l]) /\ Len(backlog'[l]) = Len(backlog[l]) + 1
    BY <1>1, <1>2
  <2>3. Busy(l)' = Busy(l)
    BY DEF Busy
  <2>4. Shift(l, 0, 0, 1, 0) /\ 1 = 0 + 0 + 1 + 0
    BY <1>1, <1>2, <2>1, <2>2, <2>3, Weights DEF Shift
  <2> QED BY <1>1, <2>4, LoadMoves
<1> QED BY <1>1, <1>2, <1>3, <1>4, <1>5, <1>6, OneLane

-----------------------------------------------------------------------------
(* The steps of a handoff.                                                  *)

\* A call that goes away from the lanes.
LEMMA AwayMoves ==
    ASSUME LaneInv, BaseType', NEW o \in Ops, NEW x, pc' = [pc EXCEPT ![o] = x],
           pc[o] \notin {"send", "blocked"}, x \notin GatePc \cup NearPc,
           UNCHANGED <<at, ch, closed, retired, backlog, pending, wpc, cur, todo,
                       dynamicVars>>
    PROVE  LaneInv'
<1>1. Plain(pc[o], x)
  BY DEF Plain, GatePc, NearPc
<1> QED BY <1>1, LaneMoves

\* A release is queued on a lane of its key.
LEMMA ReleaseQueued ==
    ASSUME LaneInv, BaseType', NEW o \in Ops, NEW l \in Lanes, NEW w \in BOOLEAN, NEW x,
           EnqueueMandatory(l, Entry("release", o, l, w)), queues[OpKey[o]] = l,
           pc[o] \notin {"send", "blocked"}, x \notin GatePc \cup NearPc,
           pc' = [pc EXCEPT ![o] = x], UNCHANGED <<at, wpc, cur, todo, dynamicVars>>
    PROVE  LaneInv'
<1> USE DEF LaneInv
<1>1. Entry("release", o, l, w) \in EntryType
  BY EntryTyped
<1>2. Fits(Entry("release", o, l, w), l)
  BY DEF Fits, Entry
<1>3. wpc[l] # "unborn"
  BY KeyOf, NotALane DEF Mapping
<1>4. ASSUME NEW p \in Ops PROVE Plain(pc[p], pc'[p])
  BY DEF BaseType, SubmitType, Plain, GatePc, NearPc
<1> QED BY <1>1, <1>2, <1>3, <1>4, EnqueueLanes

\* enqueueSubmitFailureCleanup: a lane that was not retired meanwhile is still
\* the lane of the key.
LEMMA EnqueueCleanupLanes ==
    ASSUME LaneInv, NEW o \in Ops, UNCHANGED dynamicVars, EnqueueCleanup(o)
    PROVE  LaneInv'
<1> USE DEF LaneInv
<1>1. PICK l \in Lanes : l = at[o]
  BY DEF EnqueueCleanup, Arrivals, NearPc
<1>2. pc[o] = "enqueue" /\ UNCHANGED <<at, wpc, cur, todo>>
  BY DEF EnqueueCleanup, HandoffFrame, workerVars, sectionVars
<1>3. BaseType'
  BY <1>1, EnqueueCleanupTyped
<1>4. CASE TakesMandatory(l)
  <2>1. /\ EnqueueMandatory(l, Entry("release", o, l, FALSE))
        /\ pc' = [pc EXCEPT ![o] = "taken"]
    BY <1>1, <1>4 DEF EnqueueCleanup
  <2>2. queues[OpKey[o]] = l
    BY <1>1, <1>2, <1>4 DEF Arrivals, NearPc, TakesMandatory
  <2> QED BY <1>2, <1>3, <2>1, <2>2, ReleaseQueued DEF GatePc, NearPc
<1>5. CASE ~TakesMandatory(l)
  <2>1. pc' = [pc EXCEPT ![o] = "refused"] /\ UNCHANGED laneVars
    BY <1>1, <1>5 DEF EnqueueCleanup
  <2> QED BY <1>2, <1>3, <2>1, AwayMoves DEF GatePc, NearPc, laneVars
<1> QED BY <1>4, <1>5

\* The handoff after stop was signalled.
LEMMA HandoffLateLanes ==
    ASSUME LaneInv, NEW o \in Ops, UNCHANGED dynamicVars, HandoffLate(o, queues[OpKey[o]])
    PROVE  LaneInv'
<1> USE DEF LaneInv
<1>1. PICK l \in Lanes \cup {NoLane} : l = queues[OpKey[o]]
  BY KeyOf DEF MapType
<1>2. HandoffLate(o, l)
  BY <1>1
<1>3. pc[o] = "late" /\ UNCHANGED <<at, wpc, cur, todo>>
  BY <1>2 DEF HandoffLate, HandoffFrame, workerVars, sectionVars
<1>4. BaseType'
  BY <1>2, HandoffLateTyped
<1>5. CASE l # NoLane /\ TakesMandatory(l)
  <2>1. EnqueueMandatory(l, Entry("release", o, l, TRUE)) /\ l \in Lanes
    BY <1>2, <1>5 DEF HandoffLate
  <2>2. PICK x \in {"end", "done"} : pc' = [pc EXCEPT ![o] = x]
    BY <1>2, <1>5 DEF HandoffLate, Return
  <2> QED BY <1>1, <1>3, <1>4, <2>1, <2>2, ReleaseQueued DEF GatePc, NearPc
<1>6. CASE ~(l # NoLane /\ TakesMandatory(l))
  <2>1. pc' = [pc EXCEPT ![o] = "off"] /\ UNCHANGED laneVars
    BY <1>2, <1>6 DEF HandoffLate
  <2> QED BY <1>3, <1>4, <2>1, AwayMoves DEF GatePc, NearPc, laneVars
<1> QED BY <1>5, <1>6

\* The end of a handoff and of a release on its caller's goroutine.
LEMMA HandoffLanes ==
    ASSUME LaneInv, NEW o \in Ops, UNCHANGED dynamicVars,
           \/ EndHandoff(o, "handoff") \/ EndHandoffTest(o, "handoff")
           \/ BeginLifecycleCleanup(o) \/ EndLifecycleCleanup(o)
    PROVE  LaneInv'
<1>1. BaseType'
  BY EndHandoffTyped, EndHandoffTestTyped, BeginCleanupTyped, EndCleanupTyped
  DEF LaneInv, PcType
<1>2. UNCHANGED <<at, ch, closed, retired, backlog, pending, wpc, cur, todo>>
  BY DEF EndHandoff, EndHandoffTest, TestStop, BeginLifecycleCleanup,
         EndLifecycleCleanup, HandoffFrame, laneVars, workerVars, sectionVars
<1>3. PICK x \in {"takenTest", "refusedTest", "handoff", "end", "done", "cleanup"} :
         pc' = [pc EXCEPT ![o] = x]
  BY DEF EndHandoff, EndHandoffTest, LeaveSubmit, TestStop, BeginLifecycleCleanup,
         EndLifecycleCleanup, Return
<1>4. pc[o] \notin {"send", "blocked"}
  BY DEF EndHandoff, EndHandoffTest, LeaveSubmit, TestStop, BeginLifecycleCleanup,
         EndLifecycleCleanup
<1> QED BY <1>1, <1>2, <1>3, <1>4, AwayMoves DEF GatePc, NearPc

\* The bookkeeping of an operation's state around the map.
LEMMA FrameTyped ==
    ASSUME BaseType, pc' \in [Ops -> PcType], at' \in [Ops -> Lanes \cup {NoLane}],
           outcome' \in [Ops -> Seq(Results)], inFlight' \in Int,
           deferred' \in Seq(Ops),
           UNCHANGED <<ticket, seen, reg, laneVars, workerVars, stopped, hard, fence,
                       crashed, cleanupVars, spc, active, todo, expected, parked,
                       aborted, historyVars, stpc>>
    PROVE  BaseType'
BY DEF BaseType, SubmitType, LaneType, WorkerType, StopType, SectionType, HistoryType,
       laneVars, workerVars, cleanupVars, historyVars

\* beginSubmit before a handoff to a lane, or to the caller at the limit.
LEMMA CleanupBeginLanes ==
    ASSUME LaneInv, NEW o \in Ops, CleanupBegin(o)
    PROVE  LaneInv'
<1>1. PICK x \in {"late", "enqueue", "nolane"} :
         /\ pc' = [pc EXCEPT ![o] = x] /\ pc[o] \in {"hbegin", "hlimit"}
         /\ x = "enqueue" => pc[o] = "hbegin"
  BY DEF CleanupBegin, Goto
<1>2. UNCHANGED <<at, ch, closed, retired, backlog, pending, wpc, cur, todo, dynamicVars>>
  BY DEF CleanupBegin, HandoffFrame, laneVars, workerVars, sectionVars
<1>3. BaseType'
  <2>1. pc' \in [Ops -> PcType] /\ at' \in [Ops -> Lanes \cup {NoLane}]
    BY <1>1, <1>2 DEF LaneInv, BaseType, SubmitType, PcType
  <2>2. outcome' \in [Ops -> Seq(Results)]
    BY DEF CleanupBegin, Goto, LaneInv, BaseType, HistoryType
  <2>3. inFlight' \in Int
    BY DEF CleanupBegin, LaneInv, BaseType
  <2>4. deferred' \in Seq(Ops)
    BY DEF CleanupBegin, LaneInv, BaseType, SectionType, sectionVars
  <2> QED BY <2>1, <2>2, <2>3, <2>4, FrameTyped
          DEF CleanupBegin, HandoffFrame, sectionVars, LaneInv
<1>4. Plain(pc[o], x)
  BY <1>1 DEF Plain, GatePc, NearPc
<1> QED BY <1>1, <1>2, <1>3, <1>4, LaneMoves

\* A release behind the barrier of its key begins, or is refused or postponed.
LEMMA CleanupHereLanes ==
    ASSUME LaneInv, NEW o \in Ops, CleanupWithoutLiveLane(o) \/ EndCleanupHere(o)
    PROVE  LaneInv'
<1> USE DEF LaneInv
<1>1. PICK x \in {"refused", "taken", "cleanupHere"} :
         pc' = [pc EXCEPT ![o] = x] /\ pc[o] \in {"nolane", "cleanupHere"}
  BY DEF CleanupWithoutLiveLane, EndCleanupHere, Goto
<1>2. UNCHANGED <<at, ch, closed, retired, backlog, pending, wpc, cur, todo, queues,
                  stopping, scanVars, inFlight>>
  BY DEF CleanupWithoutLiveLane, EndCleanupHere, HandoffFrame, laneVars, workerVars,
         sectionVars
<1>3. BaseType'
  <2>1. pc' \in [Ops -> PcType] /\ at' \in [Ops -> Lanes \cup {NoLane}] /\ inFlight' \in Int
    BY <1>1, <1>2 DEF BaseType, SubmitType, PcType
  <2>2. outcome' \in [Ops -> Seq(Results)]
    <3>1. CASE CleanupWithoutLiveLane(o)
      BY <3>1 DEF CleanupWithoutLiveLane, Goto, BaseType, HistoryType
    <3>2. CASE EndCleanupHere(o)
      BY <3>2, OutcomeTyped DEF EndCleanupHere, Resolve, BaseType, HistoryType, Results
    <3> QED BY <3>1, <3>2
  <2>3. deferred' \in Seq(Ops)
    <3>1. deferred' \in {deferred, Append(deferred, o)}
      BY DEF CleanupWithoutLiveLane, EndCleanupHere, sectionVars
    <3>2. deferred \in Seq(Ops)
      BY DEF BaseType, SectionType
    <3>3. Append(deferred, o) \in Seq(Ops)
      BY <3>2
    <3> QED BY <3>1, <3>2, <3>3
  <2> QED BY <2>1, <2>2, <2>3, FrameTyped
          DEF CleanupWithoutLiveLane, EndCleanupHere, HandoffFrame, sectionVars
<1>4. MapType'
  <2>1. barrier' \in [Keys -> Ops \cup {NoOp}]
    BY DEF CleanupWithoutLiveLane, EndCleanupHere, MapType
  <2> QED BY <1>2, <2>1 DEF MapType, scanVars
<1>5. ASSUME NEW p \in Ops PROVE Plain(pc[p], pc'[p])
  BY <1>1 DEF BaseType, SubmitType, Plain, GatePc, NearPc
<1>6. ~TracksIdle => scan' = "exited"
  BY <1>2 DEF Retirement, scanVars
<1> QED BY <1>2, <1>3, <1>4, <1>5, <1>6, LaneKept DEF scanVars

-----------------------------------------------------------------------------
(* getOrCreate.                                                             *)

\* A step of calls on their way to a lane.
LEMMA LanesKept ==
    ASSUME LaneInv, BaseType', Arrivals', \A l : Unsent(l)' = Unsent(l),
           UNCHANGED <<laneVars, workerVars, sectionVars, dynamicVars>>
    PROVE  LaneInv'
<1> USE DEF LaneInv
<1>1. SameBorn /\ MapType'
  BY DEF SameBorn, MapType, workerVars, dynamicVars
<1>2. Mapping' /\ Supply' /\ Untouched'
  BY <1>1, MappingKept, SupplyKept, UntouchedKept
  DEF laneVars, workerVars, sectionVars, dynamicVars
<1>3. Load'
  BY DEF Load, Weight, Busy, laneVars, workerVars
<1>4. Home' /\ Hands' /\ Retirement'
  BY DEF Home, AtHome, Fits, Hands, HandFits, Retirement, laneVars, workerVars, dynamicVars
<1> QED BY <1>1, <1>2, <1>3, <1>4

\* The types, when getOrCreate finds or refuses a lane.
LEMMA RouteTyped ==
    ASSUME BaseType, NEW o \in Ops, RouteFrame,
           UNCHANGED <<laneVars, workerVars, sectionVars>>,
           at' \in [Ops -> Lanes \cup {NoLane}],
           Fail(o) \/ \E x \in PcType : Goto(o, x)
    PROVE  BaseType'
<1>1. pc' \in [Ops -> PcType] /\ outcome' \in [Ops -> Seq(Results)]
  <2>1. CASE Fail(o)
    BY <2>1, FailTyped
  <2>2. CASE \E x \in PcType : Goto(o, x)
    BY <2>2 DEF Goto, BaseType, SubmitType, HistoryType
  <2> QED BY <2>1, <2>2
<1>2. inFlight' \in Int /\ deferred' \in Seq(Ops)
  BY DEF RouteFrame, stopVars, sectionVars, BaseType, SectionType
<1> QED BY <1>1, <1>2, FrameTyped DEF RouteFrame, stopVars, sectionVars

\* A step of the route that finds no lane.
LEMMA RouteLanes ==
    ASSUME LaneInv, NEW o \in Ops, NEW x \in PcType \ (GatePc \cup NearPc),
           pc[o] \notin {"send", "blocked"}, Fail(o) \/ Goto(o, x),
           UNCHANGED <<at, laneVars, workerVars, sectionVars, queues>>, RouteFrame
    PROVE  LaneInv'
<1>1. at \in [Ops -> Lanes \cup {NoLane}]
  BY DEF LaneInv, BaseType, SubmitType
<1>2. BaseType'
  BY <1>1, RouteTyped DEF LaneInv
<1>3. UNCHANGED dynamicVars
  BY DEF RouteFrame, dynamicVars, scanVars
<1>4. UNCHANGED <<ch, closed, retired, backlog, pending, wpc, cur, todo>>
  BY DEF laneVars, workerVars, sectionVars
<1>5. CASE Fail(o)
  BY <1>2, <1>3, <1>4, <1>5, FailMoves
<1>6. CASE Goto(o, x)
  BY <1>2, <1>3, <1>4, <1>6, AwayMoves DEF Goto
<1> QED BY <1>5, <1>6

\* A call that has found the lane of its key.
LEMMA FoundLanes ==
    ASSUME LaneInv, NEW o \in Ops, NEW x \in {"gate", "hbegin"}, NEW l \in Lanes,
           l = queues[OpKey[o]], pc[o] \notin {"send", "blocked"}, Goto(o, x),
           at' = [at EXCEPT ![o] = l],
           UNCHANGED <<laneVars, workerVars, sectionVars, queues>>, RouteFrame
    PROVE  LaneInv'
<1> USE DEF LaneInv
<1>1. UNCHANGED dynamicVars
  BY DEF RouteFrame, dynamicVars, scanVars
<1>2. at' \in [Ops -> Lanes \cup {NoLane}] /\ x \in PcType
  BY DEF BaseType, SubmitType, PcType
<1>3. BaseType'
  BY <1>2, RouteTyped
<1>4. wpc[l] # "unborn"
  BY KeyOf, NotALane DEF Mapping
<1>5. /\ pc'[o] = x /\ at'[o] = l
      /\ \A p \in Ops \ {o} : pc'[p] = pc[p] /\ at'[p] = at[p]
  BY DEF Goto, BaseType, SubmitType
<1>6. UNCHANGED <<closed, retired, wpc, queues>>
  BY DEF laneVars, workerVars
<1>7. Arrivals'
  <2> SUFFICES ASSUME NEW p \in Ops
               PROVE  /\ pc'[p] \in GatePc => /\ at'[p] \in Lanes /\ ~closed[at'[p]]
                                              /\ queues[OpKey[p]] = at'[p]
                      /\ pc'[p] \in NearPc =>
                            /\ at'[p] \in Lanes /\ wpc[at'[p]] # "unborn"
                            /\ retired[at'[p]] \/ queues[OpKey[p]] = at'[p]
    BY <1>6 DEF Arrivals
  <2>1. CASE p = o
    BY <1>4, <1>5, <2>1 DEF GatePc
  <2>2. CASE p # o
    BY <1>5, <2>2 DEF Arrivals
  <2> QED BY <2>1, <2>2
<1>8. \A m : Unsent(m)' = Unsent(m)
  BY <1>5 DEF Unsent
<1> QED BY <1>1, <1>3, <1>7, <1>8, LanesKept

\* submitToRegisteredQueue: behind the gate of an open lane, the lane is the
\* lane of the key.
LEMMA GateLanes ==
    ASSUME LaneInv, NEW o \in Ops, EnterGate(o)
    PROVE  LaneInv'
<1> USE DEF LaneInv
<1>1. /\ pc[o] = "gate" /\ RouteFrame
      /\ UNCHANGED <<at, laneVars, workerVars, sectionVars, queues>>
  BY DEF EnterGate
<1>2. CASE closed[at[o]]
  <2>1. Goto(o, "route")
    BY <1>2 DEF EnterGate
  <2>2. "route" \in PcType \ (GatePc \cup NearPc)
    BY DEF PcType, GatePc, NearPc
  <2> QED BY <1>1, <2>1, <2>2, RouteLanes
<1>3. CASE ~closed[at[o]]
  <2>1. Goto(o, "wait")
    BY <1>3 DEF EnterGate
  <2>2. at[o] \in Lanes /\ queues[OpKey[o]] = at[o]
    BY <1>1, <1>3 DEF Arrivals, NearPc, Retirement
  <2>3. UNCHANGED dynamicVars
    BY <1>1 DEF RouteFrame, dynamicVars, scanVars
  <2>4. at' \in [Ops -> Lanes \cup {NoLane}] /\ "wait" \in PcType
    BY <1>1 DEF BaseType, SubmitType, PcType
  <2>5. BaseType'
    BY <1>1, <2>1, <2>4, RouteTyped
  <2>6. pc'[o] = "wait" /\ \A p \in Ops \ {o} : pc'[p] = pc[p]
    BY <2>1 DEF Goto, BaseType, SubmitType
  <2>7. \A m : Unsent(m)' = Unsent(m)
    BY <1>1, <2>6 DEF Unsent
  <2>8. Arrivals'
    <3>1. UNCHANGED <<closed, retired, wpc, queues, at>>
      BY <1>1 DEF laneVars, workerVars
    <3> QED BY <1>3, <2>2, <2>6, <3>1 DEF Arrivals, NearPc
  <2> QED BY <1>1, <2>3, <2>5, <2>7, <2>8, LanesKept
<1> QED BY <1>2, <1>3

\* The head of the loop of a submit, the wait for a barrier and the head of a
\* handoff.
LEMMA HeadLanes ==
    ASSUME LaneInv, NEW o \in Ops,
           \/ SubmitRoute(o) \/ ScheduleCleanup(o)
           \/ AwaitBarrier(o, "waitBarrier", "route")
           \/ AwaitBarrier(o, "hwaitBarrier", "handoff")
    PROVE  LaneInv'
<1>1. PICK x \in {"lookup", "late", "hlookup", "route", "handoff"} : Fail(o) \/ Goto(o, x)
  BY DEF SubmitRoute, ScheduleCleanup, AwaitBarrier
<1>2. x \in PcType \ (GatePc \cup NearPc)
  BY DEF PcType, GatePc, NearPc
<1>3. /\ pc[o] \notin {"send", "blocked"} /\ RouteFrame
      /\ UNCHANGED <<at, laneVars, workerVars, sectionVars, queues>>
  BY DEF SubmitRoute, ScheduleCleanup, AwaitBarrier
<1> QED BY <1>1, <1>2, <1>3, RouteLanes

\* The read of the map.
LEMMA LookupLanes ==
    ASSUME LaneInv, NEW o \in Ops, SubmitLookup(o) \/ CleanupLookup(o)
    PROVE  LaneInv'
<1>1. PICK x \in {"gate", "hbegin"}, y \in {"create", "waitBarrier", "hcreate",
                                            "hwaitBarrier", "late"} :
         \/ Live(OpKey[o]) /\ at' = [at EXCEPT ![o] = queues[OpKey[o]]] /\ Goto(o, x)
         \/ at' = at /\ (Fail(o) \/ Goto(o, y))
  BY DEF SubmitLookup, CleanupLookup, Lookup, Goto
<1>2. /\ pc[o] \notin {"send", "blocked"} /\ RouteFrame
      /\ UNCHANGED <<laneVars, workerVars, sectionVars, queues>>
  BY DEF SubmitLookup, CleanupLookup, Lookup
<1>3. CASE Live(OpKey[o]) /\ at' = [at EXCEPT ![o] = queues[OpKey[o]]] /\ Goto(o, x)
  <2>1. PICK l \in Lanes : l = queues[OpKey[o]]
    BY <1>3, KeyOf DEF LaneInv, MapType, Live
  <2> QED BY <1>2, <1>3, <2>1, FoundLanes
<1>4. CASE at' = at /\ (Fail(o) \/ Goto(o, y))
  <2>1. y \in PcType \ (GatePc \cup NearPc)
    BY DEF PcType, GatePc, NearPc
  <2> QED BY <1>2, <1>4, <2>1, RouteLanes
<1> QED BY <1>1, <1>3, <1>4

\* The lanes and the keys are finitely many.
LEMMA SupplyFinite ==
    /\ IsFiniteSet(Unborn) /\ Cardinality(Unborn) \in Nat
    /\ IsFiniteSet(Mapped) /\ Cardinality(Mapped) \in Nat
    /\ IsFiniteSet(Keys \ Mapped) /\ Cardinality(Keys \ Mapped) \in Nat
<1>1. IsFiniteSet(Keys) /\ IsFiniteSet(Lanes)
  BY DynamicAssumption DEF DynamicAssumption
<1>2. Unborn \subseteq Lanes /\ Mapped \subseteq Keys /\ Keys \ Mapped \subseteq Keys
  BY DEF Unborn, Mapped
<1>3. IsFiniteSet(Unborn) /\ IsFiniteSet(Mapped) /\ IsFiniteSet(Keys \ Mapped)
  BY <1>1, <1>2, FS_Subset
<1> QED BY <1>3, FS_CardinalityType

\* A key that needs a lane has none, and finds a fresh one.
LEMMA FreshLane ==
    ASSUME LaneInv, NEW k \in Keys, ~stopping, ~Live(k)
    PROVE  queues[k] = NoLane /\ (CHOOSE n \in Unborn : TRUE) \in Unborn
<1> USE DEF LaneInv
<1>1. queues[k] = NoLane
  BY DEF Live, Mapping
<1>2. k \in Keys \ Mapped
  BY <1>1 DEF Mapped
<1>3. Cardinality(Keys \ Mapped) # 0
  BY <1>2, SupplyFinite, FS_EmptySet
<1>4. Cardinality(Unborn) # 0
  BY <1>3, SupplyFinite DEF Supply
<1>5. Unborn # {}
  BY <1>4, FS_EmptySet
<1> QED BY <1>1, <1>5

\* The types after the creation of a lane.
LEMMA NewLaneTyped ==
    ASSUME BaseType, NEW o \in Ops, NEW k \in Keys, NEW l \in Lanes,
           NEW x \in {"gate", "hbegin"}, NewLane(l, k),
           at' = [at EXCEPT ![o] = l], Goto(o, x), RouteFrame
    PROVE  BaseType'
<1>1. LaneType'
  <2>1. CASE active # NoSection
    <3>1. active \in Sections
      BY <2>1 DEF BaseType, SectionType
    <3>2. Entry("barrier", active, l, FALSE) \in EntryType
      BY <3>1, EntryTyped
    <3> QED BY <2>1, <3>2, EnqueueTyped DEF NewLane
  <2>2. CASE active = NoSection
    BY <2>2 DEF NewLane, BaseType, LaneType, laneVars
  <2> QED BY <2>1, <2>2
<1>2. SubmitType'
  BY DEF Goto, RouteFrame, BaseType, SubmitType, PcType
<1>3. WorkerType'
  BY DEF NewLane, BaseType, WorkerType, WpcType
<1>4. SectionType'
  <2>1. expected' \in [Sections -> Nat]
    <3>1. CASE active # NoSection
      <4>1. expected' = [expected EXCEPT ![active] = @ + 1] /\ active \in Sections
        BY <3>1 DEF NewLane, BaseType, SectionType
      <4> QED BY <4>1 DEF BaseType, SectionType
    <3>2. CASE active = NoSection
      BY <3>2 DEF NewLane, BaseType, SectionType
    <3> QED BY <3>1, <3>2
  <2> QED BY <2>1 DEF NewLane, BaseType, SectionType
<1>5. StopType' /\ inFlight' \in Int
  BY DEF RouteFrame, stopVars, cleanupVars, BaseType, StopType
<1>6. HistoryType'
  BY DEF Goto, RouteFrame, historyVars, BaseType, HistoryType
<1> QED BY <1>1, <1>2, <1>3, <1>4, <1>5, <1>6 DEF BaseType

\* A lane is created for a key that has none.
LEMMA NewLaneLanes ==
    ASSUME LaneInv, NEW o \in Ops, NEW k \in Keys, k = OpKey[o], NEW l \in Unborn,
           NEW x \in {"gate", "hbegin"}, queues[k] = NoLane, ~AtLimit,
           pc[o] \notin {"send", "blocked"}, NewLane(l, k),
           at' = [at EXCEPT ![o] = l], Goto(o, x), RouteFrame
    PROVE  LaneInv'
<1> USE DEF LaneInv
<1>1. /\ l \in Lanes /\ l # NoLane /\ wpc[l] = "unborn"
      /\ ~closed[l] /\ ~retired[l] /\ ch[l] = <<>> /\ backlog[l] = <<>>
      /\ cur[l].kind = "none"
  BY NotALane DEF Unborn, Untouched, Hands, HandFits, BusyPc
<1>2. BaseType'
  BY <1>1, NewLaneTyped
<1>3. /\ queues' = [queues EXCEPT ![k] = l] /\ wpc' = [wpc EXCEPT ![l] = "poll"]
      /\ UNCHANGED <<cur, todo, stopping, barrier, scan, candidates, scanStop, toClose>>
  BY DEF NewLane, RouteFrame, scanVars
<1>4. /\ UNCHANGED <<ch, closed, retired>>
      /\ \A m \in Lanes \ {l} : backlog'[m] = backlog[m]
      /\ \A i \in DOMAIN backlog'[l] : Fits(backlog[l][i], l)'
  <2>1. CASE active # NoSection
    <3>1. PICK e : e = Entry("barrier", active, l, FALSE)
      OBVIOUS
    <3>2. e.kind = "barrier" /\ e.op \in Sections /\ e \in EntryType
      BY <1>1, <2>1, <3>1, EntryTyped DEF Entry, BaseType, SectionType
    <3>3. backlog' = [backlog EXCEPT ![l] = Append(@, e)] /\ UNCHANGED <<ch, closed, retired>>
      BY <2>1, <3>1 DEF NewLane, EnqueueMandatory
    <3>4. backlog'[l] = Append(backlog[l], e) /\ backlog[l] \in Seq(EntryType)
      BY <1>1, <3>3 DEF BaseType, LaneType
    <3>5. \A i \in DOMAIN backlog'[l] : backlog'[l][i] = e
      BY <1>1, <3>2, <3>4, SeqElements
    <3>6. \A m \in Lanes \ {l} : backlog'[m] = backlog[m]
      BY <1>1, <3>3 DEF BaseType, LaneType
    <3> QED BY <3>2, <3>3, <3>5, <3>6 DEF Fits
  <2>2. CASE active = NoSection
    BY <1>1, <2>2 DEF NewLane, laneVars
  <2> QED BY <2>1, <2>2
<1>5. /\ queues'[k] = l /\ \A j \in Keys \ {k} : queues'[j] = queues[j]
      /\ wpc'[l] = "poll" /\ \A m \in Lanes \ {l} : wpc'[m] = wpc[m]
      /\ \A j \in Keys : queues[j] # l
      /\ \A j \in Keys : queues[j] # NoLane => j # k
  BY <1>1, <1>3 DEF MapType, BaseType, WorkerType, Mapping
<1>6. MapType'
  BY <1>1, <1>3 DEF MapType
<1>7. Mapping'
  <2> SUFFICES ASSUME NEW j \in Keys, queues'[j] # NoLane
               PROVE  /\ wpc'[queues'[j]] # "unborn"
                      /\ ~retired[queues'[j]]
                      /\ closed[queues'[j]] => stopping
                      /\ \A i \in Keys : queues'[i] = queues'[j] => i = j
    BY <1>3, <1>4 DEF Mapping
  <2>1. CASE j = k
    BY <1>1, <1>5, <2>1
  <2>2. CASE j # k
    <3>1. queues'[j] = queues[j] /\ queues[j] \in Lanes \ {l}
      BY <1>5, <2>2 DEF MapType
    <3> QED BY <1>5, <2>2, <3>1 DEF Mapping
  <2> QED BY <2>1, <2>2
<1>8. Untouched'
  <2>1. todo \subseteq Lanes /\ \A y \in Stoppers : toClose[y] \subseteq Lanes
    BY DEF MapType, BaseType, SectionType
  <2> QED BY <1>3, <1>4, <1>5, <2>1 DEF Untouched
<1>9. Supply'
  <2>1. Unborn' = Unborn \ {l} /\ Mapped' = Mapped \cup {k} /\ k \notin Mapped
    BY <1>1, <1>5 DEF Unborn, Mapped
  <2>2. Keys \ Mapped' = (Keys \ Mapped) \ {k} /\ k \in Keys \ Mapped
    BY <2>1
  <2>3. Cardinality(Unborn') = Cardinality(Unborn) - 1
    BY <2>1, SupplyFinite, FS_RemoveElement
  <2>4. Cardinality(Keys \ Mapped') = Cardinality(Keys \ Mapped) - 1
    BY <2>2, SupplyFinite, FS_RemoveElement
  <2>5. Cardinality(Mapped') = Cardinality(Mapped) + 1
    BY <2>1, SupplyFinite, FS_AddElement
  <2>6. Cardinality(Unborn') >= Cardinality(Keys \ Mapped')
    BY <2>3, <2>4, SupplyFinite DEF Supply
  <2>7. MaxQueues > 0 => Cardinality(Mapped') <= MaxQueues
    BY <2>5, SupplyFinite, DynamicAssumption DEF AtLimit, DynamicAssumption
  <2> QED BY <2>6, <2>7 DEF Supply, QueueLimit
<1>10. /\ pc'[o] = x /\ at'[o] = l
       /\ \A p \in Ops \ {o} : pc'[p] = pc[p] /\ at'[p] = at[p]
  BY DEF Goto, BaseType, SubmitType
<1>11. \A p \in Ops : \A m \in Lanes : queues[OpKey[p]] = m => queues'[OpKey[p]] = m
  BY <1>5, KeyOf, NotALane
<1>12. Arrivals'
  <2> SUFFICES ASSUME NEW p \in Ops
               PROVE  /\ pc'[p] \in GatePc => /\ at'[p] \in Lanes /\ ~closed[at'[p]]
                                              /\ queues'[OpKey[p]] = at'[p]
                      /\ pc'[p] \in NearPc =>
                            /\ at'[p] \in Lanes /\ wpc'[at'[p]] # "unborn"
                            /\ retired[at'[p]] \/ queues'[OpKey[p]] = at'[p]
    BY <1>4 DEF Arrivals
  <2>1. CASE p = o
    BY <1>1, <1>5, <1>10, <2>1 DEF GatePc
  <2>2. CASE p # o
    BY <1>5, <1>10, <1>11, <2>2 DEF Arrivals
  <2> QED BY <2>1, <2>2
<1>13. Home'
  <2>1. ASSUME NEW m \in Lanes PROVE AtHome(m)'
    <3>1. \A i \in DOMAIN ch'[m] : queues'[OpKey[ch'[m][i]]] = m
      <4>1. \A i \in DOMAIN ch[m] : ch[m][i] \in Ops
        BY DEF BaseType, LaneType
      <4> QED BY <1>4, <1>11, <4>1 DEF Home, AtHome
    <3>2. \A i \in DOMAIN backlog'[m] : Fits(backlog[m][i], m)'
      <4>1. CASE m = l
        BY <1>4, <4>1
      <4>2. CASE m # l
        BY <1>4, <1>11, <4>2 DEF Home, AtHome, Fits
      <4> QED BY <4>1, <4>2
    <3> QED BY <3>1, <3>2 DEF AtHome
  <2> QED BY <2>1 DEF Home
<1>14. Hands'
  <2>1. ASSUME NEW m \in Lanes PROVE HandFits(m)'
    <3>1. CASE m = l
      BY <1>1, <1>3, <1>5, <3>1 DEF HandFits, BusyPc
    <3>2. CASE m # l
      BY <1>3, <1>5, <1>11, <3>2 DEF Hands, HandFits
    <3> QED BY <3>1, <3>2
  <2> QED BY <2>1 DEF Hands
<1>15. Load'
  <2>1. \A m : Unsent(m)' = Unsent(m)
    BY <1>10 DEF Unsent
  <2>2. Busy(l)' = Busy(l) /\ Len(ch'[l]) = Len(ch[l])
    BY <1>1, <1>4, <1>5 DEF Busy, BusyPc
  <2>3. CASE active # NoSection
    <3>1. /\ PendingBump(l, 1)
          /\ backlog' = [backlog EXCEPT ![l] = Append(@, Entry("barrier", active, l, FALSE))]
      BY <2>3 DEF NewLane, EnqueueMandatory
    <3>2. backlog'[l] = Append(backlog[l], Entry("barrier", active, l, FALSE))
          /\ backlog[l] \in Seq(EntryType)
      BY <1>1, <3>1 DEF BaseType, LaneType
    <3>3. Len(backlog'[l]) = Len(backlog[l]) + 1
      BY <1>1, <2>3, <3>2, EntryTyped DEF BaseType, SectionType
    <3>4. Shift(l, 0, 0, 1, 0) /\ 1 = 0 + 0 + 1 + 0
      BY <1>1, <1>4, <1>5, <2>1, <2>2, <3>3, Weights DEF Shift
    <3>5. PendingBump(l, 1) /\ l \in Lanes
      BY <1>1, <3>1
    <3>6. Load /\ BaseType /\ 0 \in Int /\ 1 \in Int
      OBVIOUS
    <3> HIDE DEF LaneInv
    <3> QED BY <3>4, <3>5, <3>6, LoadMoves
  <2>4. CASE active = NoSection
    <3>1. UNCHANGED <<backlog, pending>>
      BY <2>4 DEF NewLane, laneVars
    <3>2. \A m \in Lanes : Busy(m)' = Busy(m)
      BY <1>5, <2>2 DEF Busy
    <3> QED BY <1>4, <2>1, <3>1, <3>2 DEF Load, Weight
  <2> QED BY <2>3, <2>4
<1>16. Retirement'
  BY <1>1, <1>3, <1>4, <1>5 DEF Retirement
<1> QED BY <1>2, <1>6, <1>7, <1>8, <1>9, <1>12, <1>13, <1>14, <1>15, <1>16

\* The decisions under s.mu.Lock.
LEMMA CreateLanes ==
    ASSUME LaneInv, NEW o \in Ops, SubmitCreate(o) \/ CleanupCreate(o)
    PROVE  LaneInv'
<1>1. PICK k \in Keys : k = OpKey[o]
  BY KeyOf
<1>2. PICK n : n = CHOOSE u \in Unborn : TRUE
  OBVIOUS
<1>3. PICK x \in {"gate", "hbegin"}, y \in {"waitBarrier", "hwaitBarrier", "hlimit", "late"} :
         \/ /\ at' = at /\ (Fail(o) \/ Goto(o, y))
            /\ UNCHANGED <<laneVars, workerVars, sectionVars, queues>>
         \/ /\ Live(k) /\ at' = [at EXCEPT ![o] = queues[k]] /\ Goto(o, x)
            /\ UNCHANGED <<laneVars, workerVars, sectionVars, queues>>
         \/ /\ ~stopping /\ ~Live(k) /\ ~AtLimit
            /\ NewLane(n, k) /\ at' = [at EXCEPT ![o] = n] /\ Goto(o, x)
  BY <1>1, <1>2 DEF SubmitCreate, CleanupCreate, Create, Goto
<1>4. pc[o] \notin {"send", "blocked"} /\ RouteFrame
  BY DEF SubmitCreate, CleanupCreate, Create
<1>5. CASE /\ at' = at /\ (Fail(o) \/ Goto(o, y))
           /\ UNCHANGED <<laneVars, workerVars, sectionVars, queues>>
  <2>1. y \in PcType \ (GatePc \cup NearPc)
    BY DEF PcType, GatePc, NearPc
  <2> QED BY <1>4, <1>5, <2>1, RouteLanes
<1>6. CASE /\ Live(k) /\ at' = [at EXCEPT ![o] = queues[k]] /\ Goto(o, x)
           /\ UNCHANGED <<laneVars, workerVars, sectionVars, queues>>
  <2>1. PICK l \in Lanes : l = queues[k]
    BY <1>6 DEF LaneInv, MapType, Live
  <2> QED BY <1>1, <1>4, <1>6, <2>1, FoundLanes
<1>7. CASE /\ ~stopping /\ ~Live(k) /\ ~AtLimit
           /\ NewLane(n, k) /\ at' = [at EXCEPT ![o] = n] /\ Goto(o, x)
  <2>1. queues[k] = NoLane /\ n \in Unborn
    BY <1>2, <1>7, FreshLane
  <2> QED BY <1>1, <1>4, <1>7, <2>1, NewLaneLanes
<1> QED BY <1>3, <1>5, <1>6, <1>7

-----------------------------------------------------------------------------
(* The worker of a lane.                                                    *)

\* On lane l the channel changes by c, the backlog by b, what is in hand by w.
Moved(l, c, b, w) ==
    /\ Len(ch'[l]) = Len(ch[l]) + c
    /\ Len(backlog'[l]) = Len(backlog[l]) + b
    /\ Busy(l)' = Busy(l) + w

\* A step of the worker of lane l that takes from the channel, the backlog or
\* its hand what q.pending counts.
LEMMA WorkerLanes ==
    ASSUME LaneInv, BaseType', NEW l \in Lanes, AtHome(l)', HandFits(l)', WorkerFrame,
           wpc[l] # "unborn", wpc'[l] # "unborn", todo' = todo, UNCHANGED dynamicVars,
           retired[l] => ch'[l] = <<>> /\ backlog'[l] = <<>> /\ wpc'[l] \notin BusyPc,
           \A m \in Lanes \ {l} :
               /\ ch'[m] = ch[m] /\ backlog'[m] = backlog[m]
               /\ wpc'[m] = wpc[m] /\ cur'[m] = cur[m],
           NEW c \in Int, NEW b \in Int, NEW w \in Int, Moved(l, c, b, w), NEW d,
           d = c + b + w, PendingBump(l, d)
    PROVE  LaneInv'
<1> USE DEF LaneInv
<1>1. UNCHANGED <<pc, at, closed, retired>>
  BY DEF WorkerFrame, submitVars
<1>2. \A m : Unsent(m)' = Unsent(m)
  BY <1>1 DEF Unsent
<1>3. \A o \in Ops : Onward(pc[o], pc'[o])
  BY <1>1 DEF Onward
<1>4. Load'
  <2>1. Shift(l, 0, c, b, w)
    BY <1>2, Weights DEF Shift, Moved
  <2>2. d = 0 + c + b + w
    OBVIOUS
  <2>3. Load /\ BaseType /\ 0 \in Int
    OBVIOUS
  <2> HIDE DEF LaneInv
  <2> QED BY <2>1, <2>2, <2>3, LoadMoves
<1> QED BY <1>1, <1>3, <1>4, OneLane

\* takeMandatoryCleanup takes the head of the backlog in hand.
LEMMA TakeLanes ==
    ASSUME LaneInv, NEW l \in Lanes, stpc' = stpc, UNCHANGED dynamicVars, TakeMandatory(l)
    PROVE  LaneInv'
<1> USE DEF LaneInv
<1>1. /\ wpc[l] = "poll" /\ backlog[l] # <<>>
      /\ backlog' = [backlog EXCEPT ![l] = Tail(@)]
      /\ cur' = [cur EXCEPT ![l] = Head1(l)]
      /\ WorkerFrame /\ UNCHANGED <<ch, pending, todo>>
  BY DEF TakeMandatory, MandatoryReady
<1>2. PICK x \in BusyPc :
         /\ wpc' = [wpc EXCEPT ![l] = x]
         /\ Head1(l).kind = "barrier" => x \in {"held", "barrier"}
         /\ Head1(l).kind # "barrier" => x \in {"run", "abort"}
  BY DEF TakeMandatory, BusyPc
<1>3. BaseType'
  BY TakeTyped
<1>4. /\ backlog[l] \in Seq(EntryType) /\ backlog'[l] = Tail(backlog[l])
      /\ cur'[l] = Head1(l) /\ wpc'[l] = x
      /\ \A m \in Lanes \ {l} : /\ ch'[m] = ch[m] /\ backlog'[m] = backlog[m]
                                /\ wpc'[m] = wpc[m] /\ cur'[m] = cur[m]
  BY <1>1, <1>2 DEF BaseType, LaneType, WorkerType
<1>5. /\ 1 \in DOMAIN backlog[l]
      /\ Head1(l).kind = backlog[l][1].kind /\ Head1(l).op = backlog[l][1].op
  BY <1>1, HeadKeeps
<1>6. Fits(backlog[l][1], l)
  BY <1>5 DEF Home, AtHome
<1>7. HandFits(l)'
  BY <1>2, <1>4, <1>5, <1>6 DEF HandFits, Fits, BusyPc, dynamicVars
<1>8. AtHome(l)'
  <2>1. \A i \in DOMAIN backlog'[l] :
           i + 1 \in DOMAIN backlog[l] /\ backlog'[l][i] = backlog[l][i + 1]
    <3>1. \A i \in DOMAIN Tail(backlog[l]) :
             i + 1 \in DOMAIN backlog[l] /\ Tail(backlog[l])[i] = backlog[l][i + 1]
      BY <1>1, <1>4, SeqElements
    <3> QED BY <1>4, <3>1
  <2> QED BY <1>1, <2>1 DEF Home, AtHome, Fits, dynamicVars
<1>9. ~retired[l] /\ wpc[l] # "unborn" /\ wpc'[l] # "unborn"
  BY <1>1, <1>2, <1>4 DEF Retirement, BusyPc
<1>10. Busy(l)' = 1 /\ Busy(l) = 0
  BY <1>1, <1>2, <1>4 DEF Busy, BusyPc
<1>11. PendingBump(l, 0)
  BY <1>1 DEF PendingBump, BaseType, LaneType
<1>12. Len(Tail(backlog[l])) = Len(backlog[l]) - 1
  BY <1>1, <1>4
<1>13. Moved(l, 0, -1, 1) /\ 0 = 0 + (-1) + 1
  <2>1. Len(backlog'[l]) = Len(backlog[l]) + (-1)
    BY <1>4, <1>12, Weights
  <2>2. Len(ch'[l]) = Len(ch[l]) + 0 /\ Busy(l)' = Busy(l) + 1
    BY <1>1, <1>10, Weights
  <2> QED BY <2>1, <2>2 DEF Moved
<1> QED BY <1>1, <1>3, <1>4, <1>7, <1>8, <1>9, <1>11, <1>13, WorkerLanes

\* takeMandatoryCleanup leaves the backlog, its head refreshed.
LEMMA NoTakeLanes ==
    ASSUME LaneInv, NEW l \in Lanes, stpc' = stpc, UNCHANGED dynamicVars, NoMandatory(l)
    PROVE  LaneInv'
<1> USE DEF LaneInv
<1>1. /\ wpc[l] = "poll" /\ WorkerFrame /\ UNCHANGED <<ch, pending, cur, todo>>
      /\ backlog' = backlog \/ (backlog[l] # <<>>
                                  /\ backlog' = [backlog EXCEPT ![l][1] = Head1(l)])
  BY DEF NoMandatory, sectionVars
<1>2. PICK x \in {"finish", "select"} : wpc' = [wpc EXCEPT ![l] = x]
  BY DEF NoMandatory
<1>3. BaseType'
  BY NoMandatoryTyped
<1>4. /\ wpc'[l] = x
      /\ \A m \in Lanes \ {l} : /\ ch'[m] = ch[m] /\ backlog'[m] = backlog[m]
                                /\ wpc'[m] = wpc[m] /\ cur'[m] = cur[m]
  BY <1>1, <1>2 DEF BaseType, LaneType, WorkerType
<1>5. /\ DOMAIN backlog'[l] = DOMAIN backlog[l]
      /\ \A i \in DOMAIN backlog[l] : /\ backlog'[l][i].kind = backlog[l][i].kind
                                      /\ backlog'[l][i].op = backlog[l][i].op
  <2>1. CASE backlog' = backlog
    BY <2>1
  <2>2. CASE backlog[l] # <<>> /\ backlog' = [backlog EXCEPT ![l][1] = Head1(l)]
    <3>1. backlog'[l] = [backlog[l] EXCEPT ![1] = Head1(l)] /\ backlog[l] \in Seq(EntryType)
      BY <2>2 DEF BaseType, LaneType
    <3>2. Head1(l).kind = backlog[l][1].kind /\ Head1(l).op = backlog[l][1].op
      BY <2>2, HeadKeeps
    <3> QED BY <3>1, <3>2
  <2> QED BY <1>1, <2>1, <2>2
<1>6. backlog[l] \in Seq(EntryType) /\ backlog'[l] \in Seq(EntryType)
  BY <1>3 DEF BaseType, LaneType
<1>7. Len(backlog'[l]) = Len(backlog[l]) /\ (backlog[l] = <<>> => backlog'[l] = <<>>)
  BY <1>5, <1>6
<1>8. AtHome(l)'
  BY <1>1, <1>5 DEF Home, AtHome, Fits, dynamicVars
<1>9. HandFits(l)'
  BY <1>1, <1>4 DEF Hands, HandFits, BusyPc
<1>10. /\ wpc[l] # "unborn" /\ wpc'[l] # "unborn"
       /\ retired[l] => ch'[l] = <<>> /\ backlog'[l] = <<>> /\ wpc'[l] \notin BusyPc
  BY <1>1, <1>4, <1>7 DEF Retirement, BusyPc
<1>11. Busy(l)' = 0 /\ Busy(l) = 0
  BY <1>1, <1>4 DEF Busy, BusyPc
<1>12. PendingBump(l, 0)
  BY <1>1 DEF PendingBump, BaseType, LaneType
<1>13. Moved(l, 0, 0, 0) /\ 0 = 0 + 0 + 0
  BY <1>1, <1>7, <1>11, Weights DEF Moved
<1>14. WorkerFrame /\ todo' = todo
  BY <1>1
<1> QED BY <1>3, <1>4, <1>8, <1>9, <1>10, <1>12, <1>13, <1>14, WorkerLanes

\* The worker receives a task from its channel.
LEMMA ReceiveLanes ==
    ASSUME LaneInv, NEW l \in Lanes, stpc' = stpc, UNCHANGED dynamicVars, Receive(l)
    PROVE  LaneInv'
<1> USE DEF LaneInv
<1>1. /\ wpc[l] = "select" /\ ch[l] # <<>>
      /\ ch' = [ch EXCEPT ![l] = Tail(@)]
      /\ cur' = [cur EXCEPT ![l] = TaskEntry(Head(ch[l]))]
      /\ WorkerFrame /\ UNCHANGED <<backlog, pending, todo>>
  BY DEF Receive, sectionVars
<1>2. PICK x \in {"run", "abort"} : wpc' = [wpc EXCEPT ![l] = x]
  BY DEF Receive
<1>3. BaseType'
  BY ReceiveTyped
<1>4. /\ ch[l] \in Seq(Ops) /\ ch'[l] = Tail(ch[l])
      /\ cur'[l] = TaskEntry(Head(ch[l])) /\ wpc'[l] = x
      /\ \A m \in Lanes \ {l} : /\ ch'[m] = ch[m] /\ backlog'[m] = backlog[m]
                                /\ wpc'[m] = wpc[m] /\ cur'[m] = cur[m]
  BY <1>1, <1>2 DEF BaseType, LaneType, WorkerType
<1>5. 1 \in DOMAIN ch[l] /\ Head(ch[l]) = ch[l][1] /\ ch[l][1] \in Ops
  BY <1>1, <1>4, SeqElements
<1>6. queues[OpKey[Head(ch[l])]] = l
  BY <1>5 DEF Home, AtHome
<1>7. HandFits(l)'
  BY <1>2, <1>4, <1>5, <1>6 DEF HandFits, TaskEntry, BusyPc, dynamicVars
<1>8. AtHome(l)'
  <2>1. \A i \in DOMAIN ch'[l] : i + 1 \in DOMAIN ch[l] /\ ch'[l][i] = ch[l][i + 1]
    <3>1. \A i \in DOMAIN Tail(ch[l]) :
             i + 1 \in DOMAIN ch[l] /\ Tail(ch[l])[i] = ch[l][i + 1]
      BY <1>1, <1>4, SeqElements
    <3> QED BY <1>4, <3>1
  <2> QED BY <1>1, <2>1 DEF Home, AtHome, Fits, dynamicVars
<1>9. ~retired[l] /\ wpc[l] # "unborn" /\ wpc'[l] # "unborn"
  BY <1>1, <1>2, <1>4 DEF Retirement
<1>10. Busy(l)' = 1 /\ Busy(l) = 0
  BY <1>1, <1>2, <1>4 DEF Busy, BusyPc
<1>11. PendingBump(l, 0)
  BY <1>1 DEF PendingBump, BaseType, LaneType
<1>12. Len(Tail(ch[l])) = Len(ch[l]) - 1
  BY <1>1, <1>4
<1>13. Moved(l, -1, 0, 1) /\ 0 = -1 + 0 + 1
  <2>1. Len(ch'[l]) = Len(ch[l]) + (-1)
    BY <1>4, <1>12, Weights
  <2>2. Len(backlog'[l]) = Len(backlog[l]) + 0 /\ Busy(l)' = Busy(l) + 1
    BY <1>1, <1>10, Weights
  <2> QED BY <2>1, <2>2 DEF Moved
<1> QED BY <1>1, <1>3, <1>4, <1>7, <1>8, <1>9, <1>11, <1>13, WorkerLanes

\* What the worker has in hand ends.
LEMMA LeaveHandLanes ==
    ASSUME LaneInv, NEW l \in Lanes, stpc' = stpc, UNCHANGED dynamicVars,
           Complete(l) \/ LeaveBarrier(l)
    PROVE  LaneInv'
<1> USE DEF LaneInv
<1>1. /\ wpc[l] \in BusyPc /\ wpc' = [wpc EXCEPT ![l] = "poll"]
      /\ cur' = [cur EXCEPT ![l] = NoEntry] /\ PendingBump(l, -1)
      /\ WorkerFrame /\ UNCHANGED <<ch, backlog, todo>>
  BY DEF Complete, LeaveBarrier, sectionVars, BusyPc
<1>2. BaseType'
  BY CompleteTyped, LeaveTyped
<1>3. /\ wpc'[l] = "poll" /\ cur'[l].kind = "none"
      /\ \A m \in Lanes \ {l} : /\ ch'[m] = ch[m] /\ backlog'[m] = backlog[m]
                                /\ wpc'[m] = wpc[m] /\ cur'[m] = cur[m]
  BY <1>1 DEF BaseType, WorkerType, NoEntry
<1>4. HandFits(l)' /\ AtHome(l)'
  BY <1>1, <1>3 DEF HandFits, BusyPc, Home, AtHome, Fits, dynamicVars
<1>5. ~retired[l] /\ wpc[l] # "unborn" /\ wpc'[l] # "unborn"
  BY <1>1, <1>3 DEF Retirement, BusyPc
<1>6. Busy(l)' = 0 /\ Busy(l) = 1
  BY <1>1, <1>3 DEF Busy, BusyPc
<1>7. Moved(l, 0, 0, -1) /\ -1 = 0 + 0 + (-1)
  BY <1>1, <1>6, Weights DEF Moved
<1> QED BY <1>1, <1>2, <1>3, <1>4, <1>5, <1>7, WorkerLanes

\* The steps of a worker that take nothing and let nothing go.
LEMMA IdleLanes ==
    ASSUME LaneInv, NEW l \in Lanes, wpc[l] # "unborn", stpc' = stpc,
           UNCHANGED dynamicVars,
           TakeWake(l) \/ SeeFence(l) \/ SeeClosed(l) \/ FinishWorker(l) \/ ParkBarrier(l)
    PROVE  LaneInv'
<1> USE DEF LaneInv
<1>1. UNCHANGED <<ch, backlog, pending, cur, todo>> /\ WorkerFrame
  BY DEF TakeWake, SeeFence, SeeClosed, FinishWorker, ParkBarrier, IdleFrame, sectionVars
<1>2. PICK x \in {"poll", "exited", "park", "held"} :
         /\ wpc' = [wpc EXCEPT ![l] = x] /\ (x = "held" <=> wpc[l] = "barrier")
         /\ wpc[l] \in {"select", "park", "finish", "barrier"}
  BY DEF TakeWake, SeeFence, SeeClosed, FinishWorker, ParkBarrier
<1>3. BaseType'
  BY IdleTyped, ParkTyped
<1>4. /\ wpc'[l] = x
      /\ \A m \in Lanes \ {l} : /\ ch'[m] = ch[m] /\ backlog'[m] = backlog[m]
                                /\ wpc'[m] = wpc[m] /\ cur'[m] = cur[m]
  BY <1>1, <1>2 DEF BaseType, WorkerType
<1>5. HandFits(l)' /\ AtHome(l)'
  BY <1>1, <1>2, <1>4 DEF Hands, HandFits, BusyPc, Home, AtHome, Fits, dynamicVars
<1>6. /\ wpc'[l] # "unborn"
      /\ retired[l] => ch'[l] = <<>> /\ backlog'[l] = <<>> /\ wpc'[l] \notin BusyPc
  BY <1>1, <1>2, <1>4 DEF Retirement, BusyPc
<1>7. Busy(l)' = Busy(l) /\ Busy(l) \in Nat
  BY <1>2, <1>4 DEF Busy, BusyPc
<1>8. Moved(l, 0, 0, 0) /\ 0 = 0 + 0 + 0
  BY <1>1, <1>7, Weights DEF Moved
<1>9. PendingBump(l, 0)
  BY <1>1 DEF PendingBump, BaseType, LaneType
<1> QED BY <1>1, <1>3, <1>4, <1>5, <1>6, <1>8, <1>9, WorkerLanes

\* drainAndAbort finds the channel of a retired lane empty.
LEMMA QuitFindsNothing ==
    ASSUME LaneInv, NEW l \in Lanes, SeeQuit(l)
    PROVE  /\ wpc[l] = "select" /\ wpc' = [wpc EXCEPT ![l] = "poll"]
           /\ ended' = [ended EXCEPT ![l] = TRUE] /\ retired[l]
           /\ UNCHANGED <<submitVars, laneVars, cur, wfence, stopVars, crashed,
                          cleanupVars, sectionVars, outcome, historyVars>>
<1>1. ch[l] = <<>> /\ retired[l]
  BY DEF SeeQuit, LaneInv, Retirement
<1>2. Len(ch[l]) = 0 /\ DOMAIN ch[l] = {}
  BY <1>1
<1>3. ch' = ch
  BY <1>1 DEF SeeQuit, LaneInv, BaseType, LaneType
<1>4. outcome' = outcome
  BY <1>2 DEF SeeQuit, LaneInv, BaseType, HistoryType
<1>5. settled' = settled
  BY <1>2 DEF SeeQuit, LaneInv, BaseType, LaneType
<1>6. handled' = handled
  BY <1>2 DEF SeeQuit, LaneInv, BaseType, HistoryType
<1>7. pending' = pending
  BY <1>2 DEF SeeQuit, PendingBump, LaneInv, BaseType, LaneType
<1> QED BY <1>1, <1>3, <1>4, <1>5, <1>6, <1>7
        DEF SeeQuit, WorkerFrame, laneVars, historyVars

\* The worker of a retired lane.
LEMMA QuitLanes ==
    ASSUME LaneInv, NEW l \in Lanes, stpc' = stpc, UNCHANGED dynamicVars, SeeQuit(l)
    PROVE  LaneInv'
<1> USE DEF LaneInv
<1>1. /\ wpc[l] = "select" /\ wpc' = [wpc EXCEPT ![l] = "poll"]
      /\ ended' = [ended EXCEPT ![l] = TRUE] /\ retired[l]
      /\ UNCHANGED <<submitVars, laneVars, cur, wfence, stopVars, crashed,
                     cleanupVars, sectionVars, outcome, historyVars>>
  BY QuitFindsNothing
<1>2. BaseType'
  BY <1>1 DEF BaseType, SubmitType, LaneType, WorkerType, WpcType, StopType, SectionType,
              HistoryType, submitVars, laneVars, stopVars, cleanupVars, sectionVars,
              historyVars
<1>3. /\ wpc'[l] = "poll"
      /\ \A m \in Lanes \ {l} : /\ ch'[m] = ch[m] /\ backlog'[m] = backlog[m]
                                /\ wpc'[m] = wpc[m] /\ cur'[m] = cur[m]
  BY <1>1 DEF BaseType, WorkerType, laneVars
<1>4. HandFits(l)' /\ AtHome(l)'
  BY <1>1, <1>3 DEF Hands, HandFits, BusyPc, Home, AtHome, Fits, dynamicVars, laneVars
<1>5. /\ wpc[l] # "unborn" /\ wpc'[l] # "unborn"
      /\ ch'[l] = <<>> /\ backlog'[l] = <<>> /\ wpc'[l] \notin BusyPc
  BY <1>1, <1>3 DEF Retirement, BusyPc, laneVars
<1>6. Busy(l)' = 0 /\ Busy(l) = 0
  BY <1>1, <1>3 DEF Busy, BusyPc
<1>7. Moved(l, 0, 0, 0) /\ 0 = 0 + 0 + 0
  BY <1>1, <1>6, Weights DEF Moved, laneVars
<1>8. PendingBump(l, 0)
  BY <1>1 DEF PendingBump, BaseType, LaneType, laneVars
<1>9. WorkerFrame /\ todo' = todo
  BY <1>1 DEF SeeQuit, sectionVars
<1> QED BY <1>2, <1>3, <1>4, <1>5, <1>7, <1>8, <1>9, WorkerLanes

\* Every step of the worker of a lane.
LEMMA LaneStepLanes ==
    ASSUME LaneInv, NEW l \in Lanes, LaneStep(l)
    PROVE  LaneInv'
BY TakeLanes, NoTakeLanes, ReceiveLanes, LeaveHandLanes, IdleLanes, QuitLanes
DEF LaneStep, WorkerStep

-----------------------------------------------------------------------------
(* Sections and stop calls.                                                 *)

\* A section lists the lanes it must park.
LEMMA InstallLanes ==
    ASSUME LaneInv, NEW s \in Sections, NEW ls \in SUBSET Lanes,
           \A l \in ls : wpc[l] # "unborn", InstallExclusive(s, ls), UNCHANGED dynamicVars
    PROVE  LaneInv'
<1> USE DEF LaneInv
<1>1. /\ todo' = ls /\ BaseType'
      /\ UNCHANGED <<pc, at, ch, closed, retired, backlog, pending, wpc, cur>>
  BY InstallTyped
  DEF InstallExclusive, SectionFrame, submitVars, laneVars, workerVars
<1>2. SameBorn /\ MapType'
  BY <1>1 DEF SameBorn, MapType, dynamicVars
<1>3. Mapping' /\ Supply'
  BY <1>1, <1>2, MappingKept, SupplyKept DEF dynamicVars
<1>4. Untouched'
  <2>1. \A x \in Stoppers : toClose[x] \subseteq Lanes
    BY DEF MapType
  <2> QED BY <1>1, <2>1 DEF Untouched, dynamicVars
<1>5. Arrivals'
  BY <1>1 DEF Arrivals, dynamicVars
<1>6. Load'
  BY <1>1, LoadKept
<1>7. Home' /\ Hands' /\ Retirement'
  BY <1>1 DEF Home, AtHome, Fits, Hands, HandFits, Retirement, dynamicVars
<1> QED BY <1>1, <1>2, <1>3, <1>4, <1>5, <1>6, <1>7

\* enqueueBarrier.
LEMMA BarrierLanes ==
    ASSUME LaneInv, NEW s \in Sections, PlaceBarrier(s), UNCHANGED dynamicVars
    PROVE  LaneInv'
<1> USE DEF LaneInv
<1>1. BaseType'
  BY PlaceTyped
<1>2. UNCHANGED <<pc, at, wpc, cur>>
  BY DEF PlaceBarrier, SectionFrame, submitVars, workerVars
<1>3. \A o \in Ops : Plain(pc[o], pc'[o])
  BY <1>2 DEF Plain
<1>4. CASE UNCHANGED laneVars
  <2>1. todo' \subseteq todo
    BY DEF PlaceBarrier
  <2>2. MapType' /\ (~TracksIdle => scan' = "exited")
    BY DEF MapType, Retirement, dynamicVars
  <2> QED BY <1>1, <1>2, <1>3, <1>4, <2>1, <2>2, LaneKept DEF laneVars, dynamicVars
<1>5. CASE ~UNCHANGED laneVars
  <2>1. PICK l \in todo : /\ todo' = todo \ {l}
                          /\ EnqueueMandatory(l, Entry("barrier", s, l, FALSE))
    BY <1>5 DEF PlaceBarrier
  <2>2. l \in Lanes /\ wpc[l] # "unborn"
    BY DEF BaseType, SectionType, Untouched
  <2>3. Entry("barrier", s, l, FALSE) \in EntryType
    BY <2>2, EntryTyped
  <2>4. Fits(Entry("barrier", s, l, FALSE), l)
    BY DEF Fits, Entry
  <2>5. todo' \subseteq todo
    BY <2>1
  <2> QED BY <1>1, <1>2, <1>3, <2>1, <2>2, <2>3, <2>4, <2>5, EnqueueLanes
<1> QED BY <1>4, <1>5

\* Every step of a section.
LEMMA SectionInv ==
    ASSUME LaneInv, Turn, NEW s \in Sections, NEW ls \in SUBSET Lanes, NEW done,
           \A l \in ls : wpc[l] # "unborn", SectionMove(s, ls, done),
           UNCHANGED dynamicVars
    PROVE  LaneInv'
<1> USE DEF LaneInv
<1>1. CASE PlaceBarrier(s)
  BY <1>1, BarrierLanes
<1>2. CASE InstallExclusive(s, ls)
  BY <1>2, InstallLanes
<1>3. CASE ~PlaceBarrier(s) /\ ~InstallExclusive(s, ls)
  <2>1. BaseType'
    BY SectionMoveTyped
  <2>2. UNCHANGED laneVars /\ SectionFrame
    BY <1>3, SectionLanes, SectionFramed
  <2>3. todo' = todo
    BY <1>3 DEF SectionMove, SectionStep, TakeTurn, BeginSection, CollectDone,
                SectionFails, StartFn, EndFn, WithdrawExclusive, EndDeferred, ReleaseLanes,
                AwaitRunning, SectionMoves
  <2>4. MapType' /\ (~TracksIdle => scan' = "exited")
    BY DEF MapType, Retirement, dynamicVars
  <2>5. \A o \in Ops : Plain(pc[o], pc'[o])
    BY <2>2 DEF Plain, SectionFrame, submitVars
  <2> QED BY <2>1, <2>2, <2>3, <2>4, <2>5, LaneKept
          DEF SectionFrame, submitVars, laneVars, workerVars, dynamicVars
<1> QED BY <1>1, <1>2, <1>3

\* The lanes a section parks have been created.
LEMMA ParkedBorn ==
    ASSUME LaneInv
    PROVE  \A l \in {m \in Lanes : \E k \in Keys : Live(k) /\ queues[k] = m} :
               wpc[l] # "unborn"
BY DEF LaneInv, Mapping, Live

\* A stop call that closes no lane and no map.
LEMMA StopLanes ==
    ASSUME LaneInv, NEW x \in Stoppers, BaseType', StopFrame, UNCHANGED laneVars,
           UNCHANGED <<mapVars, scan, candidates, toClose>>, scanStop' \in BOOLEAN
    PROVE  LaneInv'
<1>1. MapType' /\ (~TracksIdle => scan' = "exited")
  BY DEF LaneInv, MapType, Retirement, mapVars
<1>2. \A o \in Ops : Plain(pc[o], pc'[o])
  BY DEF Plain, StopFrame, submitVars
<1> QED BY <1>1, <1>2, LaneKept
        DEF StopFrame, submitVars, laneVars, workerVars, sectionVars, mapVars

\* Every stop step but the two that close the map and the lanes.
LEMMA StopStepLanes ==
    ASSUME LaneInv, NEW x \in Stoppers,
           \/ BeginStop(x) \/ AwaitScan(x)
           \/ (StopStep(x) \/ StopTimeout(x)) /\ UNCHANGED dynamicVars
    PROVE  LaneInv'
<1>1. CASE BeginStop(x) \/ AwaitScan(x)
  <2>1. PICK to \in {"scan", "begin", "signal"} : StopMoves(x, to)
    BY <1>1 DEF BeginStop, AwaitScan
  <2>2. BaseType'
    BY <2>1, StopMovesTyped DEF LaneInv, StpcType
  <2>3. UNCHANGED <<mapVars, scan, candidates, toClose>> /\ scanStop' \in BOOLEAN
    BY <1>1 DEF BeginStop, AwaitScan, dynamicVars, mapVars, LaneInv, MapType
  <2> QED BY <2>1, <2>2, <2>3, StopLanes DEF StopMoves
<1>2. CASE (StopStep(x) \/ StopTimeout(x)) /\ UNCHANGED dynamicVars
  <2>1. BaseType'
    BY <1>2, StopTyped DEF LaneInv
  <2>2. StopFrame /\ UNCHANGED laneVars
    BY <1>2 DEF StopStep, StopTimeout, SignalHardStop, SignalStop, WaitInFlightSubmits,
                WaitWorkers, WaitSections, FinishLifecycleCleanups, StopMoves
  <2>3. UNCHANGED <<mapVars, scan, candidates, toClose>> /\ scanStop' \in BOOLEAN
    BY <1>2 DEF dynamicVars, mapVars, LaneInv, MapType
  <2> QED BY <2>1, <2>2, <2>3, StopLanes
<1> QED BY <1>1, <1>2

\* markStoppingAndSnapshot.
LEMMA MarkLanes ==
    ASSUME LaneInv, NEW x \in Stoppers, MarkStopping(x)
    PROVE  LaneInv'
<1> USE DEF LaneInv
<1>1. /\ StopMoves(x, "closing") /\ stopping' = TRUE
      /\ toClose' = [toClose EXCEPT ![x] = {queues[k] : k \in Mapped}]
      /\ UNCHANGED <<queues, barrier, scan, candidates, scanStop>>
  BY DEF MarkStopping
<1>2. BaseType'
  BY <1>1, StopMovesTyped DEF StpcType
<1>3. UNCHANGED <<pc, at, ch, closed, retired, backlog, pending, wpc, cur, todo>>
  BY <1>1 DEF StopMoves, StopFrame, submitVars, laneVars, workerVars, sectionVars
<1>4. {queues[k] : k \in Mapped} \subseteq Lanes
      /\ \A l \in {queues[k] : k \in Mapped} : wpc[l] # "unborn"
  BY DEF MapType, Mapped, Mapping
<1>5. MapType'
  BY <1>1, <1>4 DEF MapType
<1>6. Mapping'
  BY <1>1, <1>3 DEF Mapping
<1>7. SameBorn
  BY <1>3 DEF SameBorn
<1>8. Supply'
  BY <1>1, <1>7, SupplyKept
<1>9. Untouched'
  <2>1. \A y \in Stoppers : toClose'[y] = toClose[y] \/ toClose'[y] = {queues[k] : k \in Mapped}
    BY <1>1 DEF MapType
  <2> QED BY <1>1, <1>3, <1>4, <2>1 DEF Untouched
<1>10. Arrivals' /\ Home' /\ Hands' /\ Retirement'
  BY <1>1, <1>3 DEF Arrivals, Home, AtHome, Fits, Hands, HandFits, Retirement
<1>11. Load'
  BY <1>3, LoadKept
<1> QED BY <1>2, <1>5, <1>6, <1>8, <1>9, <1>10, <1>11

\* closeQueueChannels: no producer is behind the gate of the lane it closes.
LEMMA CloseLanesLanes ==
    ASSUME LaneInv, NEW x \in Stoppers, CloseLanes(x)
    PROVE  LaneInv'
<1> USE DEF LaneInv
<1>1. /\ UNCHANGED <<pc, at, ch, retired, backlog, pending, wpc, cur, todo>>
      /\ UNCHANGED <<queues, stopping, barrier, scan, candidates, scanStop>>
  BY DEF CloseLanes, StopFrame, submitVars, workerVars, sectionVars, mapVars
<1>2. BaseType'
  <2>1. closed' \in [Lanes -> BOOLEAN] /\ stpc' \in [Stoppers -> StpcType]
    BY DEF CloseLanes, BaseType, LaneType, StopType, StpcType
  <2> QED BY <2>1 DEF CloseLanes, StopFrame, BaseType, SubmitType, LaneType, WorkerType,
                      StopType, SectionType, HistoryType, submitVars, workerVars,
                      cleanupVars, sectionVars
<1>3. PICK shut \in SUBSET toClose[x] :
         /\ \A l \in Lanes : closed'[l] = (closed[l] \/ l \in shut)
         /\ \A l \in shut : ~GateHeld(l)
         /\ toClose' = [toClose EXCEPT ![x] = @ \ shut]
  <2>1. CASE \E l \in toClose[x] : /\ ~GateHeld(l)
                                   /\ closed' = [closed EXCEPT ![l] = TRUE]
                                   /\ toClose' = [toClose EXCEPT ![x] = @ \ {l}]
    <3>1. PICK l \in toClose[x] : /\ ~GateHeld(l)
                                  /\ closed' = [closed EXCEPT ![l] = TRUE]
                                  /\ toClose' = [toClose EXCEPT ![x] = @ \ {l}]
      BY <2>1
    <3>2. \A m \in Lanes : closed'[m] = (closed[m] \/ m \in {l})
      BY <3>1 DEF BaseType, LaneType
    <3>3. {l} \in SUBSET toClose[x]
      OBVIOUS
    <3> QED BY <3>1, <3>2, <3>3
  <2>2. CASE UNCHANGED <<closed, toClose>>
    <3>1. toClose' = [toClose EXCEPT ![x] = @ \ {}]
      BY <2>2 DEF MapType
    <3>2. \A m \in Lanes : closed'[m] = (closed[m] \/ m \in {})
      BY <2>2 DEF BaseType, LaneType
    <3>3. {} \in SUBSET toClose[x]
      OBVIOUS
    <3> QED BY <3>1, <3>2, <3>3
  <2> QED BY <2>1, <2>2 DEF CloseLanes
<1>4. /\ shut \subseteq Lanes
      /\ \A l \in shut : wpc[l] # "unborn" /\ stopping
      /\ \A y \in Stoppers : toClose'[y] \subseteq toClose[y]
  BY <1>3 DEF MapType, Untouched
<1>5. MapType'
  <2>1. toClose' \in [Stoppers -> SUBSET Lanes]
    BY <1>3 DEF MapType
  <2> QED BY <1>1, <2>1 DEF MapType
<1>6. Mapping'
  <2> SUFFICES ASSUME NEW k \in Keys, queues[k] # NoLane
               PROVE  /\ wpc[queues[k]] # "unborn" /\ ~retired[queues[k]]
                      /\ closed'[queues[k]] => stopping
                      /\ \A j \in Keys : queues[j] = queues[k] => j = k
    BY <1>1 DEF Mapping
  <2>1. queues[k] \in Lanes
    BY DEF MapType
  <2> QED BY <1>3, <1>4, <2>1 DEF Mapping
<1>7. SameBorn
  BY <1>1 DEF SameBorn
<1>8. Supply'
  BY <1>1, <1>7, SupplyKept
<1>9. Untouched'
  <2>1. \A y \in Stoppers : toClose[y] \subseteq Lanes
    BY DEF MapType
  <2> QED BY <1>1, <1>3, <1>4, <2>1 DEF Untouched
<1>10. Arrivals'
  <2> SUFFICES ASSUME NEW o \in Ops
               PROVE  /\ pc[o] \in GatePc => /\ at[o] \in Lanes /\ ~closed'[at[o]]
                                             /\ queues[OpKey[o]] = at[o]
                      /\ pc[o] \in NearPc =>
                            /\ at[o] \in Lanes /\ wpc[at[o]] # "unborn"
                            /\ retired[at[o]] \/ queues[OpKey[o]] = at[o]
    BY <1>1 DEF Arrivals
  <2>1. pc[o] \in GatePc => at[o] \notin shut
    BY <1>3 DEF GateHeld, GatePc
  <2> QED BY <1>3, <2>1 DEF Arrivals
<1>11. Home' /\ Hands'
  BY <1>1 DEF Home, AtHome, Fits, Hands, HandFits
<1>12. Retirement'
  BY <1>1, <1>3 DEF Retirement
<1>13. Load'
  BY <1>1, LoadKept
<1> QED BY <1>2, <1>5, <1>6, <1>8, <1>9, <1>10, <1>11, <1>12, <1>13

-----------------------------------------------------------------------------
(* The idle cleanup goroutine.                                              *)

\* A lane that may be retired has nothing in hand.
LEMMA IdleHand ==
    ASSUME LaneInv, TracksIdle, NEW l \in Lanes, Idle(l), backlog[l] = <<>>
    PROVE  wpc[l] \notin BusyPc
<1>1. PICK u \in Nat, c \in Nat, b \in Nat, w \in Nat :
         /\ u = Cardinality(Unsent(l)) /\ c = Len(ch[l])
         /\ b = Len(backlog[l]) /\ w = Busy(l)
  BY Weights DEF LaneInv
<1>2. 0 = Weight(l)
  BY DEF LaneInv, Load, Idle
<1>3. 0 = u + c + b + w
  BY <1>1, <1>2 DEF Weight
<1>4. Busy(l) = 0
  BY <1>1, <1>3
<1> QED BY <1>4 DEF Busy

\* retireIfIdle takes lane l away from key k.
LEMMA RetireLanes ==
    ASSUME LaneInv, BaseType', MapType', NEW k \in Keys, NEW l \in Lanes, TracksIdle,
           MayRetire(k, l), SpareLane, ~TracksIdle => scan' = "exited",
           retired' = [retired EXCEPT ![l] = TRUE],
           closed' = [closed EXCEPT ![l] = TRUE],
           queues' = [queues EXCEPT ![k] = NoLane],
           UNCHANGED <<pc, at, ch, backlog, pending, wpc, cur, todo, stopping, toClose>>
    PROVE  LaneInv'
<1> USE DEF LaneInv
<1>1. /\ queues[k] = l /\ ch[l] = <<>> /\ backlog[l] = <<>> /\ ~GateHeld(l)
      /\ wpc[l] \notin BusyPc /\ l # NoLane
  BY IdleHand, NotALane DEF MayRetire, Idle
<1>2. wpc[l] # "unborn" /\ \A j \in Keys : queues[j] = l => j = k
  BY <1>1 DEF Mapping
<1>3. /\ queues'[k] = NoLane /\ \A j \in Keys \ {k} : queues'[j] = queues[j]
      /\ retired'[l] /\ \A m \in Lanes \ {l} : retired'[m] = retired[m]
      /\ closed'[l] /\ \A m \in Lanes \ {l} : closed'[m] = closed[m]
  BY DEF MapType, BaseType, LaneType
<1>4. Mapping'
  <2> SUFFICES ASSUME NEW j \in Keys, queues'[j] # NoLane
               PROVE  /\ wpc[queues'[j]] # "unborn"
                      /\ ~retired'[queues'[j]]
                      /\ closed'[queues'[j]] => stopping
                      /\ \A i \in Keys : queues'[i] = queues'[j] => i = j
    BY DEF Mapping
  <2>1. j # k /\ queues'[j] = queues[j] /\ queues[j] \in Lanes \ {l}
    BY <1>2, <1>3 DEF MapType
  <2>2. \A i \in Keys : queues'[i] = queues[j] => queues[i] = queues[j]
    BY <1>3, <2>1, NotALane
  <2> QED BY <1>3, <2>1, <2>2 DEF Mapping
<1>5. Untouched'
  <2>1. todo \subseteq Lanes /\ \A x \in Stoppers : toClose[x] \subseteq Lanes
    BY DEF MapType, BaseType, SectionType
  <2> QED BY <1>2, <1>3, <2>1 DEF Untouched
<1>6. Supply'
  <2>1. Unborn' = Unborn /\ Mapped' = Mapped \ {k} /\ k \in Mapped
    BY <1>1, <1>3 DEF Unborn, Mapped
  <2>2. Keys \ Mapped' = (Keys \ Mapped) \cup {k} /\ k \notin Keys \ Mapped
    BY <2>1
  <2>3. Cardinality(Keys \ Mapped') = Cardinality(Keys \ Mapped) + 1
    BY <2>2, SupplyFinite, FS_AddElement
  <2>4. Cardinality(Mapped') = Cardinality(Mapped) - 1
    BY <2>1, SupplyFinite, FS_RemoveElement
  <2>5. Cardinality(Unborn') >= Cardinality(Keys \ Mapped')
    BY <2>1, <2>3, SupplyFinite DEF SpareLane
  <2>6. MaxQueues > 0 => Cardinality(Mapped') <= MaxQueues
    BY <2>4, SupplyFinite, DynamicAssumption DEF Supply, QueueLimit, DynamicAssumption
  <2> QED BY <2>5, <2>6 DEF Supply, QueueLimit
<1>7. \A p \in Ops : \A m \in Lanes \ {l} : queues[OpKey[p]] = m => queues'[OpKey[p]] = m
  BY <1>1, <1>3, KeyOf
<1>8. Arrivals'
  <2> SUFFICES ASSUME NEW o \in Ops
               PROVE  /\ pc[o] \in GatePc => /\ at[o] \in Lanes /\ ~closed'[at[o]]
                                             /\ queues'[OpKey[o]] = at[o]
                      /\ pc[o] \in NearPc =>
                            /\ at[o] \in Lanes /\ wpc[at[o]] # "unborn"
                            /\ retired'[at[o]] \/ queues'[OpKey[o]] = at[o]
    BY DEF Arrivals
  <2>1. pc[o] \in GatePc => at[o] # l
    BY <1>1 DEF GateHeld, GatePc
  <2> QED BY <1>3, <1>7, <2>1 DEF Arrivals
<1>9. Home'
  <2>1. ASSUME NEW m \in Lanes PROVE AtHome(m)'
    <3>1. CASE m = l
      BY <1>1, <3>1 DEF AtHome
    <3>2. CASE m # l
      <4>1. \A i \in DOMAIN ch[m] : ch[m][i] \in Ops
        <5>1. ch[m] \in Seq(Ops)
          BY DEF BaseType, LaneType
        <5> QED BY <5>1
      <4>2. \A i \in DOMAIN ch[m] : queues'[OpKey[ch[m][i]]] = m
        BY <1>7, <3>2, <4>1 DEF Home, AtHome
      <4>3. \A i \in DOMAIN backlog[m] : Fits(backlog[m][i], m)'
        BY <1>7, <3>2 DEF Home, AtHome, Fits
      <4> QED BY <4>2, <4>3 DEF AtHome
    <3> QED BY <3>1, <3>2
  <2> QED BY <2>1 DEF Home
<1>10. Hands'
  <2>1. ASSUME NEW m \in Lanes PROVE HandFits(m)'
    <3>1. CASE m = l
      BY <1>1, <3>1 DEF Hands, HandFits, BusyPc
    <3>2. CASE m # l
      BY <1>7, <3>2 DEF Hands, HandFits
    <3> QED BY <3>1, <3>2
  <2> QED BY <2>1 DEF Hands
<1>11. Load'
  BY LoadKept
<1>12. Retirement'
  BY <1>1, <1>3 DEF Retirement
<1> QED BY <1>4, <1>5, <1>6, <1>8, <1>9, <1>10, <1>11, <1>12

\* Every step of the idle cleanup goroutine.
LEMMA ScanLanes ==
    ASSUME LaneInv, Scan
    PROVE  LaneInv'
<1> USE DEF LaneInv
<1>1. /\ UNCHANGED <<pc, at, ch, backlog, pending, wpc, cur, todo, stopping, toClose>>
      /\ UNCHANGED <<barrier, scanStop>> /\ ScanFrame
      /\ UNCHANGED <<progress, wake, admitted, settled>>
  BY DEF Scan, ScanIdle, RetireIfIdle, ScanExit, ScanFrame, submitVars, workerVars,
         sectionVars, laneVars
<1>2. TracksIdle /\ scan' \in {"idle", "retiring", "exited"}
  BY DEF Scan, ScanIdle, RetireIfIdle, ScanExit, Retirement
<1>3. candidates' \subseteq Keys \X Lanes
  <2>1. CASE ScanIdle
    BY <2>1 DEF ScanIdle, Mapped, MapType
  <2>2. CASE RetireIfIdle \/ ScanExit
    BY <2>2 DEF RetireIfIdle, ScanExit, MapType
  <2> QED BY <2>1, <2>2 DEF Scan
<1>4. /\ closed' \in [Lanes -> BOOLEAN] /\ retired' \in [Lanes -> BOOLEAN]
      /\ queues' \in [Keys -> Lanes \cup {NoLane}]
  BY DEF Scan, ScanIdle, RetireIfIdle, ScanExit, laneVars, BaseType, LaneType, MapType
<1>5. BaseType'
  BY <1>1, <1>4
  DEF ScanFrame, BaseType, SubmitType, LaneType, WorkerType, StopType, SectionType,
      HistoryType, submitVars, workerVars, stopVars, cleanupVars, sectionVars, historyVars
<1>6. MapType'
  BY <1>1, <1>2, <1>3, <1>4 DEF MapType
<1>7. \A o \in Ops : Plain(pc[o], pc'[o])
  BY <1>1 DEF Plain
<1>8. CASE UNCHANGED <<closed, retired, queues>>
  <2>1. todo' \subseteq todo
    BY <1>1
  <2> QED BY <1>1, <1>2, <1>5, <1>6, <1>7, <1>8, <2>1, LaneKept
<1>9. CASE ~UNCHANGED <<closed, retired, queues>>
  <2>1. PICK c \in candidates : /\ MayRetire(c[1], c[2]) /\ SpareLane
                                /\ retired' = [retired EXCEPT ![c[2]] = TRUE]
                                /\ closed' = [closed EXCEPT ![c[2]] = TRUE]
                                /\ queues' = [queues EXCEPT ![c[1]] = NoLane]
    BY <1>9 DEF Scan, ScanIdle, RetireIfIdle, ScanExit, laneVars
  <2>2. PICK k \in Keys, l \in Lanes : k = c[1] /\ l = c[2]
    BY DEF MapType
  <2>3. /\ MayRetire(k, l) /\ retired' = [retired EXCEPT ![l] = TRUE]
        /\ closed' = [closed EXCEPT ![l] = TRUE]
        /\ queues' = [queues EXCEPT ![k] = NoLane]
    BY <2>1, <2>2
  <2> QED BY <1>1, <1>2, <1>5, <1>6, <2>1, <2>3, RetireLanes
<1> QED BY <1>8, <1>9

-----------------------------------------------------------------------------
(* The invariant holds.                                                     *)

\* Every step of a call.
LEMMA OpLanes ==
    ASSUME LaneInv, NEW o \in Ops, Submit(o) \/ OpStep(o) \/ Cancel(o)
    PROVE  LaneInv'
<1>1. CASE Submit(o)
  BY <1>1, ProducerLanes DEF Submit
<1>2. CASE Cancel(o)
  BY <1>2, ProducerLanes, AbandonLanes DEF Cancel
<1>3. CASE OpStep(o)
  <2>1. CASE /\ \/ WaitForMandatoryCleanup(o) \/ FenceProgress(o) \/ FenceStopped(o)
                \/ AdmitTask(o) \/ SendTask(o) \/ SendOnClosed(o) \/ SendBlocks(o)
                \/ AbandonSend(o, "stop") \/ EndSubmit(o) \/ EndSubmitTest(o)
             /\ UNCHANGED <<stpc, dynamicVars>>
    BY <2>1, ProducerLanes, AdmitLanes, SendLanes, GateKeepsOpen, AbandonLanes
  <2>2. CASE /\ \/ EnqueueCleanup(o)
                \/ EndHandoff(o, "handoff") \/ EndHandoffTest(o, "handoff")
                \/ HandoffLate(o, queues[OpKey[o]])
                \/ BeginLifecycleCleanup(o) \/ EndLifecycleCleanup(o)
             /\ UNCHANGED dynamicVars
    BY <2>2, EnqueueCleanupLanes, HandoffLateLanes, HandoffLanes
  <2>3. CASE \/ SubmitRoute(o) \/ SubmitLookup(o) \/ SubmitCreate(o) \/ EnterGate(o)
             \/ AwaitBarrier(o, "waitBarrier", "route")
             \/ AwaitBarrier(o, "hwaitBarrier", "handoff")
             \/ ScheduleCleanup(o) \/ CleanupLookup(o) \/ CleanupCreate(o)
    BY <2>3, HeadLanes, LookupLanes, CreateLanes, GateLanes
  <2>4. CASE CleanupBegin(o) \/ CleanupWithoutLiveLane(o) \/ EndCleanupHere(o)
    BY <2>4, CleanupBeginLanes, CleanupHereLanes
  <2> QED BY <1>3, <2>1, <2>2, <2>3, <2>4 DEF OpStep
<1> QED BY <1>1, <1>2, <1>3

\* A call leaves the sections alone but for a release it postpones, and only a
\* send on a closed channel crashes.
LEMMA OpFrame ==
    ASSUME NEW o \in Ops, Submit(o) \/ OpStep(o) \/ Cancel(o)
    PROVE  /\ UNCHANGED spc
           /\ deferred' \in {deferred, Append(deferred, o)}
           /\ crashed' = crashed \/ SendOnClosed(o)
<1>1. CASE Submit(o) \/ Cancel(o)
  BY <1>1 DEF Submit, Cancel, BeginSubmit, CancelBeforeAdmit, AbandonSend, ProducerFrame,
              sectionVars
<1>2. CASE /\ \/ WaitForMandatoryCleanup(o) \/ FenceProgress(o) \/ FenceStopped(o)
              \/ AdmitTask(o) \/ SendTask(o) \/ SendOnClosed(o) \/ SendBlocks(o)
              \/ AbandonSend(o, "stop") \/ EndSubmit(o) \/ EndSubmitTest(o)
           /\ UNCHANGED <<stpc, dynamicVars>>
  BY <1>2 DEF WaitForMandatoryCleanup, FenceProgress, FenceStopped, AdmitTask, SendTask,
              SendOnClosed, SendBlocks, AbandonSend, EndSubmit, EndSubmitTest, TestStop,
              ProducerFrame, sectionVars
<1>3. CASE /\ \/ EnqueueCleanup(o)
              \/ EndHandoff(o, "handoff") \/ EndHandoffTest(o, "handoff")
              \/ HandoffLate(o, queues[OpKey[o]])
              \/ BeginLifecycleCleanup(o) \/ EndLifecycleCleanup(o)
           /\ UNCHANGED dynamicVars
  BY <1>3 DEF EnqueueCleanup, EndHandoff, EndHandoffTest, TestStop, HandoffLate,
              BeginLifecycleCleanup, EndLifecycleCleanup, HandoffFrame, sectionVars
<1>4. CASE \/ SubmitRoute(o) \/ SubmitLookup(o) \/ EnterGate(o)
           \/ AwaitBarrier(o, "waitBarrier", "route")
           \/ AwaitBarrier(o, "hwaitBarrier", "handoff")
           \/ ScheduleCleanup(o) \/ CleanupLookup(o)
  BY <1>4 DEF SubmitRoute, SubmitLookup, EnterGate, AwaitBarrier, ScheduleCleanup,
              CleanupLookup, Lookup, RouteFrame, sectionVars
<1>5. CASE SubmitCreate(o) \/ CleanupCreate(o)
  BY <1>5 DEF SubmitCreate, CleanupCreate, Create, NewLane, RouteFrame, sectionVars
<1>6. CASE CleanupBegin(o) \/ CleanupWithoutLiveLane(o) \/ EndCleanupHere(o)
  BY <1>6 DEF CleanupBegin, CleanupWithoutLiveLane, EndCleanupHere, HandoffFrame,
              sectionVars
<1>7. CASE OpStep(o)
  BY <1>2, <1>3, <1>4, <1>5, <1>6, <1>7 DEF OpStep
<1> QED BY <1>1, <1>7

\* A postponed release leaves the turn alone.
LEMMA TurnStays ==
    ASSUME BaseType, Turn, NEW o, UNCHANGED spc, deferred' \in {deferred, Append(deferred, o)}
    PROVE  Turn'
<1>1. deferred # <<>> => deferred' # <<>>
  <2>1. deferred \in Seq(Ops)
    BY DEF BaseType, SectionType
  <2>2. Append(deferred, o) # <<>>
    BY <2>1
  <2> QED BY <2>2
<1> QED BY <1>1 DEF Turn

\* The lanes a section parks.
LivingLanes == {l \in Lanes : \E k \in Keys : Live(k) /\ queues[k] = l}

\* The section steps of this strategy.
LEMMA SectionSteps ==
    ASSUME NEW s \in Sections,
           \/ (TakeTurn(s) \/ SectionFails(s, "ctx")) /\ UNCHANGED dynamicVars
           \/ SectionRuns(s)
    PROVE  /\ SectionMove(s, LivingLanes, \A k \in Keys : barrier[k] = NoOp)
           /\ UNCHANGED dynamicVars
BY DEF SectionRuns, InstallSection, SectionMove, LivingLanes

\* No step crashes, and the lanes, the map and the turn stay in order.
LaneOrder == LaneInv /\ Turn /\ ~crashed

\* Initially.
LEMMA InitLanes ==
    ASSUME Init
    PROVE  LaneOrder
<1>1. BaseType
  <2>1. /\ NoEntry \in EntryType /\ <<>> \in Seq(Ops) /\ <<>> \in Seq(EntryType)
        /\ <<>> \in Seq(Results)
    BY EntriesTyped
  <2>2. SubmitType /\ LaneType
    BY <2>1 DEF Init, LifecycleInit, SubmitType, PcType, LaneType
  <2>3. WorkerType /\ StopType
    BY <2>1 DEF Init, LifecycleInit, WorkerType, WpcType, StopType, StpcType
  <2>4. SectionType /\ inFlight \in Int
    BY <2>1 DEF Init, LifecycleInit, SectionType, SpcType
  <2>5. outcome \in [Ops -> Seq(Results)]
    BY <2>1 DEF Init, LifecycleInit
  <2>6. HistoryType
    BY <2>5 DEF Init, LifecycleInit, HistoryType
  <2> QED BY <2>2, <2>3, <2>4, <2>6 DEF BaseType
<1>2. MapType
  BY DEF Init, MapType
<1>3. Mapping /\ Arrivals
  BY DEF Init, LifecycleInit, Mapping, Arrivals, GatePc, NearPc
<1>4. Untouched /\ Retirement
  BY DEF Init, LifecycleInit, Untouched, Retirement, BusyPc
<1>5. Supply
  <2>1. Unborn = Lanes /\ Mapped = {}
    BY DEF Init, LifecycleInit, Unborn, Mapped
  <2>2. Keys \ Mapped = Keys
    BY <2>1
  <2>3. Cardinality(Mapped) = 0
    BY <2>1, FS_EmptySet
  <2>4. Cardinality(Unborn) \in Nat /\ Cardinality(Keys \ Mapped) \in Nat
    BY SupplyFinite
  <2> QED BY <2>1, <2>2, <2>3, <2>4, DynamicAssumption DEF DynamicAssumption, Supply, QueueLimit
<1>6. Home /\ Hands
  BY DEF Init, LifecycleInit, Home, AtHome, Hands, HandFits, BusyPc, NoEntry
<1>7. Load
  <2> SUFFICES ASSUME NEW l \in Lanes PROVE pending[l] = Weight(l)
    BY DEF Load
  <2>1. Unsent(l) = {}
    BY DEF Init, LifecycleInit, Unsent
  <2>2. Cardinality(Unsent(l)) = 0 /\ Busy(l) = 0 /\ pending[l] = 0
        /\ ch[l] = <<>> /\ backlog[l] = <<>>
    BY <2>1, FS_EmptySet DEF Init, LifecycleInit, Busy, BusyPc
  <2>3. Len(ch[l]) = 0 /\ Len(backlog[l]) = 0
    BY <2>2
  <2> QED BY <2>2, <2>3 DEF Weight
<1>8. Turn /\ ~crashed
  BY DEF Init, LifecycleInit, Turn
<1> QED BY <1>1, <1>2, <1>3, <1>4, <1>5, <1>6, <1>7, <1>8 DEF LaneOrder, LaneInv

\* Every step.
LEMMA NextLanes ==
    ASSUME LaneOrder, [Next]_vars
    PROVE  LaneOrder'
<1>0. BaseType /\ LaneInv /\ Turn /\ ~crashed
  BY DEF LaneOrder, LaneInv
<1>1. ASSUME NEW o \in Ops, Submit(o) \/ OpStep(o) \/ Cancel(o) PROVE LaneOrder'
  <2>1. LaneInv'
    BY <1>0, <1>1, OpLanes
  <2>2. ~SendOnClosed(o)
    BY <1>0, GateKeepsOpen
  <2> QED BY <1>0, <1>1, <2>1, <2>2, OpFrame, TurnStays DEF LaneOrder
<1>2. ASSUME NEW l \in Lanes, LaneStep(l) PROVE LaneOrder'
  <2>1. LaneInv'
    BY <1>0, <1>2, LaneStepLanes
  <2>2. UNCHANGED <<spc, deferred, crashed>>
    BY <1>2 DEF LaneStep, WorkerStep, TakeMandatory, NoMandatory, Receive, Complete, TakeWake,
                SeeFence, SeeClosed, FinishWorker, ParkBarrier, LeaveBarrier, SeeQuit,
                IdleFrame, WorkerFrame, sectionVars
  <2> QED BY <1>0, <2>1, <2>2 DEF LaneOrder, Turn
<1>3. ASSUME NEW s \in Sections,
             \/ (TakeTurn(s) \/ SectionFails(s, "ctx")) /\ UNCHANGED dynamicVars
             \/ SectionRuns(s)
      PROVE  LaneOrder'
  <2>1. PICK ls \in SUBSET Lanes : ls = LivingLanes
    BY DEF LivingLanes
  <2>2. PICK done : done = \A k \in Keys : barrier[k] = NoOp
    OBVIOUS
  <2>3. SectionMove(s, ls, done) /\ UNCHANGED dynamicVars
    BY <1>3, <2>1, <2>2, SectionSteps
  <2>4. \A l \in ls : wpc[l] # "unborn"
    BY <1>0, <2>1, ParkedBorn DEF LivingLanes
  <2>5. LaneInv'
    BY <1>0, <2>3, <2>4, SectionInv
  <2>6. Turn'
    BY <1>0, <2>3, TurnKept
  <2>7. crashed' = crashed
    BY <2>3, SectionFramed DEF SectionFrame
  <2> QED BY <1>0, <2>5, <2>6, <2>7 DEF LaneOrder
<1>4. ASSUME NEW x \in Stoppers,
             \/ BeginStop(x) \/ StopRuns(x)
             \/ StopTimeout(x) /\ UNCHANGED dynamicVars
      PROVE  LaneOrder'
  <2>1. LaneInv'
    BY <1>0, <1>4, StopStepLanes, MarkLanes, CloseLanesLanes DEF StopRuns
  <2>2. UNCHANGED <<spc, deferred, crashed>>
    BY <1>4 DEF BeginStop, StopRuns, StopTimeout, StopStep, AwaitScan, MarkStopping,
                CloseLanes, SignalHardStop, SignalStop, WaitInFlightSubmits, WaitWorkers,
                WaitSections, FinishLifecycleCleanups, StopMoves, StopFrame, sectionVars
  <2> QED BY <1>0, <2>1, <2>2 DEF LaneOrder, Turn
<1>5. CASE Scan
  <2>1. LaneInv'
    BY <1>0, <1>5, ScanLanes
  <2>2. UNCHANGED <<spc, deferred, crashed>>
    BY <1>5 DEF Scan, ScanIdle, RetireIfIdle, ScanExit, ScanFrame, sectionVars
  <2> QED BY <1>0, <2>1, <2>2 DEF LaneOrder, Turn
<1>6. CASE UNCHANGED vars
  <2>1. /\ UNCHANGED <<at, ch, closed, retired, backlog, pending, wpc, cur, queues, stopping,
                       toClose, pc, todo, scan, spc, deferred, crashed>>
        /\ UNCHANGED <<barrier, candidates, scanStop>>
    BY <1>6 DEF vars, allVars, dynamicVars, submitVars, laneVars, workerVars, sectionVars
  <2>2. BaseType'
    BY <1>0, <1>6 DEF vars, allVars, BaseType, SubmitType, LaneType, WorkerType, StopType,
                      SectionType, HistoryType, submitVars, laneVars, workerVars, stopVars,
                      cleanupVars, sectionVars, historyVars
  <2>3. MapType' /\ (~TracksIdle => scan' = "exited") /\ todo' \subseteq todo
    BY <1>0, <2>1 DEF LaneInv, MapType, Retirement
  <2>4. \A o \in Ops : Plain(pc[o], pc'[o])
    BY <2>1 DEF Plain
  <2>5. LaneInv'
    BY <1>0, <2>1, <2>2, <2>3, <2>4, LaneKept
  <2> QED BY <1>0, <2>1, <2>5 DEF LaneOrder, Turn
<1> QED BY <1>1, <1>2, <1>3, <1>4, <1>5, <1>6 DEF Next, Finished

\* The lanes, the map and the turn stay in order.
THEOREM LanesInOrder == Spec => []LaneOrder
BY InitLanes, NextLanes, PTL DEF Spec

\* retireIfIdle takes a lane away only when nothing is or will be on it, for
\* every number of keys, lanes and calls and every limit: no task, no release,
\* no producer behind its gate, no work in hand.
THEOREM RetiredStaysEmpty == Spec => []RetiredIsEmpty
<1>1. ASSUME LaneOrder PROVE RetiredIsEmpty
  <2> SUFFICES ASSUME NEW l \in Lanes, retired[l]
               PROVE  ch[l] = <<>> /\ backlog[l] = <<>> /\ ~Executing(l) /\ ~GateHeld(l)
    BY DEF RetiredIsEmpty
  <2> QED BY <1>1 DEF LaneOrder, LaneInv, Retirement, Arrivals, GateHeld, GatePc, Executing, BusyPc
<1> QED BY <1>1, LanesInOrder, PTL

\* A producer behind the gate of its lane never sends on a closed channel:
\* closeQueueChannels and retireIfIdle take the gate of the lane they close.
THEOREM NeverSendsOnClosed == Spec => []NoSendOnClosed
<1>1. ASSUME LaneOrder PROVE NoSendOnClosed
  BY <1>1 DEF LaneOrder, NoSendOnClosed
<1> QED BY <1>1, LanesInOrder, PTL

\* The live queue count never exceeds maxQueues.
THEOREM LimitKept == Spec => []QueueLimit
<1>1. ASSUME LaneOrder PROVE QueueLimit
  BY <1>1 DEF LaneOrder, LaneInv, Supply
<1> QED BY <1>1, LanesInOrder, PTL

-----------------------------------------------------------------------------
(* Aborts.                                                                  *)

\* A step that resolves at most one call, and aborts nothing before a hard
\* stop.
LEMMA AbortKept ==
    ASSUME BaseType, AbortInv, NEW o, NEW how, hard => hard',
           \/ outcome' = outcome
           \/ outcome' = [outcome EXCEPT ![o] = Append(@, how)],
           how = "aborted" => hard',
           \A l \in Lanes : wpc'[l] = "abort" => wpc[l] = "abort" \/ hard'
    PROVE  AbortInv'
<1>1. ASSUME NEW p \in Ops, NEW i \in DOMAIN outcome'[p], outcome'[p][i] = "aborted"
      PROVE  hard'
  <2>1. outcome[p] \in Seq(Results)
    BY DEF BaseType, HistoryType
  <2>2. CASE outcome'[p] = outcome[p]
    BY <1>1, <2>2 DEF AbortInv, AbortsOnlyOnHardStop
  <2>3. CASE outcome'[p] = Append(outcome[p], how)
    <3>1. \/ i \in DOMAIN outcome[p] /\ outcome'[p][i] = outcome[p][i]
          \/ outcome'[p][i] = how
      BY <2>1, <2>3
    <3> QED BY <1>1, <3>1 DEF AbortInv, AbortsOnlyOnHardStop
  <2>4. outcome'[p] = outcome[p] \/ outcome'[p] = Append(outcome[p], how)
    BY DEF BaseType, HistoryType
  <2> QED BY <2>2, <2>3, <2>4
<1> QED BY <1>1 DEF AbortInv, AbortsOnlyOnHardStop

\* A call resolves only itself, as failed, and moves no worker but a new one.
LEMMA OpOutcome ==
    ASSUME BaseType, NEW o \in Ops, Submit(o) \/ OpStep(o) \/ Cancel(o)
    PROVE  /\ hard' = hard
           /\ \A l \in Lanes : wpc'[l] = "abort" => wpc[l] = "abort"
           /\ \/ outcome' = outcome
              \/ outcome' = [outcome EXCEPT ![o] = Append(@, "failed")]
<1>1. CASE Submit(o) \/ Cancel(o)
  BY <1>1 DEF Submit, Cancel, BeginSubmit, CancelBeforeAdmit, AbandonSend, ProducerFrame,
              workerVars, stopVars, Fail
<1>2. CASE /\ \/ WaitForMandatoryCleanup(o) \/ FenceProgress(o) \/ FenceStopped(o)
              \/ AdmitTask(o) \/ SendTask(o) \/ SendOnClosed(o) \/ SendBlocks(o)
              \/ AbandonSend(o, "stop") \/ EndSubmit(o) \/ EndSubmitTest(o)
           /\ UNCHANGED <<stpc, dynamicVars>>
  BY <1>2 DEF WaitForMandatoryCleanup, FenceProgress, FenceStopped, AdmitTask, SendTask,
              SendOnClosed, SendBlocks, AbandonSend, EndSubmit, EndSubmitTest, TestStop,
              ProducerFrame, workerVars, stopVars, Fail
<1>3. CASE /\ \/ EnqueueCleanup(o)
              \/ EndHandoff(o, "handoff") \/ EndHandoffTest(o, "handoff")
              \/ HandoffLate(o, queues[OpKey[o]])
              \/ BeginLifecycleCleanup(o) \/ EndLifecycleCleanup(o)
           /\ UNCHANGED dynamicVars
  BY <1>3 DEF EnqueueCleanup, EndHandoff, EndHandoffTest, TestStop, HandoffLate,
              BeginLifecycleCleanup, EndLifecycleCleanup, HandoffFrame, workerVars, Resolve
<1>4. CASE \/ SubmitRoute(o) \/ SubmitLookup(o) \/ EnterGate(o)
           \/ AwaitBarrier(o, "waitBarrier", "route")
           \/ AwaitBarrier(o, "hwaitBarrier", "handoff")
           \/ ScheduleCleanup(o) \/ CleanupLookup(o)
  BY <1>4 DEF SubmitRoute, SubmitLookup, EnterGate, AwaitBarrier, ScheduleCleanup,
              CleanupLookup, Lookup, RouteFrame, workerVars, stopVars, Fail, Goto
<1>5. CASE SubmitCreate(o) \/ CleanupCreate(o)
  <2>1. hard' = hard /\ (outcome' = outcome
                           \/ outcome' = [outcome EXCEPT ![o] = Append(@, "failed")])
    BY <1>5 DEF SubmitCreate, CleanupCreate, Create, RouteFrame, stopVars, Fail, Goto
  <2>2. wpc' = wpc \/ \E n : wpc' = [wpc EXCEPT ![n] = "poll"]
    BY <1>5 DEF SubmitCreate, CleanupCreate, Create, NewLane, workerVars
  <2> QED BY <2>1, <2>2 DEF BaseType, WorkerType
<1>6. CASE CleanupBegin(o) \/ CleanupWithoutLiveLane(o) \/ EndCleanupHere(o)
  BY <1>6 DEF CleanupBegin, CleanupWithoutLiveLane, EndCleanupHere, HandoffFrame,
              workerVars, Goto, Resolve
<1>7. CASE OpStep(o)
  BY <1>2, <1>3, <1>4, <1>5, <1>6, <1>7 DEF OpStep
<1> QED BY <1>1, <1>7

\* A worker aborts only after it saw the hard stop; the worker of a retired
\* lane aborts nothing.
LEMMA WorkerOutcome ==
    ASSUME LaneInv, AbortInv, NEW l \in Lanes, LaneStep(l)
    PROVE  AbortInv'
<1>0. BaseType
  BY DEF LaneInv
<1>1. hard' = hard
  BY DEF LaneStep, WorkerStep, TakeMandatory, NoMandatory, Receive, Complete, TakeWake,
         SeeFence, SeeClosed, FinishWorker, ParkBarrier, LeaveBarrier, SeeQuit, IdleFrame,
         WorkerFrame, stopVars
<1>2. CASE Complete(l)
  <2>1. PICK how, o : /\ outcome' = [outcome EXCEPT ![o] = Append(@, how)]
                      /\ how = "aborted" => wpc[l] = "abort"
    <3>1. PICK h : h = IF cur[l].kind # "task" THEN "failed"
                       ELSE IF wpc[l] = "run" THEN "ran" ELSE "aborted"
      OBVIOUS
    <3>2. PICK p : p = cur[l].op
      OBVIOUS
    <3>3. outcome' = [outcome EXCEPT ![p] = Append(@, h)]
      BY <1>2, <3>1, <3>2 DEF Complete, Resolve
    <3>4. h = "aborted" => wpc[l] = "abort"
      BY <1>2, <3>1 DEF Complete
    <3> QED BY <3>3, <3>4
  <2>2. \A m \in Lanes : wpc'[m] = "abort" => wpc[m] = "abort"
    BY <1>0, <1>2 DEF Complete, BaseType, WorkerType
  <2>3. how = "aborted" => hard'
    BY <1>1, <2>1 DEF AbortInv
  <2> QED BY <1>0, <1>1, <2>1, <2>2, <2>3, AbortKept
<1>3. CASE SeeQuit(l)
  <2>1. outcome' = outcome /\ wpc' = [wpc EXCEPT ![l] = "poll"]
    BY <1>3, QuitFindsNothing
  <2>2. \A m \in Lanes : wpc'[m] = "abort" => wpc[m] = "abort"
    BY <1>0, <2>1 DEF BaseType, WorkerType
  <2> QED BY <1>0, <1>1, <2>1, <2>2 DEF AbortInv, AbortsOnlyOnHardStop
<1>4. CASE WorkerStep(l) /\ ~Complete(l)
  <2>1. outcome' = outcome
    BY <1>4 DEF WorkerStep, TakeMandatory, NoMandatory, Receive, TakeWake, SeeFence, SeeClosed,
                FinishWorker, ParkBarrier, LeaveBarrier, IdleFrame
  <2>2. PICK x : wpc' = [wpc EXCEPT ![l] = x] /\ (x = "abort" => hard)
    BY <1>4 DEF WorkerStep, TakeMandatory, NoMandatory, Receive, TakeWake, SeeFence, SeeClosed,
                FinishWorker, ParkBarrier, LeaveBarrier
  <2>3. \A m \in Lanes : wpc'[m] = "abort" => wpc[m] = "abort" \/ hard
    BY <1>0, <2>2 DEF BaseType, WorkerType
  <2> QED BY <1>1, <2>1, <2>3 DEF AbortInv, AbortsOnlyOnHardStop
<1> QED BY <1>2, <1>3, <1>4 DEF LaneStep

\* Every step.
LEMMA NextAborts ==
    ASSUME LaneOrder, AbortInv, [Next]_vars
    PROVE  AbortInv'
<1>0. BaseType /\ LaneInv
  BY DEF LaneOrder, LaneInv
<1>1. ASSUME NEW o \in Ops, Submit(o) \/ OpStep(o) \/ Cancel(o) PROVE AbortInv'
  <2>1. /\ hard' = hard /\ \A l \in Lanes : wpc'[l] = "abort" => wpc[l] = "abort"
        /\ \/ outcome' = outcome
           \/ outcome' = [outcome EXCEPT ![o] = Append(@, "failed")]
    BY <1>0, <1>1, OpOutcome
  <2>2. PICK how : how = "failed"
    OBVIOUS
  <2>3. how # "aborted"
    BY <2>2
  <2> QED BY <1>0, <2>1, <2>2, <2>3, AbortKept
<1>2. ASSUME NEW l \in Lanes, LaneStep(l) PROVE AbortInv'
  BY <1>0, <1>2, WorkerOutcome
<1>3. ASSUME NEW s \in Sections,
             \/ (TakeTurn(s) \/ SectionFails(s, "ctx")) /\ UNCHANGED dynamicVars
             \/ SectionRuns(s)
      PROVE  AbortInv'
  <2>1. SectionMove(s, LivingLanes, \A k \in Keys : barrier[k] = NoOp)
    BY <1>3, SectionSteps
  <2>2. SectionFrame
    BY <2>1, SectionFramed
  <2>3. UNCHANGED <<hard, wpc>>
    BY <2>2 DEF SectionFrame, stopVars, workerVars
  <2>4. PICK how, o : /\ how = "failed"
                      /\ \/ outcome' = outcome
                         \/ outcome' = [outcome EXCEPT ![o] = Append(@, how)]
    BY <2>1 DEF SectionMove, TakeTurn, SectionStep, BeginSection, PlaceBarrier, CollectDone,
                SectionFails, StartFn, EndFn, WithdrawExclusive, EndDeferred, ReleaseLanes,
                InstallExclusive, AwaitRunning, SectionMoves, Resolve
  <2>5. how # "aborted"
    BY <2>4
  <2>6. (hard => hard') /\ \A l \in Lanes : wpc'[l] = "abort" => wpc[l] = "abort"
    BY <2>3
  <2>7. outcome' = outcome \/ outcome' = [outcome EXCEPT ![o] = Append(@, how)]
    BY <2>4
  <2> QED BY <1>0, <2>5, <2>6, <2>7, AbortKept
<1>4. ASSUME NEW x \in Stoppers,
             \/ BeginStop(x) \/ StopRuns(x)
             \/ StopTimeout(x) /\ UNCHANGED dynamicVars
      PROVE  AbortInv'
  <2>1. UNCHANGED <<wpc, outcome>> /\ (hard => hard')
    BY <1>4 DEF BeginStop, StopRuns, StopTimeout, StopStep, AwaitScan, MarkStopping,
                CloseLanes, SignalHardStop, SignalStop, WaitInFlightSubmits, WaitWorkers,
                WaitSections, FinishLifecycleCleanups, StopMoves, StopFrame, workerVars
  <2> QED BY <2>1 DEF AbortInv, AbortsOnlyOnHardStop
<1>5. CASE Scan
  BY <1>5 DEF Scan, ScanIdle, RetireIfIdle, ScanExit, ScanFrame, workerVars, stopVars,
              AbortInv, AbortsOnlyOnHardStop
<1>6. CASE UNCHANGED vars
  BY <1>6 DEF vars, allVars, workerVars, stopVars, AbortInv, AbortsOnlyOnHardStop
<1> QED BY <1>1, <1>2, <1>3, <1>4, <1>5, <1>6 DEF Next, Finished

\* An accepted task is aborted only by a hard stop: a graceful stop and idle
\* retirement run everything the lanes accepted.
THEOREM AbortsNeedHardStop == Spec => []AbortsOnlyOnHardStop
<1>1. ASSUME Init PROVE AbortInv
  BY <1>1 DEF Init, LifecycleInit, AbortInv, AbortsOnlyOnHardStop
<1>2. Spec => []AbortInv
  BY <1>1, NextAborts, LanesInOrder, PTL DEF Spec
<1>3. AbortInv => AbortsOnlyOnHardStop
  BY DEF AbortInv
<1> QED BY <1>2, <1>3, PTL

-----------------------------------------------------------------------------
(* One worker for a key: what the steps of a call do.                       *)

\* A call moves itself, leaves the lanes only after a stop, and comes behind a
\* barrier only by cleanupWithoutLiveLane.
LEMMA OpMoves ==
    ASSUME NEW o \in Ops, Submit(o) \/ OpStep(o) \/ Cancel(o)
    PROVE  /\ UNCHANGED <<stopped, stopping, stpc, active>>
           /\ \E x : /\ pc' = pc \/ pc' = [pc EXCEPT ![o] = x]
                     /\ x \in {"late", "off", "cleanup"} =>
                           pc[o] \in {"late", "off"} \/ stopped \/ stopping
                     /\ x = "cleanupHere" => CleanupWithoutLiveLane(o)
                     /\ x \in {"send", "blocked"} =>
                           AdmitTask(o) \/ (pc[o] = "send" /\ UNCHANGED ticket)
<1> DEFINE Goes(x) ==
        /\ pc' = pc \/ pc' = [pc EXCEPT ![o] = x]
        /\ x \in {"late", "off", "cleanup"} => pc[o] \in {"late", "off"} \/ stopped \/ stopping
        /\ x = "cleanupHere" => CleanupWithoutLiveLane(o)
        /\ x \in {"send", "blocked"} => AdmitTask(o) \/ (pc[o] = "send" /\ UNCHANGED ticket)
<1>1. CASE Submit(o) \/ Cancel(o)
  <2>1. UNCHANGED <<stopped, stopping, stpc, active>>
    BY <1>1 DEF Submit, Cancel, BeginSubmit, CancelBeforeAdmit, AbandonSend, ProducerFrame,
                stopVars, sectionVars, dynamicVars
  <2>2. \E x \in {"route", "handoff", "end", "done"} : pc' = [pc EXCEPT ![o] = x]
    BY <1>1 DEF Submit, Cancel, BeginSubmit, CancelBeforeAdmit, AbandonSend, Fail, Return
  <2>3. \E x : Goes(x)
    BY <2>2
  <2> QED BY <2>1, <2>3
<1>2. CASE /\ \/ WaitForMandatoryCleanup(o) \/ FenceProgress(o) \/ FenceStopped(o)
              \/ SendTask(o) \/ SendOnClosed(o)
              \/ AbandonSend(o, "stop") \/ EndSubmit(o) \/ EndSubmitTest(o)
           /\ UNCHANGED <<stpc, dynamicVars>>
  <2>1. UNCHANGED <<stopped, stopping, stpc, active>>
    BY <1>2 DEF WaitForMandatoryCleanup, FenceProgress, FenceStopped, SendTask, SendOnClosed,
                AbandonSend, EndSubmit, EndSubmitTest, TestStop, ProducerFrame, stopVars,
                sectionVars, dynamicVars
  <2>2. \E x \in {"admit", "fenced", "wait", "handoff", "end", "endTest", "done"} :
           pc' = pc \/ pc' = [pc EXCEPT ![o] = x]
    BY <1>2 DEF WaitForMandatoryCleanup, FenceProgress, FenceStopped, SendTask, SendOnClosed,
                AbandonSend, EndSubmit, EndSubmitTest, TestStop, LeaveSubmit, Fail, Return,
                submitVars
  <2>3. \E x : Goes(x)
    BY <2>2
  <2> QED BY <2>1, <2>3
<1>3. CASE (AdmitTask(o) \/ SendBlocks(o)) /\ UNCHANGED <<stpc, dynamicVars>>
  <2>1. UNCHANGED <<stopped, stopping, stpc, active>>
    BY <1>3 DEF AdmitTask, SendBlocks, ProducerFrame, stopVars, sectionVars, dynamicVars
  <2>2. CASE AdmitTask(o)
    <3>1. Goes("send")
      BY <2>2 DEF AdmitTask
    <3> QED BY <2>1, <3>1
  <2>3. CASE SendBlocks(o)
    <3>1. Goes("blocked")
      BY <2>3 DEF SendBlocks, ProducerFrame
    <3> QED BY <2>1, <3>1
  <2> QED BY <1>3, <2>2, <2>3
<1>4. CASE /\ \/ EnqueueCleanup(o)
              \/ EndHandoff(o, "handoff") \/ EndHandoffTest(o, "handoff")
              \/ HandoffLate(o, queues[OpKey[o]])
              \/ BeginLifecycleCleanup(o) \/ EndLifecycleCleanup(o)
           /\ UNCHANGED dynamicVars
  <2>1. UNCHANGED <<stopped, stopping, stpc, active>>
    BY <1>4 DEF EnqueueCleanup, EndHandoff, EndHandoffTest, TestStop, HandoffLate,
                BeginLifecycleCleanup, EndLifecycleCleanup, HandoffFrame, sectionVars, stopVars,
                dynamicVars
  <2>2. \/ \E x \in {"taken", "refused", "takenTest", "refusedTest", "handoff", "end", "done"} :
              pc' = [pc EXCEPT ![o] = x]
        \/ pc[o] = "late" /\ pc' = [pc EXCEPT ![o] = "off"]
        \/ pc[o] = "off" /\ pc' = [pc EXCEPT ![o] = "cleanup"]
    BY <1>4 DEF EnqueueCleanup, EndHandoff, EndHandoffTest, TestStop, HandoffLate, LeaveSubmit,
                BeginLifecycleCleanup, EndLifecycleCleanup, Return
  <2>3. \E x : Goes(x)
    BY <2>2
  <2> QED BY <2>1, <2>3
<1>5. CASE \/ SubmitRoute(o) \/ SubmitLookup(o) \/ EnterGate(o)
           \/ AwaitBarrier(o, "waitBarrier", "route")
           \/ AwaitBarrier(o, "hwaitBarrier", "handoff")
           \/ ScheduleCleanup(o) \/ CleanupLookup(o) \/ SubmitCreate(o) \/ CleanupCreate(o)
  <2>1. UNCHANGED <<stopped, stopping, stpc, active>>
    BY <1>5 DEF SubmitRoute, SubmitLookup, EnterGate, AwaitBarrier, ScheduleCleanup,
                CleanupLookup, SubmitCreate, CleanupCreate, Lookup, Create, NewLane,
                RouteFrame, stopVars, sectionVars
  <2>2. \/ \E x \in {"lookup", "waitBarrier", "gate", "create", "route", "wait", "hlookup",
                     "hwaitBarrier", "hbegin", "hcreate", "hlimit", "handoff", "end", "done"} :
              pc' = [pc EXCEPT ![o] = x]
        \/ (stopped \/ stopping) /\ pc' = [pc EXCEPT ![o] = "late"]
    BY <1>5 DEF SubmitRoute, SubmitLookup, EnterGate, AwaitBarrier, ScheduleCleanup,
                CleanupLookup, SubmitCreate, CleanupCreate, Lookup, Create, Goto, Fail, Return
  <2>3. \E x : Goes(x)
    BY <2>2
  <2> QED BY <2>1, <2>3
<1>6. CASE CleanupBegin(o) \/ CleanupWithoutLiveLane(o) \/ EndCleanupHere(o)
  <2>1. UNCHANGED <<stopped, stopping, stpc, active>>
    BY <1>6 DEF CleanupBegin, CleanupWithoutLiveLane, EndCleanupHere, HandoffFrame,
                sectionVars, stopVars, dynamicVars
  <2>2. \/ \E x \in {"enqueue", "nolane", "refused", "taken"} : pc' = [pc EXCEPT ![o] = x]
        \/ stopped /\ pc' = [pc EXCEPT ![o] = "late"]
        \/ CleanupWithoutLiveLane(o) /\ pc' = [pc EXCEPT ![o] = "cleanupHere"]
    BY <1>6 DEF CleanupBegin, CleanupWithoutLiveLane, EndCleanupHere, Goto
  <2>3. \E x : Goes(x)
    BY <2>2
  <2> QED BY <2>1, <2>3
<1>7. CASE OpStep(o)
  BY <1>2, <1>3, <1>4, <1>5, <1>6, <1>7 DEF OpStep
<1> QED BY <1>1, <1>7

-----------------------------------------------------------------------------
(* Stop signals, barriers, the active section and tickets.                  *)

\* The map and the barriers change for calls in getOrCreate and in
\* cleanupWithoutLiveLane only.
LEMMA OpBarriers ==
    ASSUME NEW o \in Ops, Submit(o) \/ OpStep(o) \/ Cancel(o)
    PROVE  /\ barrier' = barrier \/ CleanupWithoutLiveLane(o) \/ EndCleanupHere(o)
           /\ queues' = queues \/ SubmitCreate(o) \/ CleanupCreate(o)
           /\ deferred' = deferred \/ CleanupWithoutLiveLane(o) \/ BeginLifecycleCleanup(o)
           /\ admitted' = admitted \/ AdmitTask(o)
           /\ wpc' = wpc \/ SubmitCreate(o) \/ CleanupCreate(o)
           /\ ticket' = ticket \/ AdmitTask(o)
<1>1. CASE Submit(o) \/ Cancel(o)
  BY <1>1 DEF Submit, Cancel, BeginSubmit, CancelBeforeAdmit, AbandonSend, ProducerFrame,
              laneVars, workerVars, sectionVars, dynamicVars
<1>2. CASE /\ \/ WaitForMandatoryCleanup(o) \/ FenceProgress(o) \/ FenceStopped(o)
              \/ AdmitTask(o) \/ SendTask(o) \/ SendOnClosed(o) \/ SendBlocks(o)
              \/ AbandonSend(o, "stop") \/ EndSubmit(o) \/ EndSubmitTest(o)
           /\ UNCHANGED <<stpc, dynamicVars>>
  BY <1>2 DEF WaitForMandatoryCleanup, FenceProgress, FenceStopped, AdmitTask, SendTask,
              SendOnClosed, SendBlocks, AbandonSend, EndSubmit, EndSubmitTest, TestStop,
              ProducerFrame, submitVars, laneVars, workerVars, sectionVars, dynamicVars
<1>3. CASE /\ \/ EnqueueCleanup(o)
              \/ EndHandoff(o, "handoff") \/ EndHandoffTest(o, "handoff")
              \/ HandoffLate(o, queues[OpKey[o]])
              \/ BeginLifecycleCleanup(o) \/ EndLifecycleCleanup(o)
           /\ UNCHANGED dynamicVars
  BY <1>3 DEF EnqueueCleanup, EndHandoff, EndHandoffTest, TestStop, HandoffLate,
              BeginLifecycleCleanup, EndLifecycleCleanup, HandoffFrame, EnqueueMandatory,
              laneVars, workerVars, sectionVars, dynamicVars
<1>4. CASE \/ SubmitRoute(o) \/ SubmitLookup(o) \/ EnterGate(o)
           \/ AwaitBarrier(o, "waitBarrier", "route")
           \/ AwaitBarrier(o, "hwaitBarrier", "handoff")
           \/ ScheduleCleanup(o) \/ CleanupLookup(o)
  BY <1>4 DEF SubmitRoute, SubmitLookup, EnterGate, AwaitBarrier, ScheduleCleanup,
              CleanupLookup, Lookup, RouteFrame, laneVars, workerVars, sectionVars
<1>5. CASE SubmitCreate(o) \/ CleanupCreate(o)
  BY <1>5 DEF SubmitCreate, CleanupCreate, Create, NewLane, EnqueueMandatory, RouteFrame,
              laneVars, sectionVars
<1>6. CASE CleanupBegin(o) \/ CleanupWithoutLiveLane(o) \/ EndCleanupHere(o)
  BY <1>6 DEF CleanupBegin, CleanupWithoutLiveLane, EndCleanupHere, HandoffFrame, laneVars,
              workerVars, sectionVars, dynamicVars
<1>7. CASE OpStep(o)
  BY <1>2, <1>3, <1>4, <1>5, <1>6, <1>7 DEF OpStep
<1> QED BY <1>1, <1>7

\* A lane is created for a key without lane and barrier.
LEMMA CreateMap ==
    ASSUME LaneInv, NEW o \in Ops, SubmitCreate(o) \/ CleanupCreate(o)
    PROVE  \/ UNCHANGED <<laneVars, workerVars, sectionVars, queues>>
           \/ /\ queues[OpKey[o]] = NoLane /\ barrier[OpKey[o]] = NoOp
              /\ \E n \in Unborn : NewLane(n, OpKey[o])
<1>1. PICK n : n = CHOOSE u \in Unborn : TRUE
  OBVIOUS
<1>2. \/ UNCHANGED <<laneVars, workerVars, sectionVars, queues>>
      \/ /\ ~stopping /\ ~Live(OpKey[o]) /\ barrier[OpKey[o]] = NoOp
         /\ NewLane(n, OpKey[o])
  BY <1>1 DEF SubmitCreate, CleanupCreate, Create
<1> QED BY <1>1, <1>2, FreshLane, KeyOf

\* The steps of calls.
LEMMA OpKeyBase ==
    ASSUME LaneInv, KeyBase, NEW o \in Ops, Submit(o) \/ OpStep(o) \/ Cancel(o)
    PROVE  KeyBase'
<1>0. /\ BaseType /\ MapType /\ pc \in [Ops -> PcType] /\ OpKey[o] \in Keys
      /\ NoOp \notin Ops
  BY KeyOf, DynamicAssumption DEF LaneInv, BaseType, SubmitType, DynamicAssumption
<1>1. UNCHANGED <<stopped, stopping, stpc, active, spc>>
  BY OpMoves, OpFrame
<1>2. PICK x : /\ pc' = pc \/ pc' = [pc EXCEPT ![o] = x]
               /\ x \in {"late", "off", "cleanup"} =>
                     pc[o] \in {"late", "off"} \/ stopped \/ stopping
               /\ x = "cleanupHere" => CleanupWithoutLiveLane(o)
               /\ x \in {"send", "blocked"} =>
                     AdmitTask(o) \/ (pc[o] = "send" /\ UNCHANGED ticket)
  BY OpMoves
<1>3. \A p \in Ops : pc'[p] = pc[p] \/ (p = o /\ pc'[p] = x)
  BY <1>0, <1>2
<1>4. StopFirst'
  BY <1>1, <1>2, <1>3 DEF KeyBase, StopFirst
<1>5. KeyBarriers'
  <2>1. CASE CleanupWithoutLiveLane(o)
    <3>1. CASE stopping \/ Live(OpKey[o]) \/ barrier[OpKey[o]] # NoOp \/ active # NoSection
      <4>1. UNCHANGED <<barrier, queues>> /\ pc'[o] \in {"refused", "taken"}
        BY <1>0, <2>1, <3>1 DEF CleanupWithoutLiveLane, Goto
      <4>2. \A p \in Ops : pc'[p] = "cleanupHere" => pc[p] = "cleanupHere"
        BY <1>3, <4>1
      <4> QED BY <4>1, <4>2 DEF KeyBase, KeyBarriers
    <3>2. CASE /\ ~stopping /\ ~Live(OpKey[o]) /\ barrier[OpKey[o]] = NoOp
               /\ active = NoSection
      <4>1. barrier' = [barrier EXCEPT ![OpKey[o]] = o] /\ queues' = queues
        BY <2>1, <3>2 DEF CleanupWithoutLiveLane
      <4>2. queues[OpKey[o]] = NoLane
        BY <1>0, <3>2, FreshLane
      <4>3. /\ barrier'[OpKey[o]] = o
            /\ \A k \in Keys \ {OpKey[o]} : barrier'[k] = barrier[k]
        BY <1>0, <4>1 DEF MapType
      <4>4. ASSUME NEW p \in Ops, pc'[p] = "cleanupHere" PROVE barrier'[OpKey[p]] = p
        <5>1. CASE p = o
          BY <4>3, <5>1
        <5>2. CASE p # o
          <6>1. barrier[OpKey[p]] = p /\ OpKey[p] \in Keys
            BY <1>3, <4>4, <5>2, KeyOf DEF KeyBase, KeyBarriers
          <6>2. OpKey[p] # OpKey[o]
            BY <1>0, <3>2, <6>1
          <6> QED BY <4>3, <6>1, <6>2
        <5> QED BY <5>1, <5>2
      <4> QED BY <4>1, <4>2, <4>3, <4>4 DEF KeyBase, KeyBarriers
    <3> QED BY <3>1, <3>2
  <2>2. CASE EndCleanupHere(o)
    <3>1. /\ barrier' = [barrier EXCEPT ![OpKey[o]] = NoOp] /\ queues' = queues
          /\ pc[o] = "cleanupHere" /\ pc'[o] = "taken"
      BY <1>0, <2>2 DEF EndCleanupHere
    <3>2. /\ barrier'[OpKey[o]] = NoOp
          /\ \A k \in Keys \ {OpKey[o]} : barrier'[k] = barrier[k]
      BY <1>0, <3>1 DEF MapType
    <3>3. ASSUME NEW p \in Ops, pc'[p] = "cleanupHere" PROVE barrier'[OpKey[p]] = p
      <4>1. p # o /\ pc[p] = "cleanupHere"
        BY <1>3, <3>1, <3>3
      <4>2. barrier[OpKey[p]] = p /\ barrier[OpKey[o]] = o /\ OpKey[p] \in Keys
        BY <3>1, <4>1, KeyOf DEF KeyBase, KeyBarriers
      <4> QED BY <3>2, <4>1, <4>2
    <3> QED BY <3>1, <3>2, <3>3 DEF KeyBase, KeyBarriers
  <2>3. CASE SubmitCreate(o) \/ CleanupCreate(o)
    <3>1. pc[o] \in {"create", "hcreate"} /\ barrier' = barrier
      BY <2>3 DEF SubmitCreate, CleanupCreate, Create, RouteFrame
    <3>2. x = "cleanupHere" => FALSE
      BY <1>2, <3>1 DEF CleanupWithoutLiveLane
    <3>3. \A k \in Keys : barrier[k] # NoOp => queues'[k] = queues[k]
      <4>1. CASE queues' = queues
        BY <4>1
      <4>2. CASE \E n \in Unborn : barrier[OpKey[o]] = NoOp /\ NewLane(n, OpKey[o])
        BY <1>0, <4>2 DEF NewLane, MapType
      <4> QED BY <2>3, <4>1, <4>2, CreateMap
    <3> QED BY <1>3, <3>1, <3>2, <3>3 DEF KeyBase, KeyBarriers
  <2>4. CASE /\ ~CleanupWithoutLiveLane(o) /\ ~EndCleanupHere(o)
             /\ ~SubmitCreate(o) /\ ~CleanupCreate(o)
    BY <1>2, <1>3, <2>4, OpBarriers DEF KeyBase, KeyBarriers
  <2> QED BY <2>1, <2>2, <2>3, <2>4
<1>6. ActiveSection'
  <2>1. deferred' # deferred => active # NoSection
    BY OpBarriers DEF CleanupWithoutLiveLane, BeginLifecycleCleanup
  <2> QED BY <1>1, <2>1 DEF KeyBase, ActiveSection
<1>7. Tickets'
  <2>1. CASE AdmitTask(o)
    <3>1. PICK l \in Lanes : l = at[o] /\ wpc[l] # "unborn"
      BY <2>1, <1>0, NotALane DEF AdmitTask, LaneInv, Arrivals, GatePc, Mapping
    <3>2. /\ ticket' = [ticket EXCEPT ![o] = admitted[l] + 1]
          /\ admitted' = [admitted EXCEPT ![l] = @ + 1] /\ wpc' = wpc
      BY <2>1, <3>1 DEF AdmitTask, workerVars
    <3>3. admitted[l] \in Nat /\ admitted \in [Lanes -> Nat] /\ ticket \in [Ops -> Nat]
      BY <1>0 DEF BaseType, LaneType, SubmitType
    <3>4. ticket'[o] > 0 /\ \A p \in Ops \ {o} : ticket'[p] = ticket[p] /\ pc'[p] = pc[p]
      BY <1>3, <3>2, <3>3
    <3>5. \A m \in Lanes : wpc[m] = "unborn" => admitted'[m] = admitted[m]
      BY <3>1, <3>2, <3>3
    <3> QED BY <3>2, <3>4, <3>5 DEF KeyBase, Tickets
  <2>2. CASE ~AdmitTask(o)
    <3>1. UNCHANGED <<ticket, admitted>>
      BY <2>2, OpBarriers
    <3>2. \A l \in Lanes : wpc'[l] = "unborn" => wpc[l] = "unborn"
      <4>1. CASE wpc' = wpc
        BY <4>1
      <4>2. CASE SubmitCreate(o) \/ CleanupCreate(o)
        BY <1>0, <4>2, CreateMap DEF NewLane, workerVars, BaseType, WorkerType
      <4> QED BY <4>1, <4>2, OpBarriers
    <3> QED BY <1>2, <1>3, <2>2, <3>1, <3>2 DEF KeyBase, Tickets
  <2> QED BY <2>1, <2>2
<1> QED BY <1>4, <1>5, <1>6, <1>7 DEF KeyBase

\* The steps of workers.
LEMMA WorkerFramed ==
    ASSUME NEW l \in Lanes, LaneStep(l)
    PROVE  /\ UNCHANGED <<pc, ticket, admitted, stopped, stpc, spc, active, deferred,
                          dynamicVars>>
           /\ wpc[l] # "unborn"
           /\ \E x : x # "unborn" /\ wpc' = [wpc EXCEPT ![l] = x]
<1>1. UNCHANGED <<pc, ticket, admitted, stopped, stpc, spc, active, deferred, dynamicVars>>
  BY DEF LaneStep, WorkerStep, TakeMandatory, NoMandatory, Receive, Complete, TakeWake,
         SeeFence, SeeClosed, FinishWorker, ParkBarrier, LeaveBarrier, SeeQuit, IdleFrame,
         WorkerFrame, submitVars, stopVars, sectionVars
<1>2. \E x : x # "unborn" /\ wpc' = [wpc EXCEPT ![l] = x]
  BY DEF LaneStep, WorkerStep, TakeMandatory, NoMandatory, Receive, Complete, TakeWake,
         SeeFence, SeeClosed, FinishWorker, ParkBarrier, LeaveBarrier, SeeQuit
<1> QED BY <1>1, <1>2 DEF LaneStep

\* The steps of sections: the active section is the one that has the turn.
LEMMA SectionActive ==
    ASSUME BaseType, Turn, ActiveSection, NEW s \in Sections, NEW ls, NEW done,
           SectionMove(s, ls, done)
    PROVE  ActiveSection'
<1>1. PICK x : spc' = [spc EXCEPT ![s] = x] \/ spc' = spc
  BY DEF SectionMove, TakeTurn, SectionStep, BeginSection, PlaceBarrier, CollectDone,
         SectionFails, StartFn, EndFn, WithdrawExclusive, EndDeferred, ReleaseLanes,
         InstallExclusive, AwaitRunning, SectionMoves
<1>2. spc \in [Sections -> SpcType] /\ NoSection \notin Sections
  BY ConstantsAssumption DEF BaseType, SectionType, ConstantsAssumption
<1>3. \A t \in Sections \ {s} : spc'[t] = spc[t]
  BY <1>1, <1>2
<1>4. CASE InstallExclusive(s, ls)
  <2>1. active' = s /\ spc'[s] = "running" /\ spc[s] = "install"
    BY <1>2, <1>4 DEF InstallExclusive
  <2>2. \A t \in Sections \ {s} : spc[t] \in {"idle", "ended"}
    BY <2>1 DEF Turn
  <2> QED BY <1>2, <1>3, <2>1, <2>2 DEF ActiveSection, ActivePc
<1>5. CASE WithdrawExclusive(s)
  <2>1. CASE deferred = <<>>
    <3>1. active' = NoSection /\ deferred' = deferred /\ spc'[s] = "release" /\ spc[s] = "drain"
      BY <1>2, <1>5, <2>1 DEF WithdrawExclusive
    <3>2. \A t \in Sections \ {s} : spc[t] \in {"idle", "ended"}
      BY <3>1 DEF Turn
    <3> QED BY <1>2, <1>3, <2>1, <3>1, <3>2 DEF ActiveSection, ActivePc
  <2>2. CASE deferred # <<>>
    <3>1. active' = active /\ deferred' = deferred /\ spc'[s] = "releasing" /\ spc[s] = "drain"
      BY <1>2, <1>5, <2>2 DEF WithdrawExclusive
    <3> QED BY <1>3, <3>1 DEF ActiveSection, ActivePc
  <2> QED BY <2>1, <2>2
<1>6. CASE EndDeferred(s)
  <2>1. active' = active /\ spc'[s] = "drain" /\ spc[s] = "releasing"
    BY <1>2, <1>6 DEF EndDeferred
  <2>2. active # NoSection
    BY <1>2, <2>1 DEF ActiveSection, ActivePc
  <2> QED BY <1>3, <2>1, <2>2 DEF ActiveSection, ActivePc
<1>7. CASE \/ TakeTurn(s) \/ SectionFails(s, "ctx") \/ AwaitRunning(s, done)
           \/ BeginSection(s) \/ PlaceBarrier(s) \/ CollectDone(s)
           \/ SectionFails(s, "stop") \/ SectionFails(s, "abort")
           \/ StartFn(s) \/ EndFn(s) \/ ReleaseLanes(s)
  <2>1. UNCHANGED <<active, deferred>>
    BY <1>7 DEF TakeTurn, BeginSection, PlaceBarrier, CollectDone, SectionFails, StartFn,
                EndFn, ReleaseLanes, AwaitRunning, SectionMoves
  <2>2. \/ spc'[s] \in ActivePc /\ spc[s] \in ActivePc
        \/ spc'[s] \notin ActivePc /\ spc[s] \notin ActivePc
    BY <1>2, <1>7 DEF TakeTurn, BeginSection, PlaceBarrier, CollectDone, SectionFails, StartFn,
                      EndFn, ReleaseLanes, AwaitRunning, SectionMoves, ActivePc
  <2> QED BY <1>3, <2>1, <2>2 DEF ActiveSection
<1> QED BY <1>4, <1>5, <1>6, <1>7 DEF SectionMove, SectionStep

\* The steps of stop calls.
LEMMA StopSignals ==
    ASSUME BaseType, StopFirst, NEW x \in Stoppers,
           \/ BeginStop(x) \/ StopRuns(x)
           \/ StopTimeout(x) /\ UNCHANGED dynamicVars
    PROVE  /\ StopFirst'
           /\ UNCHANGED <<pc, ticket, admitted, backlog, settled, wpc, cur, spc, active,
                          deferred, queues, barrier>>
           /\ stopped => stopped'
<1>1. /\ UNCHANGED <<pc, ticket, admitted, backlog, settled, wpc, cur, spc, active, deferred,
                     queues, barrier>>
      /\ stopped => stopped'
  BY DEF BeginStop, StopRuns, StopTimeout, StopStep, AwaitScan, MarkStopping, CloseLanes,
         SignalHardStop, SignalStop, WaitInFlightSubmits, WaitWorkers, WaitSections,
         FinishLifecycleCleanups, StopMoves, StopFrame, submitVars, laneVars, workerVars,
         sectionVars, mapVars, dynamicVars
<1>2. stpc \in [Stoppers -> StpcType]
  BY DEF BaseType, StopType
<1>3. stopping' => stopping \/ MarkStopping(x)
  BY DEF BeginStop, StopRuns, StopTimeout, AwaitScan, MarkStopping, CloseLanes, mapVars,
         dynamicVars
<1>4. stopping' => stopped'
  BY <1>1, <1>3 DEF StopFirst, MarkStopping
<1>5. \/ stpc' = stpc
      \/ stpc' = [stpc EXCEPT ![x] = "fence"] /\ stopped'
      \/ /\ stpc[x] \in {"fence", "close", "closing", "workers", "sections", "cleanups"}
         /\ \E y : stpc' = [stpc EXCEPT ![x] = y]
      \/ \E y \in {"idle", "scan", "begin", "signal"} : stpc' = [stpc EXCEPT ![x] = y]
  BY DEF BeginStop, StopRuns, StopTimeout, StopStep, AwaitScan, MarkStopping, CloseLanes,
         SignalHardStop, SignalStop, WaitInFlightSubmits, WaitWorkers, WaitSections,
         FinishLifecycleCleanups, StopMoves
<1>6. \A y \in Stoppers :
         stpc'[y] \in {"fence", "close", "closing", "workers", "sections", "cleanups",
                       "returned"} => stopped'
  BY <1>1, <1>2, <1>5 DEF StopFirst
<1> QED BY <1>1, <1>4, <1>6 DEF StopFirst

\* Steps that leave calls, lanes, sections, barriers and the map alone.
LEMMA KeyBaseKept ==
    ASSUME KeyBase, StopFirst',
           UNCHANGED <<pc, ticket, admitted, spc, active, deferred, barrier>>,
           \A l \in Lanes : wpc'[l] = "unborn" => wpc[l] = "unborn",
           \A k \in Keys : queues'[k] = queues[k] \/ queues'[k] = NoLane
    PROVE  KeyBase'
<1>1. KeyBarriers'
  BY DEF KeyBase, KeyBarriers
<1>2. ActiveSection'
  BY DEF KeyBase, ActiveSection
<1>3. Tickets'
  BY DEF KeyBase, Tickets
<1> QED BY <1>1, <1>2, <1>3 DEF KeyBase

\* The steps of sections.
LEMMA SectionKeyBase ==
    ASSUME LaneInv, Turn, KeyBase, NEW s \in Sections, NEW ls, NEW done,
           SectionMove(s, ls, done), UNCHANGED dynamicVars
    PROVE  KeyBase'
<1>1. UNCHANGED <<pc, ticket, wpc, stopped, stpc>>
  BY SectionFramed DEF SectionFrame, submitVars, workerVars, stopVars
<1>2. UNCHANGED admitted
  <2>1. CASE PlaceBarrier(s)
    BY <2>1 DEF PlaceBarrier, EnqueueMandatory, laneVars
  <2>2. CASE ~PlaceBarrier(s)
    BY <2>2, SectionLanes DEF laneVars
  <2> QED BY <2>1, <2>2
<1>3. ActiveSection'
  BY SectionActive DEF LaneInv, KeyBase
<1>4. StopFirst' /\ KeyBarriers' /\ Tickets'
  BY <1>1, <1>2 DEF KeyBase, StopFirst, KeyBarriers, Tickets, dynamicVars
<1> QED BY <1>3, <1>4 DEF KeyBase

\* The scan goroutine and steps that change nothing.
LEMMA ScanMap ==
    ASSUME LaneInv, Scan
    PROVE  /\ UNCHANGED <<submitVars, workerVars, stopVars, sectionVars, stpc, stopping,
                          barrier>>
           /\ UNCHANGED <<backlog, admitted, settled>>
           /\ \A k \in Keys : \/ queues'[k] = queues[k]
                              \/ queues'[k] = NoLane /\ active = NoSection
<1>1. /\ UNCHANGED <<submitVars, workerVars, stopVars, sectionVars, stpc, stopping, barrier>>
      /\ UNCHANGED <<backlog, admitted, settled>>
  BY DEF Scan, ScanIdle, RetireIfIdle, ScanExit, ScanFrame, laneVars
<1>2. CASE ScanIdle \/ ScanExit
  BY <1>1, <1>2 DEF ScanIdle, ScanExit
<1>3. CASE RetireIfIdle
  <2>1. \/ queues' = queues
        \/ \E c \in candidates : /\ queues' = [queues EXCEPT ![c[1]] = NoLane]
                                 /\ active = NoSection
    BY <1>3 DEF RetireIfIdle, MayRetire
  <2>2. queues \in [Keys -> Lanes \cup {NoLane}]
    BY DEF LaneInv, MapType
  <2> QED BY <1>1, <2>1, <2>2
<1> QED BY <1>1, <1>2, <1>3 DEF Scan

\* Every step.
LEMMA NextKeyBase ==
    ASSUME LaneOrder, KeyBase, [Next]_vars
    PROVE  KeyBase'
<1>0. BaseType /\ LaneInv /\ Turn /\ MapType /\ wpc \in [Lanes -> WpcType]
  BY DEF LaneOrder, LaneInv, BaseType, WorkerType
<1>1. ASSUME NEW o \in Ops, Submit(o) \/ OpStep(o) \/ Cancel(o) PROVE KeyBase'
  BY <1>0, <1>1, OpKeyBase
<1>2. ASSUME NEW l \in Lanes, LaneStep(l) PROVE KeyBase'
  <2>1. PICK x : x # "unborn" /\ wpc' = [wpc EXCEPT ![l] = x]
    BY <1>2, WorkerFramed
  <2>2. UNCHANGED <<pc, ticket, admitted, stopped, stpc, spc, active, deferred, dynamicVars>>
    BY <1>2, WorkerFramed
  <2>3. \A m \in Lanes : wpc'[m] = "unborn" => wpc[m] = "unborn"
    BY <1>0, <2>1
  <2>4. StopFirst'
    BY <2>2 DEF KeyBase, StopFirst, dynamicVars
  <2> QED BY <2>2, <2>3, <2>4, KeyBaseKept DEF dynamicVars
<1>3. ASSUME NEW s \in Sections,
             \/ (TakeTurn(s) \/ SectionFails(s, "ctx")) /\ UNCHANGED dynamicVars
             \/ SectionRuns(s)
      PROVE  KeyBase'
  <2>1. PICK done : done = \A k \in Keys : barrier[k] = NoOp
    OBVIOUS
  <2>2. SectionMove(s, LivingLanes, done) /\ UNCHANGED dynamicVars
    BY <1>3, <2>1, SectionSteps
  <2> QED BY <1>0, <2>2, SectionKeyBase
<1>4. ASSUME NEW x \in Stoppers,
             \/ BeginStop(x) \/ StopRuns(x)
             \/ StopTimeout(x) /\ UNCHANGED dynamicVars
      PROVE  KeyBase'
  <2>1. /\ StopFirst'
        /\ UNCHANGED <<pc, ticket, admitted, wpc, spc, active, deferred, queues, barrier>>
    BY <1>0, <1>4, StopSignals DEF KeyBase
  <2> QED BY <2>1, KeyBaseKept
<1>5. CASE Scan
  <2>1. UNCHANGED <<pc, ticket, admitted, stopped, stpc, spc, active, deferred, wpc, stopping,
                    barrier>>
    BY <1>0, <1>5, ScanMap DEF submitVars, workerVars, stopVars, sectionVars
  <2>2. \A k \in Keys : queues'[k] = queues[k] \/ queues'[k] = NoLane
    BY <1>0, <1>5, ScanMap
  <2>3. StopFirst'
    BY <2>1 DEF KeyBase, StopFirst
  <2> QED BY <2>1, <2>2, <2>3, KeyBaseKept
<1>6. CASE UNCHANGED vars
  <2>1. UNCHANGED <<pc, ticket, admitted, stopped, stpc, spc, active, deferred, wpc, stopping,
                    barrier, queues>>
    BY <1>6 DEF vars, allVars, dynamicVars, submitVars, laneVars, workerVars, stopVars,
                sectionVars
  <2>2. StopFirst'
    BY <2>1 DEF KeyBase, StopFirst
  <2> QED BY <2>1, <2>2, KeyBaseKept
<1> QED BY <1>1, <1>2, <1>3, <1>4, <1>5, <1>6 DEF Next, Finished

-----------------------------------------------------------------------------
(* The key of a postponed release.                                          *)

\* A worker that waits for the section goes on waiting whatever is queued.
LEMMA FencedKept ==
    ASSUME BaseType, NEW l \in Lanes, Fenced(l), UNCHANGED active,
           wpc'[l] = wpc[l], cur'[l] = cur[l], settled'[l] = settled[l],
           backlog'[l] = backlog[l] \/ \E e : backlog'[l] = Append(backlog[l], e)
    PROVE  Fenced(l)'
<1>1. CASE wpc[l] \in {"barrier", "held"} /\ cur[l].op = active
  BY <1>1 DEF Fenced
<1>2. CASE wpc[l] = "poll" /\ backlog[l] # <<>>
  <2>1. backlog[l] \in Seq(EntryType)
    BY DEF BaseType, LaneType
  <2>2. backlog'[l] # <<>> /\ backlog'[l][1] = backlog[l][1]
    <3>1. CASE backlog'[l] = backlog[l]
      BY <1>2, <3>1
    <3>2. ASSUME NEW e, backlog'[l] = Append(backlog[l], e)
          PROVE  backlog'[l] # <<>> /\ backlog'[l][1] = backlog[l][1]
      BY <1>2, <2>1, <3>2
    <3> QED BY <3>1, <3>2
  <2> QED BY <1>2, <2>2 DEF Fenced
<1> QED BY <1>1, <1>2 DEF Fenced

\* A key is left alone as long as its lane waits.
LEMMA LeftKept ==
    ASSUME MapType, NEW k \in Keys, LeftAlone(k), barrier'[k] \in {barrier[k], NoOp},
           queues'[k] = queues[k] \/ queues'[k] = NoLane,
           \A l \in Lanes : queues[k] = l /\ Fenced(l) => Fenced(l)'
    PROVE  LeftAlone(k)'
<1>1. barrier'[k] = NoOp
  BY DEF LeftAlone
<1>2. ASSUME queues'[k] # NoLane PROVE Fenced(queues[k])'
  <2>1. PICK l \in Lanes : queues'[k] = l /\ queues[k] = l
    BY <1>2 DEF MapType
  <2>2. Fenced(l)'
    BY <1>2, <2>1 DEF LeftAlone
  <2> QED BY <2>1, <2>2 DEF Fenced
<1> QED BY <1>1, <1>2 DEF LeftAlone

\* What a call does to a lane that runs: it appends to the backlog, or it
\* gives up a send.
LEMMA OpBacklogs ==
    ASSUME BaseType, NEW o \in Ops, Submit(o) \/ OpStep(o) \/ Cancel(o),
           ~AbandonSend(o, "ctx"), ~AbandonSend(o, "stop")
    PROVE  /\ UNCHANGED <<cur, settled>>
           /\ \A l \in Lanes : \/ backlog'[l] = backlog[l]
                               \/ \E e : backlog'[l] = Append(backlog[l], e)
<1> DEFINE Grows == \/ backlog' = backlog
                    \/ \E n, e : backlog' = [backlog EXCEPT ![n] = Append(@, e)]
<1>0. backlog \in [Lanes -> Seq(EntryType)]
  BY DEF BaseType, LaneType
<1>1. CASE Submit(o) \/ Cancel(o)
  BY <1>1 DEF Submit, Cancel, BeginSubmit, CancelBeforeAdmit, ProducerFrame, laneVars,
              workerVars
<1>2. CASE /\ \/ WaitForMandatoryCleanup(o) \/ FenceProgress(o) \/ FenceStopped(o)
              \/ AdmitTask(o) \/ SendTask(o) \/ SendOnClosed(o) \/ SendBlocks(o)
              \/ EndSubmit(o) \/ EndSubmitTest(o)
           /\ UNCHANGED <<stpc, dynamicVars>>
  BY <1>2 DEF WaitForMandatoryCleanup, FenceProgress, FenceStopped, AdmitTask, SendTask,
              SendOnClosed, SendBlocks, EndSubmit, EndSubmitTest, TestStop, ProducerFrame,
              laneVars, workerVars
<1>3. CASE /\ \/ EnqueueCleanup(o)
              \/ EndHandoff(o, "handoff") \/ EndHandoffTest(o, "handoff")
              \/ HandoffLate(o, queues[OpKey[o]])
              \/ BeginLifecycleCleanup(o) \/ EndLifecycleCleanup(o)
           /\ UNCHANGED dynamicVars
  <2>1. UNCHANGED <<cur, settled>> /\ Grows
    BY <1>3 DEF EnqueueCleanup, EndHandoff, EndHandoffTest, TestStop, HandoffLate,
                BeginLifecycleCleanup, EndLifecycleCleanup, HandoffFrame, EnqueueMandatory,
                laneVars, workerVars
  <2> QED BY <1>0, <2>1
<1>4. CASE \/ SubmitRoute(o) \/ SubmitLookup(o) \/ EnterGate(o)
           \/ AwaitBarrier(o, "waitBarrier", "route")
           \/ AwaitBarrier(o, "hwaitBarrier", "handoff")
           \/ ScheduleCleanup(o) \/ CleanupLookup(o)
  BY <1>4 DEF SubmitRoute, SubmitLookup, EnterGate, AwaitBarrier, ScheduleCleanup,
              CleanupLookup, Lookup, RouteFrame, laneVars, workerVars
<1>5. CASE SubmitCreate(o) \/ CleanupCreate(o)
  <2>1. PICK n : n = CHOOSE u \in Unborn : TRUE
    OBVIOUS
  <2>2. \/ UNCHANGED <<laneVars, workerVars, sectionVars, queues>>
        \/ NewLane(n, OpKey[o])
    BY <1>5, <2>1 DEF SubmitCreate, CleanupCreate, Create
  <2>3. CASE UNCHANGED <<laneVars, workerVars, sectionVars, queues>>
    BY <2>3 DEF laneVars, workerVars
  <2>4. CASE NewLane(n, OpKey[o])
    <3>1. UNCHANGED <<cur, settled>>
      BY <2>4 DEF NewLane, EnqueueMandatory, laneVars
    <3>2. \/ backlog' = backlog
          \/ backlog' = [backlog EXCEPT ![n] = Append(@, Entry("barrier", active, n, FALSE))]
      BY <2>4 DEF NewLane, EnqueueMandatory, laneVars
    <3> QED BY <1>0, <3>1, <3>2
  <2> QED BY <2>2, <2>3, <2>4
<1>6. CASE CleanupBegin(o) \/ CleanupWithoutLiveLane(o) \/ EndCleanupHere(o)
  BY <1>6 DEF CleanupBegin, CleanupWithoutLiveLane, EndCleanupHere, HandoffFrame, laneVars,
              workerVars
<1>7. CASE OpStep(o)
  BY <1>2, <1>3, <1>4, <1>5, <1>6, <1>7 DEF OpStep
<1> QED BY <1>1, <1>7

\* A send that is given up settles its admission, and the barrier of a new lane
\* takes it along.
LEMMA AbandonFenced ==
    ASSUME LaneInv, KeyBase, NEW o \in Ops, NEW r, AbandonSend(o, r), NEW l \in Lanes,
           Fenced(l)
    PROVE  Fenced(l)'
<1>0. BaseType
  BY DEF LaneInv
<1>1. pc[o] = "blocked" /\ at[o] \in Lanes /\ ticket[o] > 0 /\ ticket[o] \in Nat
  BY DEF AbandonSend, LaneInv, Arrivals, GatePc, KeyBase, Tickets, BaseType, SubmitType
<1>2. PICK n \in Lanes : n = at[o]
  BY <1>1
<1>3. /\ settled' = [settled EXCEPT ![n] = @ + 1]
      /\ backlog' = [backlog EXCEPT ![n] = RaiseTargets(@, ticket[o])]
      /\ UNCHANGED <<wpc, cur, active>>
  BY <1>2 DEF AbandonSend, UnmarkSent, workerVars, sectionVars
<1>4. /\ settled \in [Lanes -> Nat] /\ backlog \in [Lanes -> Seq(EntryType)]
      /\ settled[l] \in Nat /\ backlog[l] \in Seq(EntryType)
  BY <1>0 DEF BaseType, LaneType
<1>5. CASE l # n
  <2>1. settled'[l] = settled[l] /\ backlog'[l] = backlog[l]
    BY <1>3, <1>4, <1>5
  <2> QED BY <1>0, <1>3, <2>1, FencedKept
<1>6. CASE l = n /\ wpc[l] \in {"barrier", "held"} /\ cur[l].op = active
  BY <1>3, <1>6 DEF Fenced
<1>7. CASE l = n /\ wpc[l] = "poll" /\ backlog[l] # <<>>
  <2> DEFINE e == backlog[l][1]
  <2>1. e.kind = "barrier" /\ e.op = active /\ ~e.wsf /\ e.cutoff = 0 /\ e.target <= settled[l]
    BY <1>7 DEF Fenced
  <2>2. 1 \in DOMAIN backlog[l] /\ e \in EntryType
    BY <1>4, <1>7
  <2>3. backlog'[l] = RaiseTargets(backlog[l], ticket[o]) /\ settled'[l] = settled[l] + 1
    BY <1>3, <1>4, <1>7
  <2>4. DOMAIN backlog'[l] = DOMAIN backlog[l]
    BY <2>3 DEF RaiseTargets
  <2>5. backlog'[l] # <<>>
    BY <2>2, <2>4
  <2>6. backlog'[l][1] = [e EXCEPT !.target = @ + 1]
    BY <1>1, <2>1, <2>2, <2>3 DEF RaiseTargets
  <2>7. e.target \in Nat /\ e.cutoff \in Nat
    BY <2>2 DEF EntryType
  <2>8. /\ backlog'[l][1].kind = "barrier" /\ backlog'[l][1].op = active
        /\ ~backlog'[l][1].wsf /\ backlog'[l][1].cutoff = 0
        /\ backlog'[l][1].target = e.target + 1
    BY <2>1, <2>2, <2>6 DEF EntryType
  <2>9. backlog'[l][1].target <= settled'[l]
    <3>1. PICK a \in Nat, b \in Nat : a = e.target /\ b = settled[l]
      BY <1>4, <2>7
    <3>2. a <= b /\ backlog'[l][1].target = a + 1 /\ settled'[l] = b + 1
      BY <2>1, <2>3, <2>8, <3>1
    <3>3. a + 1 <= b + 1
      BY <3>2
    <3> QED BY <3>2, <3>3
  <2> QED BY <1>3, <1>7, <2>5, <2>8, <2>9 DEF Fenced
<1> QED BY <1>5, <1>6, <1>7 DEF Fenced

\* A lane created during a section begins with the section's barrier.
LEMMA NewLaneFenced ==
    ASSUME LaneInv, KeyBase, NEW k \in Keys, NEW n \in Unborn, NewLane(n, k),
           active # NoSection
    PROVE  Fenced(n)' /\ queues' = [queues EXCEPT ![k] = n]
<1> DEFINE e == Entry("barrier", active, n, FALSE)
<1>0. n \in Lanes /\ BaseType /\ wpc[n] = "unborn"
  BY DEF Unborn, LaneInv
<1>1. /\ queues' = [queues EXCEPT ![k] = n] /\ wpc' = [wpc EXCEPT ![n] = "poll"]
      /\ backlog' = [backlog EXCEPT ![n] = Append(@, e)]
      /\ UNCHANGED <<settled, active>>
  BY DEF NewLane, EnqueueMandatory
<1>2. backlog[n] = <<>> /\ admitted[n] = 0 /\ settled[n] \in Nat
  BY <1>0 DEF LaneInv, Untouched, KeyBase, Tickets, BaseType, LaneType
<1>3. wpc'[n] = "poll" /\ backlog'[n] = Append(<<>>, e)
  BY <1>0, <1>1, <1>2 DEF BaseType, LaneType, WorkerType
<1>4. backlog'[n] # <<>> /\ backlog'[n][1] = e
  BY <1>3
<1>5. /\ e.kind = "barrier" /\ e.op = active /\ ~e.wsf /\ e.cutoff = 0
      /\ e.target = 0
  BY <1>2 DEF Entry
<1>6. e.target <= settled'[n]
  <2>1. PICK a \in Nat : a = settled[n] /\ a = settled'[n]
    BY <1>1, <1>2
  <2>2. 0 <= a
    BY <2>1
  <2> QED BY <1>5, <2>1, <2>2
<1> QED BY <1>1, <1>3, <1>4, <1>5, <1>6 DEF Fenced

\* The steps of calls.
LEMMA OpPostponed ==
    ASSUME LaneInv, KeyBase, PostponedAlone, NEW o \in Ops,
           Submit(o) \/ OpStep(o) \/ Cancel(o)
    PROVE  PostponedAlone'
<1>0. /\ BaseType /\ MapType /\ OpKey[o] \in Keys /\ deferred \in Seq(Ops)
      /\ UNCHANGED <<stopped, active>>
  BY KeyOf, OpMoves DEF LaneInv, BaseType, SectionType
<1> SUFFICES ASSUME ~stopped, NEW k \in Keys, Postponing(k)'
             PROVE  LeftAlone(k)'
  BY <1>0 DEF PostponedAlone
<1>2. Postponing(k) => active # NoSection /\ LeftAlone(k)
  <2>1. Postponing(k) => deferred # <<>>
    BY <1>0 DEF Postponing
  <2> QED BY <2>1 DEF KeyBase, ActiveSection, PostponedAlone
<1>3. ASSUME LeftAlone(k), active # NoSection PROVE LeftAlone(k)'
  <2>1. barrier'[k] \in {barrier[k], NoOp}
    <3>1. CASE CleanupWithoutLiveLane(o)
      BY <1>3, <3>1 DEF CleanupWithoutLiveLane
    <3>2. CASE EndCleanupHere(o)
      BY <1>0, <3>2 DEF EndCleanupHere, MapType
    <3> QED BY <3>1, <3>2, OpBarriers
  <2>2. CASE AbandonSend(o, "ctx") \/ AbandonSend(o, "stop")
    <3>1. \A l \in Lanes : Fenced(l) => Fenced(l)'
      BY <2>2, AbandonFenced
    <3>2. queues' = queues
      BY <2>2, OpBarriers DEF SubmitCreate, CleanupCreate, Create, AbandonSend
    <3> QED BY <1>0, <1>3, <2>1, <3>1, <3>2, LeftKept
  <2>3. CASE ~AbandonSend(o, "ctx") /\ ~AbandonSend(o, "stop")
    <3>1. /\ UNCHANGED <<cur, settled>>
          /\ \A l \in Lanes : \/ backlog'[l] = backlog[l]
                              \/ \E e : backlog'[l] = Append(backlog[l], e)
      BY <1>0, <2>3, OpBacklogs
    <3>2. \A l \in Lanes : Fenced(l) /\ wpc'[l] = wpc[l] => Fenced(l)'
      BY <1>0, <3>1, FencedKept
    <3>3. CASE wpc' = wpc /\ queues' = queues
      BY <1>0, <1>3, <2>1, <3>2, <3>3, LeftKept
    <3>4. CASE \E n \in Unborn : NewLane(n, OpKey[o])
      <4>1. PICK n \in Unborn : NewLane(n, OpKey[o])
        BY <3>4
      <4>2. Fenced(n)' /\ queues' = [queues EXCEPT ![OpKey[o]] = n] /\ n \in Lanes
        BY <1>0, <1>3, <4>1, NewLaneFenced DEF Unborn
      <4>3. CASE k = OpKey[o]
        <5>1. queues'[k] = n
          BY <1>0, <4>2, <4>3 DEF MapType
        <5>2. barrier'[k] = NoOp
          BY <1>3, <2>1 DEF LeftAlone
        <5> QED BY <4>2, <5>1, <5>2 DEF LeftAlone, Fenced
      <4>4. CASE k # OpKey[o]
        <5>1. queues'[k] = queues[k]
          BY <1>0, <4>2, <4>4 DEF MapType
        <5>2. queues[k] # NoLane => wpc[queues[k]] # "unborn"
          BY DEF LaneInv, Mapping
        <5>3. wpc' = [wpc EXCEPT ![n] = "poll"] /\ wpc[n] = "unborn"
          BY <4>1 DEF NewLane, Unborn
        <5>4. \A l \in Lanes : queues[k] = l => wpc'[l] = wpc[l]
          BY <1>0, <5>2, <5>3, NotALane DEF BaseType, WorkerType
        <5> QED BY <1>0, <1>3, <2>1, <3>2, <5>1, <5>4, LeftKept
      <4> QED BY <4>3, <4>4
    <3>5. CASE SubmitCreate(o) \/ CleanupCreate(o)
      BY <3>3, <3>4, <3>5, CreateMap DEF workerVars
    <3> QED BY <3>3, <3>5, OpBarriers
  <2> QED BY <2>2, <2>3
<1>4. CASE deferred' = deferred
  BY <1>2, <1>3, <1>4 DEF Postponing
<1>5. CASE deferred' # deferred
  <2>1. ~BeginLifecycleCleanup(o)
    BY DEF KeyBase, StopFirst, BeginLifecycleCleanup
  <2>2. CleanupWithoutLiveLane(o)
    BY <1>5, <2>1, OpBarriers
  <2>3. /\ ~stopping /\ ~Live(OpKey[o]) /\ barrier[OpKey[o]] = NoOp /\ active # NoSection
        /\ deferred' = Append(deferred, o)
    BY <1>5, <2>2 DEF CleanupWithoutLiveLane
  <2>4. queues[OpKey[o]] = NoLane
    BY <1>0, <2>3, FreshLane
  <2>5. LeftAlone(OpKey[o])
    BY <2>3, <2>4 DEF LeftAlone
  <2>6. \A i \in DOMAIN Append(deferred, o) :
           \/ i \in DOMAIN deferred /\ Append(deferred, o)[i] = deferred[i]
           \/ Append(deferred, o)[i] = o
    BY <1>0, SeqElements
  <2>7. k = OpKey[o] \/ Postponing(k)
    BY <2>3, <2>6 DEF Postponing
  <2> QED BY <1>2, <1>3, <2>3, <2>5, <2>7
<1> QED BY <1>4, <1>5

\* A worker touches its own lane only.
LEMMA WorkerLocal ==
    ASSUME BaseType, NEW l \in Lanes, LaneStep(l), NEW m \in Lanes, m # l
    PROVE  /\ wpc'[m] = wpc[m] /\ cur'[m] = cur[m] /\ settled'[m] = settled[m]
           /\ backlog'[m] = backlog[m]
<1>0. /\ wpc \in [Lanes -> WpcType] /\ cur \in [Lanes -> EntryType]
      /\ settled \in [Lanes -> Nat] /\ backlog \in [Lanes -> Seq(EntryType)]
  BY DEF BaseType, WorkerType, LaneType
<1>1. /\ \E x : wpc' = [wpc EXCEPT ![l] = x]
      /\ cur' = cur \/ \E x : cur' = [cur EXCEPT ![l] = x]
      /\ settled' = settled \/ \E x : settled' = [settled EXCEPT ![l] = x]
  BY DEF LaneStep, WorkerStep, TakeMandatory, NoMandatory, Receive, Complete, TakeWake,
         SeeFence, SeeClosed, FinishWorker, ParkBarrier, LeaveBarrier, SeeQuit, IdleFrame
<1>2. backlog' = backlog \/ \E x : backlog' = [backlog EXCEPT ![l] = x]
  BY DEF LaneStep, WorkerStep, TakeMandatory, NoMandatory, Receive, Complete, TakeWake,
         SeeFence, SeeClosed, FinishWorker, ParkBarrier, LeaveBarrier, SeeQuit, IdleFrame
<1> QED BY <1>0, <1>1, <1>2

\* A worker that comes to the barrier of the active section stays there.
LEMMA WorkerFenced ==
    ASSUME LaneInv, KeyBase, NEW l \in Lanes, LaneStep(l), Fenced(l), active # NoSection
    PROVE  Fenced(l)'
<1>0. /\ BaseType /\ UNCHANGED active /\ active \in Sections
      /\ wpc \in [Lanes -> WpcType] /\ cur \in [Lanes -> EntryType]
  BY WorkerFramed DEF LaneInv, BaseType, SectionType, WorkerType
<1>1. CASE wpc[l] = "poll" /\ backlog[l] # <<>>
  <2> DEFINE e == backlog[l][1]
  <2>1. backlog[l] \in Seq(EntryType) /\ settled[l] \in Nat
    BY <1>0 DEF BaseType, LaneType
  <2>2. e.kind = "barrier" /\ e.op = active /\ ~e.wsf /\ e.target <= settled[l]
    BY <1>1 DEF Fenced
  <2>3. Head(backlog[l]) = e
    BY <1>1, <2>1
  <2>4. Head1(l) = e /\ ~WaitsFence(l)
    BY <2>2, <2>3 DEF Head1, WaitsFence
  <2>5. e.target \in Nat
    <3>1. e \in EntryType
      BY <1>1, <2>1
    <3> QED BY <3>1 DEF EntryType
  <2>6. settled[l] >= e.target
    <3>1. PICK a \in Nat, b \in Nat : a = e.target /\ b = settled[l]
      BY <2>1, <2>5
    <3> QED BY <2>2, <3>1
  <2>7. MandatoryReady(l)
    BY <1>1, <2>4, <2>6 DEF MandatoryReady
  <2>8. TakeMandatory(l)
    BY <1>1, <2>7 DEF LaneStep, WorkerStep, NoMandatory, Receive, Complete, TakeWake, SeeFence,
                      SeeClosed, FinishWorker, ParkBarrier, LeaveBarrier, SeeQuit
  <2>9. cur'[l] = e /\ wpc'[l] \in {"barrier", "held"}
    BY <1>0, <2>2, <2>4, <2>8 DEF TakeMandatory
  <2> QED BY <1>0, <2>2, <2>9 DEF Fenced
<1>2. CASE wpc[l] \in {"barrier", "held"} /\ cur[l].op = active
  <2>1. spc[active] \in ActivePc
    BY <1>0 DEF KeyBase, ActiveSection
  <2>2. spc[active] # "ended"
    BY <2>1 DEF ActivePc
  <2>3. ParkBarrier(l)
    BY <1>2, <2>2 DEF LaneStep, WorkerStep, TakeMandatory, NoMandatory, Receive, Complete,
                      TakeWake, SeeFence, SeeClosed, FinishWorker, LeaveBarrier, SeeQuit
  <2>4. cur' = cur /\ wpc'[l] = "held"
    BY <1>0, <2>3 DEF ParkBarrier
  <2> QED BY <1>0, <1>2, <2>4 DEF Fenced
<1> QED BY <1>1, <1>2 DEF Fenced

\* The steps of workers.
LEMMA WorkerPostponed ==
    ASSUME LaneInv, KeyBase, PostponedAlone, NEW l \in Lanes, LaneStep(l)
    PROVE  PostponedAlone'
<1>0. /\ BaseType /\ MapType /\ deferred \in Seq(Ops)
      /\ UNCHANGED <<stopped, active, deferred, queues, barrier>>
  BY WorkerFramed DEF LaneInv, BaseType, SectionType, dynamicVars
<1> SUFFICES ASSUME ~stopped, NEW k \in Keys, Postponing(k)
             PROVE  LeftAlone(k)'
  BY <1>0 DEF PostponedAlone, Postponing
<1>1. active # NoSection /\ LeftAlone(k)
  <2>1. deferred # <<>>
    BY <1>0 DEF Postponing
  <2> QED BY <2>1 DEF KeyBase, ActiveSection, PostponedAlone
<1>2. ASSUME NEW m \in Lanes, Fenced(m) PROVE Fenced(m)'
  <2>1. CASE m = l
    BY <1>1, <1>2, <2>1, WorkerFenced
  <2>2. CASE m # l
    BY <1>0, <1>2, <2>2, WorkerLocal, FencedKept
  <2> QED BY <2>1, <2>2
<1> QED BY <1>0, <1>1, <1>2, LeftKept

\* The steps of sections.  A section is installed and withdrawn with nothing
\* postponed.
LEMMA SectionPostponed ==
    ASSUME LaneInv, Turn, KeyBase, PostponedAlone, NEW s \in Sections, NEW ls, NEW done,
           SectionMove(s, ls, done), UNCHANGED dynamicVars
    PROVE  PostponedAlone'
<1>0. /\ BaseType /\ MapType /\ deferred \in Seq(Ops) /\ spc \in [Sections -> SpcType]
      /\ active \in Sections \cup {NoSection} /\ backlog \in [Lanes -> Seq(EntryType)]
      /\ UNCHANGED <<stopped, wpc, cur, queues, barrier>>
  BY SectionFramed DEF LaneInv, BaseType, SectionType, LaneType, SectionFrame, stopVars,
                       workerVars, dynamicVars
<1> SUFFICES ASSUME ~stopped, NEW k \in Keys, Postponing(k)'
             PROVE  LeftAlone(k)'
  BY <1>0 DEF PostponedAlone
<1>1. Postponing(k) => active # NoSection /\ LeftAlone(k)
  <2>1. Postponing(k) => deferred # <<>>
    BY <1>0 DEF Postponing
  <2> QED BY <2>1 DEF KeyBase, ActiveSection, PostponedAlone
<1>2. Postponing(k)
  <2>1. CASE EndDeferred(s)
    <3>1. deferred # <<>> /\ deferred' = Tail(deferred)
      BY <2>1 DEF EndDeferred, Turn
    <3>2. \A i \in DOMAIN Tail(deferred) :
             i + 1 \in DOMAIN deferred /\ Tail(deferred)[i] = deferred[i + 1]
      BY <1>0, <3>1, SeqElements
    <3> QED BY <3>1, <3>2 DEF Postponing
  <2>2. CASE ~EndDeferred(s)
    <3>1. deferred' = deferred
      BY <2>2 DEF SectionMove, TakeTurn, SectionStep, SectionFails, InstallExclusive,
         AwaitRunning, BeginSection, PlaceBarrier, CollectDone, StartFn, EndFn,
         WithdrawExclusive, ReleaseLanes, SectionMoves
    <3> QED BY <3>1 DEF Postponing
  <2> QED BY <2>1, <2>2
<1>3. UNCHANGED active
  <2>1. CASE InstallExclusive(s, ls)
    <3>1. spc[s] = "install" /\ active \in Sections
      BY <1>0, <1>1, <1>2, <2>1 DEF InstallExclusive
    <3>2. spc[active] \in ActivePc
      BY <3>1 DEF KeyBase, ActiveSection
    <3>3. active = s
      BY <3>1, <3>2 DEF Turn, ActivePc
    <3> QED BY <3>1, <3>2, <3>3 DEF ActivePc
  <2>2. CASE WithdrawExclusive(s)
    <3>1. deferred # <<>>
      BY <1>0, <1>2 DEF Postponing
    <3> QED BY <2>2, <3>1 DEF WithdrawExclusive
  <2>3. CASE ~InstallExclusive(s, ls) /\ ~WithdrawExclusive(s)
    BY <2>3 DEF SectionMove, TakeTurn, SectionStep, SectionFails, AwaitRunning, BeginSection,
       PlaceBarrier, CollectDone, StartFn, EndFn, EndDeferred, ReleaseLanes, SectionMoves
  <2> QED BY <2>1, <2>2, <2>3
<1>4. /\ UNCHANGED settled
      /\ \/ backlog' = backlog
         \/ \E n, e : backlog' = [backlog EXCEPT ![n] = Append(@, e)]
  <2>1. CASE PlaceBarrier(s)
    BY <2>1 DEF PlaceBarrier, EnqueueMandatory, laneVars
  <2>2. CASE ~PlaceBarrier(s)
    BY <2>2, SectionLanes DEF laneVars
  <2> QED BY <2>1, <2>2
<1>5. ASSUME NEW m \in Lanes, Fenced(m) PROVE Fenced(m)'
  <2>1. backlog'[m] = backlog[m] \/ \E e : backlog'[m] = Append(backlog[m], e)
    BY <1>0, <1>4
  <2> QED BY <1>0, <1>3, <1>4, <1>5, <2>1, FencedKept
<1> QED BY <1>0, <1>1, <1>2, <1>5, LeftKept

\* The inductive invariant of the keys.
KeyOrder == LaneOrder /\ KeyInv

\* Steps that leave what a postponed release needs alone.
LEMMA PostponedKept ==
    ASSUME LaneInv, KeyBase, PostponedAlone, stopped => stopped',
           UNCHANGED <<backlog, settled, wpc, cur, active, deferred, barrier>>,
           \A k \in Keys : \/ queues'[k] = queues[k]
                           \/ queues'[k] = NoLane /\ active = NoSection
    PROVE  PostponedAlone'
<1>0. BaseType /\ MapType
  BY DEF LaneInv
<1> SUFFICES ASSUME ~stopped, NEW k \in Keys, Postponing(k)
             PROVE  LeftAlone(k)'
  BY DEF PostponedAlone, Postponing
<1>1. \A l \in Lanes : Fenced(l) => Fenced(l)'
  BY <1>0, FencedKept
<1> QED BY <1>0, <1>1, LeftKept DEF PostponedAlone

\* Every step.
LEMMA NextKeys ==
    ASSUME KeyOrder, [Next]_vars
    PROVE  KeyOrder'
<1>0. BaseType /\ LaneInv /\ Turn /\ KeyBase /\ PostponedAlone /\ LaneOrder
  BY DEF KeyOrder, KeyInv, LaneOrder, LaneInv
<1>1. ASSUME NEW o \in Ops, Submit(o) \/ OpStep(o) \/ Cancel(o) PROVE PostponedAlone'
  BY <1>0, <1>1, OpPostponed
<1>2. ASSUME NEW l \in Lanes, LaneStep(l) PROVE PostponedAlone'
  BY <1>0, <1>2, WorkerPostponed
<1>3. ASSUME NEW s \in Sections,
             \/ (TakeTurn(s) \/ SectionFails(s, "ctx")) /\ UNCHANGED dynamicVars
             \/ SectionRuns(s)
      PROVE  PostponedAlone'
  <2>1. PICK done : done = \A k \in Keys : barrier[k] = NoOp
    OBVIOUS
  <2>2. SectionMove(s, LivingLanes, done) /\ UNCHANGED dynamicVars
    BY <1>3, <2>1, SectionSteps
  <2> QED BY <1>0, <2>2, SectionPostponed
<1>4. ASSUME NEW x \in Stoppers,
             \/ BeginStop(x) \/ StopRuns(x)
             \/ StopTimeout(x) /\ UNCHANGED dynamicVars
      PROVE  PostponedAlone'
  <2>1. /\ UNCHANGED <<backlog, settled, wpc, cur, active, deferred, queues, barrier>>
        /\ stopped => stopped'
    BY <1>0, <1>4, StopSignals DEF KeyBase
  <2> QED BY <1>0, <2>1, PostponedKept
<1>5. ASSUME Scan PROVE PostponedAlone'
  <2>1. /\ UNCHANGED <<backlog, settled, wpc, cur, active, deferred, barrier, stopped>>
        /\ \A k \in Keys : \/ queues'[k] = queues[k]
                           \/ queues'[k] = NoLane /\ active = NoSection
    BY <1>0, <1>5, ScanMap DEF workerVars, sectionVars, stopVars
  <2>2. stopped => stopped'
    BY <2>1
  <2> QED BY <1>0, <2>1, <2>2, PostponedKept
<1>6. ASSUME UNCHANGED vars PROVE PostponedAlone'
  <2>1. UNCHANGED <<backlog, settled, wpc, cur, active, deferred, barrier, stopped, queues>>
    BY <1>6 DEF vars, allVars, dynamicVars, laneVars, workerVars, stopVars, sectionVars
  <2>2. stopped => stopped'
    BY <2>1
  <2> QED BY <1>0, <2>1, <2>2, PostponedKept
<1>7. PostponedAlone'
  BY <1>1, <1>2, <1>3, <1>4, <1>5, <1>6 DEF Next, Finished
<1> QED BY <1>0, <1>7, NextLanes, NextKeyBase DEF KeyOrder, KeyInv

\* Initially.
LEMMA InitKeys ==
    ASSUME Init
    PROVE  KeyOrder
<1>1. StopFirst /\ Tickets
  BY DEF Init, LifecycleInit, StopFirst, Tickets
<1>2. KeyBarriers /\ PostponedAlone
  BY DEF Init, LifecycleInit, KeyBarriers, PostponedAlone, Postponing
<1>3. ActiveSection
  BY ConstantsAssumption DEF Init, LifecycleInit, ActiveSection, ActivePc, ConstantsAssumption
<1> QED BY <1>1, <1>2, <1>3, InitLanes DEF KeyOrder, KeyInv, KeyBase

\* A lane, a barrier or a section has a key for itself.
THEOREM KeysInOrder == Spec => []KeyOrder
<1>1. KeyOrder /\ [Next]_vars => KeyOrder'
  BY NextKeys
<1> QED BY <1>1, InitKeys, PTL DEF Spec

\* A set all of whose elements are equal.
LEMMA AtMostOne ==
    ASSUME NEW S, \A x, y \in S : x = y
    PROVE  Cardinality(S) <= 1
<1>1. CASE S = {}
  <2>1. Cardinality(S) = 0
    BY <1>1, FS_EmptySet
  <2> QED BY <2>1
<1>2. CASE S # {}
  <2>1. PICK x : x \in S
    BY <1>2
  <2>2. S = {x}
    BY <2>1
  <2>3. Cardinality({x}) = 1
    BY FS_Singleton
  <2> QED BY <2>2, <2>3
<1> QED BY <1>1, <1>2

\* Lanes, releases behind a barrier and, before a stop, sections with postponed
\* releases work for a key one at a time.
LEMMA OneWorker ==
    ASSUME KeyOrder
    PROVE  LanesAndBarriersAlone
<1> DEFINE Off == {o \in Ops : pc[o] = "cleanup"} \cup (IF stopped THEN Sections ELSE {})
<1> SUFFICES ASSUME NEW k \in Keys PROVE Cardinality(WorkersOf(k) \ Off) <= 1
  BY DEF LanesAndBarriersAlone
<1> DEFINE
      Lane(x) == x \in Lanes /\ wpc[x] \in {"run", "abort"} /\ queues[k] = x
      Behind(x) == x \in Ops /\ barrier[k] = x /\ queues[k] = NoLane
      Section(x) == /\ x \in Sections /\ spc[x] = "releasing" /\ barrier[k] = NoOp
                    /\ queues[k] # NoLane => wpc[queues[k]] \notin {"run", "abort"}
<1>0. LaneInv /\ Turn /\ KeyBase /\ PostponedAlone /\ NoOp \notin Ops /\ NoLane \notin Lanes
  BY DynamicAssumption, NotALane DEF KeyOrder, LaneOrder, KeyInv, DynamicAssumption
<1>1. ASSUME NEW x \in WorkersOf(k) \ Off
      PROVE  Lane(x) \/ Behind(x) \/ Section(x)
  <2>1. CASE x \in Lanes /\ Executing(x) /\ OpKey[cur[x].op] = k
    BY <1>0, <2>1 DEF Executing, LaneInv, Hands, HandFits
  <2>2. CASE x \in Ops /\ pc[x] \in {"cleanup", "cleanupHere"} /\ OpKey[x] = k
    <3>1. pc[x] = "cleanupHere"
      BY <1>1, <2>2
    <3>2. barrier[k] = x
      BY <1>0, <2>2, <3>1 DEF KeyBase, KeyBarriers
    <3>3. queues[k] = NoLane
      BY <1>0, <2>2, <3>2 DEF KeyBase, KeyBarriers
    <3> QED BY <2>2, <3>2, <3>3
  <2>3. CASE x \in Sections /\ spc[x] = "releasing" /\ OpKey[Head(deferred)] = k
    <3>1. ~stopped
      BY <1>1, <2>3
    <3>2. deferred # <<>> /\ deferred \in Seq(Ops)
      BY <1>0, <2>3 DEF Turn, LaneInv, BaseType, SectionType
    <3>3. 1 \in DOMAIN deferred /\ Head(deferred) = deferred[1]
      BY <3>2
    <3>4. Postponing(k)
      BY <2>3, <3>3 DEF Postponing
    <3>5. LeftAlone(k)
      BY <1>0, <3>1, <3>4 DEF PostponedAlone
    <3> QED BY <2>3, <3>5 DEF LeftAlone, Fenced
  <2> QED BY <1>1, <2>1, <2>2, <2>3 DEF WorkersOf
<1>2. \A x, y : Section(x) /\ Section(y) => x = y
  BY <1>0 DEF Turn
<1>3. ASSUME NEW x \in WorkersOf(k) \ Off, NEW y \in WorkersOf(k) \ Off
      PROVE  x = y
  <2>1. (Lane(x) \/ Behind(x) \/ Section(x)) /\ (Lane(y) \/ Behind(y) \/ Section(y))
    BY <1>1, <1>3
  <2>2. CASE Section(x) /\ Section(y)
    BY <1>2, <2>2
  <2>3. CASE ~(Section(x) /\ Section(y))
    BY <1>0, <2>1, <2>3
  <2> QED BY <2>2, <2>3
<1> HIDE DEF Off
<1> QED BY <1>3, AtMostOne

\* Whatever lanes come and go, the releases behind barriers and the releases
\* postponed to a section never meet a lane of their key, nor each other.
THEOREM OneWorkerPerKey == Spec => []LanesAndBarriersAlone
<1>1. KeyOrder => LanesAndBarriersAlone
  BY OneWorker
<1> QED BY <1>1, KeysInOrder, PTL

-----------------------------------------------------------------------------
(* The order of a lane.  The tickets and targets of LifecycleProofs do not   *)
(* ask how a call came to its lane; what is left is that getOrCreate moves    *)
(* calls that have no ticket out, that a new lane is accounted for before its *)
(* first call, and that the drain of a retired lane settles nothing.          *)

\* A call on its way to a lane has no send on its way.
LEMMA UnsentAway ==
    ASSUME BaseType, NEW o \in Ops, pc[o] \notin {"send", "blocked"}, NEW x, NEW n,
           pc' = pc \/ pc' = [pc EXCEPT ![o] = x], x \notin {"send", "blocked"},
           at' = at \/ at' = [at EXCEPT ![o] = n]
    PROVE  \A l \in Lanes : Unsent(l)' = Unsent(l)
<1>1. pc'[o] \notin {"send", "blocked"}
  BY DEF BaseType, SubmitType
<1>2. \A p \in Ops \ {o} : pc'[p] = pc[p] /\ at'[p] = at[p]
  BY DEF BaseType, SubmitType
<1> QED BY <1>1, <1>2 DEF Unsent

\* The steps of a submit behind its gate.
LEMMA ProducerOrder ==
    ASSUME LaneInv, OrderInv, NEW o \in Ops,
           \/ BeginSubmit(o, "route")
           \/ WaitForMandatoryCleanup(o) \/ FenceProgress(o) \/ FenceStopped(o)
           \/ CancelBeforeAdmit(o) \/ AdmitTask(o) \/ SendTask(o) \/ SendBlocks(o)
           \/ EndSubmit(o) \/ EndSubmitTest(o) \/ \E r : AbandonSend(o, r)
    PROVE  OrderInv'
<1>0. BaseType
  BY DEF LaneInv
<1>1. CASE AdmitTask(o) \/ SendTask(o) \/ \E r : AbandonSend(o, r)
  <2>1. pc[o] \in {"admit", "send", "blocked"}
    BY <1>1 DEF AdmitTask, SendTask, AbandonSend
  <2>2. PICK l \in Lanes : l = at[o]
    BY <2>1 DEF LaneInv, Arrivals, GatePc
  <2> QED BY <1>0, <1>1, <2>2, OrderAdmit, OrderSend, OrderAbandon
<1>2. CASE \/ BeginSubmit(o, "route")
           \/ WaitForMandatoryCleanup(o) \/ FenceProgress(o) \/ FenceStopped(o)
           \/ CancelBeforeAdmit(o) \/ SendBlocks(o) \/ EndSubmit(o) \/ EndSubmitTest(o)
  <2>1. UNCHANGED <<at, ticket, backlog, admitted, settled, accepted, handled, cur>>
    BY <1>2 DEF BeginSubmit, WaitForMandatoryCleanup, FenceProgress, FenceStopped,
                CancelBeforeAdmit, SendBlocks, EndSubmit, EndSubmitTest, TestStop,
                ProducerFrame, laneVars, workerVars, historyVars
  <2>2. \/ /\ pc[o] \notin {"send", "blocked"}
           /\ \E x \in {"route", "admit", "fenced", "wait", "handoff", "end", "endTest",
                        "done"} : pc' = [pc EXCEPT ![o] = x]
        \/ pc[o] = "send" /\ pc' = [pc EXCEPT ![o] = "blocked"]
    BY <1>2 DEF BeginSubmit, WaitForMandatoryCleanup, FenceProgress, FenceStopped,
                CancelBeforeAdmit, SendBlocks, EndSubmit, EndSubmitTest, TestStop,
                LeaveSubmit, Fail, Return
  <2>3. \A p \in Ops : pc'[p] \in {"send", "blocked"} <=> pc[p] \in {"send", "blocked"}
    BY <1>0, <2>2 DEF BaseType, SubmitType
  <2> QED BY <2>1, <2>3, OrderKept
<1> QED BY <1>1, <1>2

\* The steps of a handoff to a lane.
LEMMA HandoffOrder ==
    ASSUME LaneInv, OrderInv, NEW o \in Ops,
           \/ EnqueueCleanup(o)
           \/ EndHandoff(o, "handoff") \/ EndHandoffTest(o, "handoff")
           \/ HandoffLate(o, queues[OpKey[o]])
           \/ BeginLifecycleCleanup(o) \/ EndLifecycleCleanup(o)
    PROVE  OrderInv'
<1>0. BaseType
  BY DEF LaneInv
<1>1. UNCHANGED <<at, ticket, accepted, handled, cur>>
  BY DEF EnqueueCleanup, EndHandoff, EndHandoffTest, TestStop, HandoffLate,
         BeginLifecycleCleanup, EndLifecycleCleanup, HandoffFrame, workerVars, historyVars
<1>2. /\ pc[o] \notin {"send", "blocked"}
      /\ \E x \in {"taken", "refused", "takenTest", "refusedTest", "handoff", "off",
                   "cleanup", "end", "done"} : pc' = [pc EXCEPT ![o] = x]
  BY DEF EnqueueCleanup, EndHandoff, EndHandoffTest, TestStop, HandoffLate, LeaveSubmit,
         BeginLifecycleCleanup, EndLifecycleCleanup, Return
<1>3. \A p \in Ops : pc'[p] \in {"send", "blocked"} <=> pc[p] \in {"send", "blocked"}
  BY <1>0, <1>2 DEF BaseType, SubmitType
<1>4. CASE UNCHANGED laneVars
  BY <1>1, <1>3, <1>4, OrderKept DEF laneVars
<1>5. ASSUME NEW l \in Lanes, NEW w \in BOOLEAN,
             EnqueueMandatory(l, Entry("release", o, l, w))
      PROVE  OrderInv'
  BY <1>0, <1>1, <1>3, <1>5, OrderEnqueue
<1>6. CASE EnqueueCleanup(o)
  <2>1. at[o] \in Lanes
    BY <1>6 DEF EnqueueCleanup, LaneInv, Arrivals, NearPc
  <2>2. PICK l \in Lanes : l = at[o]
    BY <2>1
  <2>3. EnqueueMandatory(l, Entry("release", o, l, FALSE)) \/ UNCHANGED laneVars
    BY <1>6, <2>2 DEF EnqueueCleanup
  <2> QED BY <1>4, <1>5, <2>3
<1>7. CASE HandoffLate(o, queues[OpKey[o]])
  <2>1. PICK l \in Lanes \cup {NoLane} : l = queues[OpKey[o]]
    BY KeyOf DEF LaneInv, MapType
  <2>2. HandoffLate(o, l)
    BY <1>7, <2>1
  <2>3. \/ l # NoLane /\ EnqueueMandatory(l, Entry("release", o, l, TRUE))
        \/ UNCHANGED laneVars
    BY <2>2 DEF HandoffLate
  <2> QED BY <1>4, <1>5, <2>3
<1>8. CASE \/ EndHandoff(o, "handoff") \/ EndHandoffTest(o, "handoff")
           \/ BeginLifecycleCleanup(o) \/ EndLifecycleCleanup(o)
  <2>1. UNCHANGED laneVars
    BY <1>8 DEF EndHandoff, EndHandoffTest, TestStop, BeginLifecycleCleanup,
                EndLifecycleCleanup, HandoffFrame, laneVars
  <2> QED BY <1>4, <2>1
<1> QED BY <1>6, <1>7, <1>8

\* The steps around the map.  A lane created during a section takes the
\* section's barrier before its first call.
LEMMA RouteOrder ==
    ASSUME LaneInv, OrderInv, NEW o \in Ops,
           \/ SubmitRoute(o) \/ SubmitLookup(o) \/ SubmitCreate(o) \/ EnterGate(o)
           \/ AwaitBarrier(o, "waitBarrier", "route")
           \/ AwaitBarrier(o, "hwaitBarrier", "handoff")
           \/ ScheduleCleanup(o) \/ CleanupLookup(o) \/ CleanupCreate(o)
           \/ CleanupBegin(o) \/ CleanupWithoutLiveLane(o) \/ EndCleanupHere(o)
    PROVE  OrderInv'
<1>0. BaseType
  BY DEF LaneInv
<1>1. CASE \/ SubmitRoute(o) \/ SubmitLookup(o) \/ EnterGate(o)
           \/ AwaitBarrier(o, "waitBarrier", "route")
           \/ AwaitBarrier(o, "hwaitBarrier", "handoff")
           \/ ScheduleCleanup(o) \/ CleanupLookup(o)
           \/ CleanupBegin(o) \/ CleanupWithoutLiveLane(o) \/ EndCleanupHere(o)
  <2>1. UNCHANGED <<ticket, backlog, admitted, settled, accepted, handled, cur>>
    BY <1>1 DEF SubmitRoute, SubmitLookup, EnterGate, AwaitBarrier, ScheduleCleanup,
                CleanupLookup, Lookup, CleanupBegin, CleanupWithoutLiveLane, EndCleanupHere,
                RouteFrame, HandoffFrame, laneVars, workerVars, historyVars
  <2>2. pc[o] \notin {"send", "blocked"}
    BY <1>1 DEF SubmitRoute, SubmitLookup, EnterGate, AwaitBarrier, ScheduleCleanup,
                CleanupLookup, Lookup, CleanupBegin, CleanupWithoutLiveLane, EndCleanupHere
  <2>3. PICK x \in {"lookup", "gate", "create", "waitBarrier", "route", "wait", "hlookup",
                    "hcreate", "hwaitBarrier", "hbegin", "handoff", "late", "enqueue",
                    "nolane", "refused", "taken", "cleanupHere", "end", "done"} :
           pc' = [pc EXCEPT ![o] = x]
    BY <1>1 DEF SubmitRoute, SubmitLookup, EnterGate, AwaitBarrier, ScheduleCleanup,
                CleanupLookup, Lookup, CleanupBegin, CleanupWithoutLiveLane, EndCleanupHere,
                Goto, Fail, Return
  <2>4. PICK n : n = queues[OpKey[o]]
    OBVIOUS
  <2>5. at' = at \/ at' = [at EXCEPT ![o] = n]
    BY <1>1, <2>4 DEF SubmitRoute, SubmitLookup, EnterGate, AwaitBarrier, ScheduleCleanup,
                CleanupLookup, Lookup, CleanupBegin, CleanupWithoutLiveLane, EndCleanupHere,
                HandoffFrame
  <2>6. \A l \in Lanes : Unsent(l)' = Unsent(l)
    BY <1>0, <2>2, <2>3, <2>5, UnsentAway
  <2> QED BY <2>1, <2>6, OrderSame
<1>2. CASE SubmitCreate(o) \/ CleanupCreate(o)
  <2>1. pc[o] \notin {"send", "blocked"} /\ UNCHANGED <<ticket, accepted, handled>>
    BY <1>2 DEF SubmitCreate, CleanupCreate, Create, RouteFrame, historyVars
  <2>2. \E x \in {"waitBarrier", "gate", "hwaitBarrier", "hbegin", "hlimit", "late",
                  "handoff", "end", "done"} : pc' = [pc EXCEPT ![o] = x]
    BY <1>2 DEF SubmitCreate, CleanupCreate, Create, Goto, Fail, Return
  <2>3. \E n : at' = at \/ at' = [at EXCEPT ![o] = n]
    <3>1. \/ at' = at \/ at' = [at EXCEPT ![o] = queues[OpKey[o]]]
          \/ at' = [at EXCEPT ![o] = CHOOSE n \in Unborn : TRUE]
      BY <1>2 DEF SubmitCreate, CleanupCreate, Create
    <3> QED BY <3>1
  <2>4. \A l \in Lanes : Unsent(l)' = Unsent(l)
    BY <1>0, <2>1, <2>2, <2>3, UnsentAway
  <2>5. CASE UNCHANGED <<laneVars, workerVars, sectionVars, queues>>
    BY <2>1, <2>4, <2>5, OrderSame DEF laneVars, workerVars
  <2>6. ASSUME NEW n \in Unborn, NewLane(n, OpKey[o]) PROVE OrderInv'
    <3>1. n \in Lanes /\ cur' = cur
      BY <2>6 DEF Unborn, NewLane
    <3>2. CASE active = NoSection
      BY <2>1, <2>4, <2>6, <3>1, <3>2, OrderSame DEF NewLane, laneVars
    <3>3. CASE active # NoSection
      <4>1. active \in Sections
        BY <1>0, <3>3 DEF BaseType, SectionType
      <4> QED BY <1>0, <2>1, <2>4, <2>6, <3>1, <3>3, <4>1, OrderQueued DEF NewLane
    <3> QED BY <3>2, <3>3
  <2> QED BY <1>2, <2>5, <2>6, CreateMap
<1> QED BY <1>1, <1>2

\* The steps of workers.
LEMMA WorkerOrder ==
    ASSUME LaneInv, OrderInv, NEW l \in Lanes, LaneStep(l)
    PROVE  OrderInv'
<1>0. BaseType
  BY DEF LaneInv
<1>1. CASE WorkerStep(l)
  BY <1>0, <1>1, OrderWorker
<1>2. CASE SeeQuit(l)
  <2>1. ch[l] = <<>> /\ Len(ch[l]) = 0
    BY <1>2 DEF SeeQuit, LaneInv, Retirement
  <2>2. /\ settled \in [Lanes -> Nat] /\ handled \in [Lanes -> Nat]
        /\ settled' = [settled EXCEPT ![l] = @ + 0]
        /\ handled' = [handled EXCEPT ![l] = @ + 0]
    BY <1>0, <1>2, <2>1 DEF SeeQuit, BaseType, LaneType, HistoryType
  <2>3. settled' = settled /\ handled' = handled
    BY <2>2
  <2>4. UNCHANGED <<at, ticket, pc, backlog, admitted, accepted, cur>>
    BY <1>2 DEF SeeQuit, WorkerFrame, submitVars
  <2> QED BY <2>3, <2>4, OrderKept
<1> QED BY <1>1, <1>2 DEF LaneStep

\* The steps of Exclusive calls.
LEMMA SectionOrder ==
    ASSUME LaneInv, OrderInv, NEW s \in Sections, NEW ls, NEW done,
           SectionMove(s, ls, done)
    PROVE  OrderInv'
<1>0. BaseType
  BY DEF LaneInv
<1>1. UNCHANGED <<at, ticket, pc, accepted, handled, cur>>
  BY SectionFramed DEF SectionFrame, submitVars, workerVars, historyVars
<1>2. CASE UNCHANGED laneVars
  BY <1>1, <1>2, OrderKept DEF laneVars
<1>3. ASSUME NEW l \in Lanes, EnqueueMandatory(l, Entry("barrier", s, l, FALSE))
      PROVE  OrderInv'
  BY <1>0, <1>1, <1>3, OrderEnqueue
<1>4. CASE PlaceBarrier(s)
  BY <1>0, <1>2, <1>3, <1>4 DEF PlaceBarrier, BaseType, SectionType
<1> QED BY <1>2, <1>4, SectionLanes

\* Every step.
LEMMA NextOrder ==
    ASSUME LaneOrder, OrderInv, [Next]_vars
    PROVE  OrderInv'
<1>0. BaseType /\ LaneInv /\ ~crashed
  BY DEF LaneOrder, LaneInv
<1>1. ASSUME NEW o \in Ops, Submit(o) \/ OpStep(o) \/ Cancel(o) PROVE OrderInv'
  BY <1>0, <1>1, GateKeepsOpen, ProducerOrder, HandoffOrder, RouteOrder
     DEF Submit, OpStep, Cancel
<1>2. ASSUME NEW l \in Lanes, LaneStep(l) PROVE OrderInv'
  BY <1>0, <1>2, WorkerOrder
<1>3. ASSUME NEW s \in Sections,
             \/ (TakeTurn(s) \/ SectionFails(s, "ctx")) /\ UNCHANGED dynamicVars
             \/ SectionRuns(s)
      PROVE  OrderInv'
  <2>1. PICK done : done = \A k \in Keys : barrier[k] = NoOp
    OBVIOUS
  <2>2. SectionMove(s, LivingLanes, done)
    BY <1>3, <2>1, SectionSteps
  <2>3. PICK ls : ls = LivingLanes
    OBVIOUS
  <2> QED BY <1>0, <2>2, <2>3, SectionOrder
<1>4. ASSUME NEW x \in Stoppers,
             \/ BeginStop(x) \/ StopRuns(x)
             \/ StopTimeout(x) /\ UNCHANGED dynamicVars
      PROVE  OrderInv'
  <2>1. UNCHANGED <<at, ticket, pc, backlog, admitted, settled, accepted, handled, cur>>
    BY <1>4 DEF BeginStop, StopRuns, StopTimeout, StopStep, AwaitScan, MarkStopping,
                CloseLanes, SignalHardStop, SignalStop, WaitInFlightSubmits, WaitWorkers,
                WaitSections, FinishLifecycleCleanups, StopMoves, StopFrame, submitVars,
                laneVars, workerVars
  <2> QED BY <2>1, OrderKept
<1>5. CASE Scan
  <2>1. UNCHANGED <<at, ticket, pc, backlog, admitted, settled, accepted, handled, cur>>
    BY <1>5 DEF Scan, ScanIdle, RetireIfIdle, ScanExit, ScanFrame, submitVars, laneVars,
                workerVars, historyVars
  <2> QED BY <2>1, OrderKept
<1>6. CASE UNCHANGED vars
  <2>1. UNCHANGED <<at, ticket, pc, backlog, admitted, settled, accepted, handled, cur>>
    BY <1>6 DEF vars, allVars, submitVars, laneVars, workerVars, historyVars
  <2> QED BY <2>1, OrderKept
<1> QED BY <1>1, <1>2, <1>3, <1>4, <1>5, <1>6 DEF Next, Finished

\* Initially nothing was admitted.
LEMMA InitOrder ==
    ASSUME Init
    PROVE  OrderInv
<1>1. Targets /\ BacklogOrder
  BY DEF Init, LifecycleInit, Targets, BacklogOrder, NoEntry
<1>2. Admissions
  <2> SUFFICES ASSUME NEW l \in Lanes
               PROVE  /\ admitted[l] = accepted[l] + (settled[l] - handled[l])
                                                   + Cardinality(Unsent(l))
                      /\ \A o \in Unsent(l) : ticket[o] <= admitted[l]
    BY DEF Admissions
  <2>1. Unsent(l) = {}
    BY DEF Init, LifecycleInit, Unsent
  <2>2. Cardinality(Unsent(l)) = 0
    BY <2>1, FS_EmptySet
  <2>3. admitted[l] = 0 /\ accepted[l] = 0 /\ settled[l] = 0 /\ handled[l] = 0
    BY DEF Init, LifecycleInit
  <2> QED BY <2>1, <2>2, <2>3
<1> QED BY <1>1, <1>2 DEF OrderInv

\* No release and no barrier overtakes a task its lane had accepted before it,
\* however lanes are made, taken away and drained and sends given up.
THEOREM BacklogsInOrder == Spec => []BacklogOrder
<1>1. ASSUME Init PROVE LaneOrder /\ OrderInv
  BY <1>1, InitLanes, InitOrder
<1>2. ASSUME LaneOrder /\ OrderInv, [Next]_vars PROVE (LaneOrder /\ OrderInv)'
  BY <1>2, NextLanes, NextOrder
<1>3. ASSUME OrderInv PROVE BacklogOrder
  BY <1>3 DEF OrderInv
<1> QED BY <1>1, <1>2, <1>3, PTL DEF Spec

=============================================================================
