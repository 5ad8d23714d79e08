--------------------------- MODULE PipelineProofs ---------------------------
(***************************************************************************)
(* The operations of the asynchronous engine and the requests they give      *)
(* out, for any number of callers.                                          *)
(***************************************************************************)
EXTENDS Pipeline, TLAPS

-----------------------------------------------------------------------------
(* What the engine's calls leave: nothing but the handle they give back.     *)

\* A pre-trade call frees its reject list and its error text.
LEMMA PreTradeLeaves ==
    ASSUME NEW n \in PreTradeOutcomes, NEW empty \in BOOLEAN
    PROVE  /\ EngineStartPreTrade(n, empty).live \in SUBSET {"handle"}
           /\ EngineStartPreTrade(n, empty).kind \in {"handle", "nil", "rejects", "err"}
<1> USE DEF EngineStartPreTrade, NativeStartPreTrade, TakeRejects, RejectList, ConsumeError, Result
<1>1. CASE n.status = "Passed"
    BY <1>1 DEF PreTradeOutcomes
<1>2. CASE n.status = "Rejected"
    BY <1>2 DEF PreTradeOutcomes
<1>3. CASE n.status = "Error"
    BY <1>3 DEF PreTradeOutcomes
<1>4. CASE n.status = "Unexpected"
    BY <1>4 DEF PreTradeOutcomes
<1> QED
    BY <1>1, <1>2, <1>3, <1>4 DEF PreTradeOutcomes

\* Applying a report leaves nothing.
LEMMA ReportLeaves ==
    ASSUME NEW n \in ReportOutcomes
    PROVE  EngineApplyExecutionReport(n).live = {}
BY DEF ReportOutcomes, EngineApplyExecutionReport, NativeApplyExecutionReport, ConsumeError, Result

\* Neither does applying a batch of adjustments, whose error is taken apart.
LEMMA AdjustmentLeaves ==
    ASSUME NEW n \in AdjustmentOutcomes, NEW empty \in BOOLEAN
    PROVE  EngineApplyAccountAdjustment(n, empty).live = {}
<1> USE DEF EngineApplyAccountAdjustment, NativeApplyAccountAdjustment, TakeBatchError, ConsumeError, Result
<1>1. CASE n.status = "Applied"
    BY <1>1 DEF AdjustmentOutcomes
<1>2. CASE n.status = "Rejected"
    BY <1>2 DEF AdjustmentOutcomes
<1>3. CASE n.status = "Error"
    BY <1>3 DEF AdjustmentOutcomes
<1>4. CASE n.status = "Unexpected"
    BY <1>4 DEF AdjustmentOutcomes
<1> QED
    BY <1>1, <1>2, <1>3, <1>4 DEF AdjustmentOutcomes

\* Nor do retirement, blocking and groups.
LEMMA DomainLeaves ==
    ASSUME NEW n \in DomainOutcomes
    PROVE  /\ EngineRetireAccount(n).live = {}
           /\ AccountsRegisterGroup(n).live = {}
           /\ n \in BlockOutcomes => AccountsBlockGroup(n).live = {}
           /\ n \in CauseOutcomes => AccountsBlockWithCause(n).live = {} /\ NativeSetCurrency(n).live = {}
BY DEF DomainOutcomes, BlockOutcomes, CauseOutcomes, EngineRetireAccount, TakeRetirementError, TakeGroupError,
   TakeBlockError, TakeDomainError, NativeRetireAccount, AccountsRegisterGroup, NativeRegisterAccountGroup,
   AccountsBlockGroup, AccountsBlockWithCause, NativeSetCurrency, ConsumeError, Result

-----------------------------------------------------------------------------
(* The inductive invariant.                                                 *)

Locked == {"execute", "native", "closed", "close", "releaseClose"}
Following == {"lock", "releaseLock"} \cup Locked
Stages == {"idle", "queued", "driver", "done"} \cup Following
Wrappers == {"request", "reservation", "operation"}
Results == {"none", "refused", "error", "rejects", "value"} \cup Wrappers

PipelineType ==
    /\ stage \in [PipelineCalls -> Stages]
    /\ DOMAIN name = PipelineCalls
    /\ request \in [PipelineCalls -> Users \cup {NoUser}]
    /\ lane \in [RoutingKeys -> Seq(PipelineCalls)]
    /\ result \in [PipelineCalls -> Results]
    /\ applied \in [PipelineCalls -> Nat]
    /\ handles \in [PipelineCalls -> {"none", "live", "freed"}]
    /\ destroyed \in [PipelineCalls -> Nat]
    /\ open \in [PipelineCalls -> BOOLEAN]
    /\ mu \in [PipelineCalls -> Users \cup {NoUser}]
    /\ left = {}

\* The engine was entered once for a call, or not at all.
AppliedInv(c) ==
    /\ stage[c] # "done" <=> result[c] = "none"
    /\ stage[c] \in {"idle", "queued"} \cup (Following \ {"native"}) => applied[c] = 0
    /\ stage[c] = "driver" => applied[c] = 1 /\ name[c] \notin FollowUps
    /\ result[c] = "refused" => applied[c] = 0
    /\ stage[c] = "done" /\ result[c] # "refused" /\ name[c] \notin FollowUps => applied[c] = 1

\* A follow-up is about a request that was given out, and has its mutex from
\* the lock to its end.
FollowInv(c) ==
    /\ stage[c] \in Following => name[c] \in FollowUps
    /\ name[c] \in FollowUps => c \in Users /\ request[c] \in Users \ {c} /\ result[request[c]] = "request"
    /\ stage[c] \in Locked => mu[request[c]] = c
    /\ stage[c] = "native" => open[request[c]]

\* The native handle a call produced.
HandleInv(c) ==
    /\ stage[c] # "done" => handles[c] = "none"
    /\ handles[c] = "none" => destroyed[c] = 0
    /\ handles[c] = "live" => destroyed[c] = 0 /\ result[c] \in Wrappers
    /\ handles[c] = "freed" => destroyed[c] <= 1 \/ c \in odd
    /\ open[c] => handles[c] = "live" /\ result[c] = "request"

PipelineInv ==
    PipelineType /\ \A c \in PipelineCalls : AppliedInv(c) /\ FollowInv(c) /\ HandleInv(c)

\* Before any call the invariant holds.
LEMMA PipelineInitial == PipelineInit => PipelineInv
<1> SUFFICES ASSUME PipelineInit PROVE PipelineInv
    OBVIOUS
<1>1. PipelineType
    <2>1. lane \in [RoutingKeys -> Seq(PipelineCalls)]
        BY DEF PipelineInit
    <2>2. open \in [PipelineCalls -> BOOLEAN]
        BY DEF PipelineInit
    <2> QED
        BY <2>1, <2>2 DEF PipelineInit, PipelineType, Stages, Results
<1>2. ASSUME NEW c \in PipelineCalls PROVE AppliedInv(c) /\ FollowInv(c) /\ HandleInv(c)
    BY <1>2 DEF PipelineInit, AppliedInv, FollowInv, HandleInv, Following, Locked, FollowUps
<1> QED
    BY <1>1, <1>2 DEF PipelineInv

\* A lane that takes a call is still a sequence of calls.
LEMMA LaneGrows ==
    ASSUME PipelineType, NEW c \in PipelineCalls, NEW k, lane' = [lane EXCEPT ![k] = Append(@, c)]
    PROVE  lane' \in [RoutingKeys -> Seq(PipelineCalls)]
<1>1. ASSUME NEW l \in RoutingKeys PROVE lane'[l] \in Seq(PipelineCalls)
    <2>1. lane[l] \in Seq(PipelineCalls)
        BY DEF PipelineType
    <2>2. Append(lane[l], c) \in Seq(PipelineCalls)
        BY <2>1
    <2> QED
        BY <2>1, <2>2 DEF PipelineType
<1> QED
    BY <1>1 DEF PipelineType

\* A call enters a lane, or is refused.
LEMMA SubmitKeeps ==
    ASSUME PipelineInv, NEW c \in PipelineCalls, NEW op, op \notin FollowUps, Submit(c, op)
    PROVE  PipelineInv'
<1> USE DEF PipelineInv
<1>1. UNCHANGED <<request, applied, handles, destroyed, open, mu, odd, left>>
    BY DEF Submit, Refused, Accepted, handleState
<1>2. /\ stage[c] = "idle"
      /\ name' = [name EXCEPT ![c] = op]
      /\ \/ stage' = [stage EXCEPT ![c] = "done"] /\ ResolveWith(c, "refused") /\ UNCHANGED lane
         \/ stage' = [stage EXCEPT ![c] = "queued"] /\ UNCHANGED result
            /\ lane' = [lane EXCEPT ![RoutingKey(op)] = Append(@, c)]
    BY DEF Submit, Refused, Accepted, At, laneState
<1>3. lane' \in [RoutingKeys -> Seq(PipelineCalls)]
    BY <1>2, LaneGrows DEF PipelineType
<1>4. result[c] = "none"
    BY <1>2 DEF AppliedInv
<1>5. \/ stage' = [stage EXCEPT ![c] = "done"] /\ result' = [result EXCEPT ![c] = "refused"]
      \/ stage' = [stage EXCEPT ![c] = "queued"] /\ result' = result
    BY <1>2, <1>4 DEF ResolveWith, PipelineType
<1>6. PipelineType'
    BY <1>1, <1>2, <1>3, <1>5 DEF PipelineType, Stages, Results
<1>7. ASSUME NEW d \in PipelineCalls PROVE AppliedInv(d)'
    BY <1>1, <1>2, <1>5, <1>7 DEF AppliedInv, PipelineType, Following, Locked
<1>8. ASSUME NEW d \in PipelineCalls PROVE FollowInv(d)'
    BY <1>1, <1>2, <1>4, <1>5, <1>8 DEF FollowInv, PipelineType, Following, Locked, PipelineCalls
<1>9. ASSUME NEW d \in PipelineCalls PROVE HandleInv(d)'
    BY <1>1, <1>2, <1>4, <1>5, <1>9 DEF HandleInv, PipelineType, Wrappers
<1> QED
    BY <1>6, <1>7, <1>8, <1>9

\* A call follows up on a request that was given out.
LEMMA FollowUpKeeps ==
    ASSUME PipelineInv, NEW c \in Users, NEW r \in Users \ {c}, NEW op, FollowUp(c, op, r)
    PROVE  PipelineInv'
<1> USE DEF PipelineInv
<1>1. UNCHANGED <<result, applied, handles, destroyed, open, mu, odd, left>>
    BY DEF FollowUp, handleState
<1>2. /\ result[r] = "request" /\ op \in FollowUps /\ stage[c] = "idle" /\ c \in PipelineCalls
      /\ name' = [name EXCEPT ![c] = op] /\ request' = [request EXCEPT ![c] = r]
      /\ stage' = [stage EXCEPT ![c] = "queued"] \/ stage' = [stage EXCEPT ![c] = "releaseLock"]
    BY DEF FollowUp, At, PipelineCalls
<1>3. lane' \in [RoutingKeys -> Seq(PipelineCalls)]
    BY <1>2, LaneGrows DEF FollowUp, PipelineType
<1>4. PipelineType'
    BY <1>1, <1>2, <1>3 DEF PipelineType, Stages, Following
<1>5. ASSUME NEW d \in PipelineCalls PROVE AppliedInv(d)'
    BY <1>1, <1>2, <1>5 DEF AppliedInv, PipelineType, Following, Locked
<1>6. ASSUME NEW d \in PipelineCalls PROVE FollowInv(d)'
    BY <1>1, <1>2, <1>6 DEF FollowInv, PipelineType, Following, Locked
<1>7. ASSUME NEW d \in PipelineCalls PROVE HandleInv(d)'
    BY <1>1, <1>2, <1>7 DEF HandleInv, PipelineType, Wrappers
<1> QED
    BY <1>4, <1>5, <1>6, <1>7

\* A worker takes a task, or a hard stop aborts it.
LEMMA LaneKeeps ==
    ASSUME PipelineInv, NEW k \in RoutingKeys, RunTaskOf(k) \/ AbortTaskOf(k)
    PROVE  PipelineInv'
<1> USE DEF PipelineInv
<1> DEFINE c == Head(lane[k])
<1>1. lane[k] # <<>> /\ lane[k] \in Seq(PipelineCalls) /\ lane' = [lane EXCEPT ![k] = Tail(@)]
    BY DEF RunTaskOf, AbortTaskOf, PipelineType
<1>2. c \in PipelineCalls
    BY <1>1
<1>3. lane' \in [RoutingKeys -> Seq(PipelineCalls)]
    <2>1. Tail(lane[k]) \in Seq(PipelineCalls)
        BY <1>1
    <2> QED
        BY <1>1, <2>1 DEF PipelineType
<1>4. UNCHANGED <<name, request, handles, destroyed, open, mu, odd, left>>
    BY DEF RunTaskOf, AbortTaskOf, handleState
<1>5. /\ stage[c] = "queued"
      /\ \/ /\ name[c] \in FollowUps /\ UNCHANGED <<result, applied>>
            /\ stage' = [stage EXCEPT ![c] = "lock"] \/ stage' = [stage EXCEPT ![c] = "releaseLock"]
         \/ /\ name[c] \notin FollowUps /\ stage' = [stage EXCEPT ![c] = "driver"] /\ UNCHANGED result
            /\ applied' = [applied EXCEPT ![c] = @ + 1]
         \/ /\ name[c] \notin FollowUps /\ stage' = [stage EXCEPT ![c] = "done"] /\ UNCHANGED applied
            /\ ResolveWith(c, "refused")
    <2>1. CASE RunTaskOf(k)
        <3>1. /\ At(c, "queued", IF name[c] \in FollowUps THEN "lock" ELSE "driver")
              /\ applied' = [applied EXCEPT ![c] = IF name[c] \in FollowUps THEN @ ELSE @ + 1]
              /\ UNCHANGED result
            BY <2>1 DEF RunTaskOf
        <3> HIDE DEF c
        <3> QED
            BY <1>2, <3>1 DEF At, PipelineType
    <2>2. CASE AbortTaskOf(k)
        <3>1. /\ IF name[c] \in FollowUps
                 THEN At(c, "queued", "releaseLock") /\ UNCHANGED result
                 ELSE At(c, "queued", "done") /\ ResolveWith(c, "refused")
              /\ UNCHANGED applied
            BY <2>2 DEF AbortTaskOf
        <3> HIDE DEF c
        <3> QED
            BY <3>1 DEF At
    <2> QED
        BY <2>1, <2>2
<1> HIDE DEF c
<1>6. result[c] = "none" /\ applied[c] = 0
    BY <1>2, <1>5 DEF AppliedInv
<1>7. result' = result \/ (stage' = [stage EXCEPT ![c] = "done"] /\ result' = [result EXCEPT ![c] = "refused"])
    BY <1>2, <1>5, <1>6 DEF ResolveWith, PipelineType
<1>8. name[c] \in FollowUps => c \in Users
    BY <1>2 DEF FollowInv, PipelineCalls
<1>9. PipelineType'
    <2>1. stage' \in [PipelineCalls -> Stages]
        BY <1>2, <1>5 DEF PipelineType, Stages, Following
    <2>2. applied' \in [PipelineCalls -> Nat]
        BY <1>2, <1>5 DEF PipelineType
    <2>3. result' \in [PipelineCalls -> Results]
        BY <1>2, <1>7 DEF PipelineType, Results
    <2> QED
        BY <1>3, <1>4, <2>1, <2>2, <2>3 DEF PipelineType
<1>10. ASSUME NEW d \in PipelineCalls PROVE AppliedInv(d)'
    <2>1. CASE d # c
        <3>1. stage'[d] = stage[d] /\ result'[d] = result[d] /\ applied'[d] = applied[d]
            BY <1>2, <1>5, <1>7, <1>10, <2>1 DEF PipelineType
        <3> QED
            BY <1>4, <1>10, <3>1 DEF AppliedInv
    <2>2. CASE d = c
        <3>1. \/ /\ stage'[c] \in {"lock", "releaseLock"} /\ result'[c] = "none" /\ applied'[c] = 0
              \/ /\ stage'[c] = "driver" /\ name[c] \notin FollowUps /\ result'[c] = "none" /\ applied'[c] = 1
              \/ /\ stage'[c] = "done" /\ result'[c] = "refused" /\ applied'[c] = 0
            <4>1. CASE name[c] \in FollowUps
                BY <1>2, <1>5, <1>6, <4>1 DEF PipelineType
            <4>2. CASE name[c] \notin FollowUps /\ stage' = [stage EXCEPT ![c] = "driver"]
                BY <1>2, <1>5, <1>6, <1>7, <4>2 DEF PipelineType
            <4>3. CASE name[c] \notin FollowUps /\ stage' = [stage EXCEPT ![c] = "done"]
                BY <1>2, <1>5, <1>6, <4>3 DEF PipelineType, ResolveWith
            <4> QED
                BY <1>5, <4>1, <4>2, <4>3
        <3> QED
            BY <1>4, <2>2, <3>1 DEF AppliedInv, Following, Locked
    <2> QED
        BY <2>1, <2>2
<1>11. ASSUME NEW d \in PipelineCalls PROVE FollowInv(d)'
    BY <1>2, <1>4, <1>5, <1>6, <1>7, <1>8, <1>11 DEF FollowInv, PipelineType, Following, Locked, PipelineCalls
<1>12. ASSUME NEW d \in PipelineCalls PROVE HandleInv(d)'
    BY <1>2, <1>4, <1>5, <1>6, <1>7, <1>12 DEF HandleInv, PipelineType, Wrappers
<1> QED
    BY <1>9, <1>10, <1>11, <1>12

\* A task of a lane ends: its future is resolved, and the handle it may have
\* produced is alive only if the future carries it.
LEMMA TaskKeeps ==
    ASSUME PipelineInv, NEW c \in PipelineCalls, stage[c] = "driver",
           NEW v \in Results \ {"none", "refused"}, NEW h \in {"none", "live", "freed"},
           NEW b \in BOOLEAN, NEW n \in {0, 1},
           stage' = [stage EXCEPT ![c] = "done"], ResolveWith(c, v),
           handles' = [handles EXCEPT ![c] = h], destroyed' = [destroyed EXCEPT ![c] = n],
           open' = [open EXCEPT ![c] = b], left' = left,
           UNCHANGED <<name, request, lane, applied, mu, odd>>,
           h # "freed" => n = 0, h = "live" => v \in Wrappers, b => h = "live" /\ v = "request"
    PROVE  PipelineInv'
<1> USE DEF PipelineInv
<1>1. result[c] = "none" /\ applied[c] = 1 /\ name[c] \notin FollowUps
    BY DEF AppliedInv
<1>2. result' = [result EXCEPT ![c] = v]
    BY <1>1 DEF ResolveWith, PipelineType
<1>3. PipelineType'
    BY <1>2 DEF PipelineType, Stages
<1>4. ASSUME NEW d \in PipelineCalls PROVE AppliedInv(d)'
    BY <1>1, <1>2, <1>4 DEF AppliedInv, PipelineType, Following, Locked
<1>5. ASSUME NEW d \in PipelineCalls PROVE FollowInv(d)'
    <2>1. name[d] \in FollowUps => request[d] # c /\ request[d] \in PipelineCalls
        BY <1>1, <1>5 DEF FollowInv, PipelineCalls
    <2> QED
        BY <1>1, <1>2, <1>5, <2>1 DEF FollowInv, PipelineType, Following, Locked
<1>6. ASSUME NEW d \in PipelineCalls PROVE HandleInv(d)'
    <2>1. CASE d # c
        BY <1>2, <1>6, <2>1 DEF HandleInv, PipelineType
    <2>2. CASE d = c
        <3>1. stage'[c] = "done" /\ handles'[c] = h /\ destroyed'[c] = n /\ open'[c] = b /\ result'[c] = v
            BY <1>2 DEF PipelineType
        <3> QED
            BY <2>2, <3>1 DEF HandleInv
    <2> QED
        BY <2>1, <2>2
<1> QED
    BY <1>3, <1>4, <1>5, <1>6

\* Whatever a driver returned, a handle beside rejects or an error is closed.
LEMMA ShapeKeeps ==
    ASSUME PipelineInv, NEW c \in PipelineCalls, NEW d \in CustomShapes,
           NEW live \in SUBSET {"handle"}, NEW wrapper \in Wrappers, ReturnShape(c, d, live, wrapper)
    PROVE  PipelineInv'
<1> DEFINE v == HandleOutcome(d, wrapper)
           h == IF d.handle # "open" THEN "none" ELSE IF ValidShape(d) THEN "live" ELSE "freed"
           n == IF d.handle = "open" /\ ~ValidShape(d) THEN 1 ELSE 0
           b == wrapper = "request" /\ ValidShape(d) /\ d.handle = "open"
<1>1. stage[c] = "driver" /\ stage' = [stage EXCEPT ![c] = "done"] /\ ResolveWith(c, v)
      /\ open' = [open EXCEPT ![c] = b] /\ UNCHANGED <<name, request, lane, applied, mu, odd>>
    BY DEF ReturnShape, At
<1>2. handles[c] = "none" /\ destroyed[c] = 0 /\ left = {}
    BY <1>1 DEF PipelineInv, PipelineType, HandleInv
<1>3. left' = left
    BY <1>2 DEF ReturnShape
<1>4. handles' = [handles EXCEPT ![c] = h] /\ destroyed' = [destroyed EXCEPT ![c] = n]
    <2>1. CASE d.handle # "open"
        BY <1>2, <2>1 DEF ReturnShape, ProducedHandle
    <2>2. CASE d.handle = "open" /\ ValidShape(d)
        BY <1>2, <2>2 DEF ReturnShape, ProducedHandle
    <2>3. CASE d.handle = "open" /\ ~ValidShape(d)
        BY <1>2, <2>3 DEF ReturnShape, ProducedHandle
    <2> QED
        BY <2>1, <2>2, <2>3
<1>5. /\ v \in Results \ {"none", "refused"} /\ h \in {"none", "live", "freed"} /\ b \in BOOLEAN /\ n \in {0, 1}
      /\ h # "freed" => n = 0
    BY DEF HandleOutcome, Results, Wrappers
<1>6. ValidShape(d) /\ d.handle = "open" => v = wrapper
    BY DEF HandleOutcome, ValidShape, CustomShapes
<1>7. (h = "live" => v \in Wrappers) /\ (b => h = "live" /\ v = "request")
    BY <1>6
<1> HIDE DEF v, h, n, b
<1> QED
    BY <1>1, <1>3, <1>4, <1>5, <1>7, TaskKeeps

\* The engine's own results are shapes that only the library's oddities spoil.
LEMMA EngineShape ==
    ASSUME NEW r, r.kind \in {"handle", "nil", "rejects", "err"}
    PROVE  /\ ShapeOf(r) \in CustomShapes
           /\ ShapeOf(r).handle = "open" => ValidShape(ShapeOf(r))
BY DEF ShapeOf, Shape, CustomShapes, ValidShape

\* The tasks that give back a handle.
LEMMA HandleTaskKeeps ==
    ASSUME PipelineInv, NEW c \in PipelineCalls, HandleTask(c)
    PROVE  PipelineInv'
<1>1. ASSUME NEW n \in PreTradeOutcomes, NEW empty \in BOOLEAN, NEW wrapper \in Wrappers,
             ReturnShape(c, ShapeOf(EngineStartPreTrade(n, empty)), EngineStartPreTrade(n, empty).live, wrapper)
      PROVE  PipelineInv'
    <2> DEFINE r == EngineStartPreTrade(n, empty)
    <2>1. r.live \in SUBSET {"handle"} /\ ShapeOf(r) \in CustomShapes
        BY PreTradeLeaves, EngineShape
    <2>2. ReturnShape(c, ShapeOf(r), r.live, wrapper)
        BY <1>1
    <2> HIDE DEF r
    <2> QED
        BY <2>1, <2>2, ShapeKeeps
<1>2. ASSUME NEW d \in CustomShapes, NEW wrapper \in Wrappers, ReturnShape(c, d, {}, wrapper)
      PROVE  PipelineInv'
    BY <1>2, ShapeKeeps
<1> QED
    BY <1>1, <1>2 DEF HandleTask, StartPreTradeTask, ExecutePreTradeTask, ApplyDropCopyTask, Wrappers,
       EngineStartPreTrade, EngineExecutePreTrade, EngineApplyDropCopy, NativeExecutePreTrade, NativeApplyDropCopy

\* A task that gives back a value leaves nothing behind.
LEMMA ValueKeeps ==
    ASSUME PipelineInv, NEW c \in PipelineCalls, NEW op, NEW results,
           \A r \in results : r.live = {}, ReturnValue(c, op, results)
    PROVE  PipelineInv'
<1>1. PICK r \in results :
          /\ At(c, "driver", "done")
          /\ ResolveWith(c, IF r.kind = "err" THEN "error" ELSE "value")
          /\ left' = left \cup r.live
    BY DEF ReturnValue
<1>2. UNCHANGED <<name, request, lane, applied, handles, destroyed, open, mu, odd>>
    BY DEF ReturnValue
<1>3. stage[c] = "driver" /\ stage' = [stage EXCEPT ![c] = "done"] /\ left' = left
    BY <1>1 DEF At
<1>4. PICK v \in {"error", "value"} : ResolveWith(c, v)
    BY <1>1
<1>5. handles[c] = "none" /\ destroyed[c] = 0 /\ open[c] = FALSE
    BY <1>3 DEF PipelineInv, PipelineType, HandleInv
<1>6. /\ handles' = [handles EXCEPT ![c] = "none"] /\ destroyed' = [destroyed EXCEPT ![c] = 0]
      /\ open' = [open EXCEPT ![c] = FALSE]
    BY <1>2, <1>5 DEF PipelineInv, PipelineType
<1>7. v \in Results \ {"none", "refused"}
    BY DEF Results
<1> QED
    BY <1>2, <1>3, <1>4, <1>6, <1>7, TaskKeeps

\* The tasks that give back a value.
LEMMA ValueTaskKeeps ==
    ASSUME PipelineInv, NEW c \in PipelineCalls, ValueTask(c)
    PROVE  PipelineInv'
<1>1. \A r \in {EngineApplyExecutionReport(n) : n \in ReportOutcomes} : r.live = {}
    BY ReportLeaves
<1>2. \A r \in {EngineApplyAccountAdjustment(n, empty) : n \in AdjustmentOutcomes, empty \in BOOLEAN} : r.live = {}
    BY AdjustmentLeaves
<1>3. \A r \in BlockResults : r.live = {}
    BY DomainLeaves DEF BlockResults, BlockOutcomes
<1>4. \A r \in {AccountsBlockWithCause(n) : n \in CauseOutcomes} : r.live = {}
    BY DomainLeaves DEF CauseOutcomes
<1>5. \A r \in PlainResults \cup CurrencyResults : r.live = {}
    BY DomainLeaves DEF CauseOutcomes, PlainResults, CurrencyResults, Result
<1>6. \A r \in PlainResults : r.live = {}
    BY <1>5
<1>7. PICK op, results : ReturnValue(c, op, results) /\ \A r \in results : r.live = {}
    BY <1>1, <1>2, <1>3, <1>4, <1>5, <1>6
    DEF ValueTask, ApplyReportTask, ApplyAdjustmentTask, SubmitTask, GroupOfTask, BlockTask,
        BlockWithCauseTask, UnblockTask, UnblockAllTask, ReplaceBlockReasonTask, BlockGroupTask,
        UnblockGroupTask, ReplaceGroupBlockReasonTask
<1> QED
    BY <1>7, ValueKeeps

\* An exclusive operation runs at once.
LEMMA ExclusiveKeeps ==
    ASSUME PipelineInv, NEW c \in PipelineCalls, ExclusiveTask(c)
    PROVE  PipelineInv'
<1> USE DEF PipelineInv
<1>1. UNCHANGED <<request, lane, handles, destroyed, open, mu, odd>>
    BY DEF ExclusiveTask, laneState
<1>2. /\ stage[c] = "idle" /\ stage' = [stage EXCEPT ![c] = "done"]
      /\ name' = [name EXCEPT ![c] = "Exclusive"] /\ applied' = [applied EXCEPT ![c] = @ + 1]
    BY DEF ExclusiveTask, At
<1>3. PICK v \in {"error", "value"} : ResolveWith(c, v)
    BY DEF ExclusiveTask
<1>4. left' = {}
    BY DomainLeaves DEF ExclusiveTask, PipelineType
<1>5. result[c] = "none" /\ applied[c] = 0
    BY <1>2 DEF AppliedInv
<1>6. result' = [result EXCEPT ![c] = v]
    BY <1>3, <1>5 DEF ResolveWith, PipelineType
<1>7. PipelineType'
    BY <1>1, <1>2, <1>4, <1>6 DEF PipelineType, Stages, Results
<1>8. ASSUME NEW d \in PipelineCalls PROVE AppliedInv(d)'
    BY <1>1, <1>2, <1>5, <1>6, <1>8 DEF AppliedInv, PipelineType, Following, Locked
<1>9. ASSUME NEW d \in PipelineCalls PROVE FollowInv(d)'
    BY <1>1, <1>2, <1>5, <1>6, <1>9 DEF FollowInv, PipelineType, Following, Locked, FollowUps, PipelineCalls
<1>10. ASSUME NEW d \in PipelineCalls PROVE HandleInv(d)'
    BY <1>1, <1>2, <1>5, <1>6, <1>10 DEF HandleInv, PipelineType, Wrappers
<1> QED
    BY <1>7, <1>8, <1>9, <1>10

\* What is known of a follow-up under way: the request it is about was given
\* out, is not its own, and belongs to nobody else while it is locked.
LEMMA FollowFacts ==
    ASSUME PipelineInv, NEW c \in PipelineCalls, stage[c] \in Following
    PROVE  /\ c \in Users /\ request[c] \in Users /\ request[c] # c /\ request[c] \in PipelineCalls
           /\ result[request[c]] = "request" /\ stage[request[c]] = "done" /\ c # NoUser
           /\ result[c] = "none" /\ handles[c] = "none" /\ destroyed[c] = 0 /\ open[c] = FALSE
           /\ name[c] \in FollowUps
           /\ \A d \in PipelineCalls \ {c} :
                 stage[d] \in Locked => d # NoUser /\ mu[request[d]] = d /\ request[d] \in PipelineCalls
<1>1. /\ c \in Users /\ request[c] \in Users /\ request[c] # c /\ request[c] \in PipelineCalls
      /\ result[request[c]] = "request" /\ name[c] \in FollowUps
    BY DEF PipelineInv, FollowInv, PipelineCalls
<1>2. stage[request[c]] = "done" /\ result[c] = "none"
    BY <1>1 DEF PipelineInv, AppliedInv, Following, Locked
<1>3. handles[c] = "none" /\ destroyed[c] = 0 /\ open[c] = FALSE
    BY <1>1 DEF PipelineInv, PipelineType, HandleInv, Following, Locked
<1>4. ASSUME NEW d \in PipelineCalls, stage[d] \in Locked
      PROVE  d # NoUser /\ mu[request[d]] = d /\ request[d] \in PipelineCalls
    BY <1>4, PipelineAssumption DEF PipelineInv, FollowInv, PipelineCalls, Following
<1> QED
    BY <1>1, <1>2, <1>3, <1>4, PipelineAssumption

\* An execution takes the request's lock and goes into the native call.
LEMMA LockKeeps ==
    ASSUME PipelineInv, NEW c \in PipelineCalls, LockRequest(c) \/ BeginExecute(c)
    PROVE  PipelineInv'
<1>1. stage[c] \in Following
    BY DEF LockRequest, BeginExecute, At, Following, Locked
<1>2. /\ c \in Users /\ request[c] \in Users /\ request[c] # c /\ request[c] \in PipelineCalls
      /\ result[request[c]] = "request" /\ stage[request[c]] = "done" /\ c # NoUser
      /\ result[c] = "none" /\ name[c] \in FollowUps
      /\ \A d \in PipelineCalls \ {c} :
            stage[d] \in Locked => d # NoUser /\ mu[request[d]] = d /\ request[d] \in PipelineCalls
    BY <1>1, FollowFacts
<1> USE DEF PipelineInv
<1>3. CASE LockRequest(c)
    <2>1. UNCHANGED <<name, request, lane, result, applied, handles, destroyed, open, odd, left>>
        BY <1>3 DEF LockRequest, laneState
    <2>2. PICK s \in {"execute", "close", "releaseClose"} : stage' = [stage EXCEPT ![c] = s]
        BY <1>3 DEF LockRequest
    <2>3. /\ stage[c] \in {"lock", "releaseLock"} /\ mu[request[c]] = NoUser
          /\ mu' = [mu EXCEPT ![request[c]] = c]
        BY <1>3 DEF LockRequest
    <2>4. PipelineType'
        BY <1>2, <2>1, <2>2, <2>3 DEF PipelineType, Stages, Following, Locked
    <2>5. ASSUME NEW d \in PipelineCalls PROVE AppliedInv(d)'
        BY <1>2, <2>1, <2>2, <2>3, <2>5 DEF AppliedInv, PipelineType, Following, Locked
    <2>6. ASSUME NEW d \in PipelineCalls PROVE FollowInv(d)'
        BY <1>2, <2>1, <2>2, <2>3, <2>6 DEF FollowInv, PipelineType, Following, Locked
    <2>7. ASSUME NEW d \in PipelineCalls PROVE HandleInv(d)'
        BY <1>2, <2>1, <2>2, <2>3, <2>7 DEF HandleInv, PipelineType
    <2> QED
        BY <2>4, <2>5, <2>6, <2>7
<1>4. CASE BeginExecute(c)
    <2>1. UNCHANGED <<name, request, lane, result, handles, destroyed, open, odd, left, mu>>
        BY <1>4 DEF BeginExecute, laneState, handleState
    <2>2. stage[c] = "execute" /\ applied[c] = 0
        BY <1>4 DEF BeginExecute, At, AppliedInv, Following, Locked
    <2>3. \/ /\ open[request[c]] /\ stage' = [stage EXCEPT ![c] = "native"]
             /\ applied' = [applied EXCEPT ![c] = 1]
          \/ /\ stage' = [stage EXCEPT ![c] = "closed"] /\ applied' = applied
        <3>1. CASE open[request[c]]
            BY <1>4, <2>2, <3>1 DEF BeginExecute, At, PipelineType
        <3>2. CASE ~open[request[c]]
            <4>1. applied' = [applied EXCEPT ![c] = applied[c]]
                BY <1>4, <3>2 DEF BeginExecute
            <4>2. applied' = applied
                BY <4>1 DEF PipelineType
            <4> QED
                BY <1>4, <3>2, <4>2 DEF BeginExecute, At
        <3> QED
            BY <3>1, <3>2
    <2>4. PipelineType'
        <3>1. stage' \in [PipelineCalls -> Stages]
            BY <2>3 DEF PipelineType, Stages, Following, Locked
        <3>2. applied' \in [PipelineCalls -> Nat]
            <4>1. applied' = applied \/ applied' = [applied EXCEPT ![c] = 1]
                BY <2>3
            <4>2. applied \in [PipelineCalls -> Nat]
                BY DEF PipelineType
            <4> HIDE DEF PipelineInv
            <4> QED
                BY <4>1, <4>2
        <3> QED
            BY <2>1, <3>1, <3>2 DEF PipelineType
    <2>5. ASSUME NEW d \in PipelineCalls PROVE AppliedInv(d)'
        BY <1>2, <2>1, <2>2, <2>3, <2>5 DEF AppliedInv, PipelineType, Following, Locked
    <2>6. ASSUME NEW d \in PipelineCalls PROVE FollowInv(d)'
        BY <1>2, <2>1, <2>2, <2>3, <2>6 DEF FollowInv, PipelineType, Following, Locked
    <2>7. ASSUME NEW d \in PipelineCalls PROVE HandleInv(d)'
        BY <1>2, <2>1, <2>2, <2>3, <2>7 DEF HandleInv, PipelineType
    <2> QED
        BY <2>4, <2>5, <2>6, <2>7
<1> QED
    BY <1>3, <1>4

\* A follow-up ends: it gives up the mutex, and the request it leaves behind is
\* destroyed if it was open, and stays what it was if not.
LEMMA FollowEndKeeps ==
    ASSUME PipelineInv, NEW c \in PipelineCalls, stage[c] \in Locked,
           NEW v \in Results \ {"none", "request", "operation"},
           v = "refused" => stage[c] # "native",
           stage' = [stage EXCEPT ![c] = "done"], ResolveWith(c, v),
           NEW h \in {"none", "live"}, h = "live" => v = "reservation",
           NEW g \in {"live", "freed", "none"}, NEW n \in Nat,
           handles' = [handles EXCEPT ![request[c]] = g, ![c] = h],
           destroyed' = [destroyed EXCEPT ![request[c]] = n],
           \/ /\ open' = [open EXCEPT ![request[c]] = FALSE] /\ odd \subseteq odd'
              /\ g = "freed" /\ (n <= 1 \/ request[c] \in odd')
           \/ open' = open /\ odd' = odd /\ g = handles[request[c]] /\ n = destroyed[request[c]],
           mu' = [mu EXCEPT ![request[c]] = NoUser], left' = left,
           UNCHANGED <<name, request, lane, applied>>
    PROVE  PipelineInv'
<1>1. /\ c \in Users /\ request[c] \in Users /\ request[c] # c /\ request[c] \in PipelineCalls
      /\ result[request[c]] = "request" /\ stage[request[c]] = "done" /\ c # NoUser
      /\ result[c] = "none" /\ handles[c] = "none" /\ destroyed[c] = 0 /\ open[c] = FALSE
      /\ name[c] \in FollowUps
      /\ \A d \in PipelineCalls \ {c} :
            stage[d] \in Locked => d # NoUser /\ mu[request[d]] = d /\ request[d] \in PipelineCalls
    BY FollowFacts DEF Following
<1> USE DEF PipelineInv
<1>2. mu[request[c]] = c
    BY DEF FollowInv
<1>3. result' = [result EXCEPT ![c] = v]
    BY <1>1 DEF ResolveWith, PipelineType
<1>4. /\ handles' \in [PipelineCalls -> {"none", "live", "freed"}]
      /\ handles'[c] = h /\ handles'[request[c]] = g
      /\ \A d \in PipelineCalls : d # c /\ d # request[c] => handles'[d] = handles[d]
    BY <1>1 DEF PipelineType
<1>5. /\ destroyed' \in [PipelineCalls -> Nat]
      /\ destroyed'[request[c]] = n
      /\ \A d \in PipelineCalls : d # request[c] => destroyed'[d] = destroyed[d]
    BY <1>1 DEF PipelineType
<1>6. /\ open' \in [PipelineCalls -> BOOLEAN]
      /\ \A d \in PipelineCalls : d # request[c] => open'[d] = open[d]
    BY <1>1 DEF PipelineType
<1>7. /\ mu' \in [PipelineCalls -> Users \cup {NoUser}]
      /\ \A d \in PipelineCalls : d # request[c] => mu'[d] = mu[d]
    BY <1>1 DEF PipelineType
<1>8. /\ stage' \in [PipelineCalls -> Stages] /\ stage'[c] = "done"
      /\ \A d \in PipelineCalls : d # c => stage'[d] = stage[d]
      /\ result' \in [PipelineCalls -> Results] /\ result'[c] = v
      /\ \A d \in PipelineCalls : d # c => result'[d] = result[d]
    BY <1>3 DEF PipelineType, Stages
<1>9. PipelineType'
    BY <1>4, <1>5, <1>6, <1>7, <1>8 DEF PipelineType
<1>10. ASSUME NEW d \in PipelineCalls PROVE AppliedInv(d)'
    <2>1. CASE d # c
        BY <1>8, <1>10, <2>1 DEF AppliedInv
    <2>2. CASE d = c
        <3>1. stage[c] # "native" => applied[c] = 0
            BY DEF AppliedInv, Following
        <3> QED
            BY <1>1, <1>8, <2>2, <3>1 DEF AppliedInv, Following, Locked
    <2> QED
        BY <2>1, <2>2
<1>11. ASSUME NEW d \in PipelineCalls PROVE FollowInv(d)'
    <2>1. name[d] \in FollowUps => result'[request[d]] = "request"
        BY <1>1, <1>8, <1>11 DEF FollowInv, PipelineCalls
    <2>2. CASE d = c
        BY <1>1, <1>8, <2>1, <2>2 DEF FollowInv, Following, Locked
    <2>3. CASE d # c /\ stage[d] \notin Locked
        BY <1>8, <1>11, <2>1, <2>3 DEF FollowInv, Locked
    <2>4. CASE d # c /\ stage[d] \in Locked
        <3>1. request[d] # request[c]
            BY <1>1, <1>2, <1>11, <2>4
        <3> QED
            BY <1>1, <1>6, <1>7, <1>8, <1>11, <2>1, <2>4, <3>1 DEF FollowInv
    <2> QED
        BY <2>2, <2>3, <2>4
<1>12. ASSUME NEW d \in PipelineCalls PROVE HandleInv(d)'
    <2>1. CASE d = c
        BY <1>1, <1>4, <1>5, <1>6, <1>8, <2>1 DEF HandleInv, Wrappers
    <2>2. CASE d = request[c]
        BY <1>1, <1>4, <1>5, <1>6, <1>8, <2>2 DEF HandleInv, PipelineType
    <2>3. CASE d # c /\ d # request[c]
        <3>1. odd \subseteq odd'
            OBVIOUS
        <3> QED
            BY <1>4, <1>5, <1>6, <1>8, <1>12, <2>3, <3>1 DEF HandleInv
    <2> QED
        BY <2>1, <2>2, <2>3
<1> QED
    BY <1>9, <1>10, <1>11, <1>12

\* The native call of an execution returns, with a status of whatever kind.
LEMMA EndKeeps ==
    ASSUME PipelineInv, NEW c \in PipelineCalls, EndExecute(c)
    PROVE  PipelineInv'
<1> DEFINE r == request[c]
<1>1. stage[c] = "native" /\ stage' = [stage EXCEPT ![c] = "done"]
    BY DEF EndExecute, At
<1>2. r \in PipelineCalls /\ handles[c] = "none" /\ r # c
    BY <1>1, FollowFacts DEF Following, Locked
<1>3. open[r] /\ handles[r] = "live" /\ destroyed[r] = 0
    BY <1>1, <1>2 DEF PipelineInv, FollowInv, HandleInv
<1>4. PICK n \in PreTradeOutcomes, empty \in BOOLEAN :
          /\ ResolveWith(c, HandleOutcome(ShapeOf(RequestExecute(n, empty)), "reservation"))
          /\ handles' = [handles EXCEPT ![r] = "freed",
                           ![c] = IF ShapeOf(RequestExecute(n, empty)).handle = "open" THEN "live" ELSE @]
          /\ destroyed' = [destroyed EXCEPT ![r] = @ + (IF DestroysRequest(n) THEN 2 ELSE 1)]
          /\ odd' = IF DestroysRequest(n) THEN odd \cup {r} ELSE odd
          /\ left' = left \cup (RequestExecute(n, empty).live \ {"handle"})
    BY DEF EndExecute
<1>5. /\ open' = [open EXCEPT ![r] = FALSE] /\ mu' = [mu EXCEPT ![r] = NoUser]
      /\ UNCHANGED <<name, request, lane, applied>>
    BY DEF EndExecute
<1> DEFINE x == RequestExecute(n, empty)
           d == ShapeOf(x)
           v == HandleOutcome(d, "reservation")
           h == IF d.handle = "open" THEN "live" ELSE "none"
           m == IF DestroysRequest(n) THEN 2 ELSE 1
<1>6. x.live \in SUBSET {"handle"} /\ d \in CustomShapes /\ (d.handle = "open" => ValidShape(d))
    <2>1. x = EngineStartPreTrade(n, empty)
        BY DEF RequestExecute, NativeRequestExecute, EngineStartPreTrade
    <2> HIDE DEF x
    <2> QED
        BY <2>1, PreTradeLeaves, EngineShape
<1>7. ResolveWith(c, v) /\ left' = left \cup (x.live \ {"handle"}) /\ odd' = (IF DestroysRequest(n) THEN odd \cup {r} ELSE odd)
    BY <1>4
<1>8. handles' = [handles EXCEPT ![r] = "freed", ![c] = IF d.handle = "open" THEN "live" ELSE @]
    BY <1>4
<1>9. destroyed' = [destroyed EXCEPT ![r] = m]
    <2>1. destroyed' = [destroyed EXCEPT ![r] = destroyed[r] + m]
        BY <1>4
    <2> QED
        BY <1>3, <2>1
<1> HIDE DEF d, x
<1>10. left' = left
    BY <1>6, <1>7
<1>11. v \in Results \ {"none", "request", "operation", "refused"} /\ (h = "live" => v = "reservation") /\ h \in {"none", "live"}
    BY <1>6 DEF HandleOutcome, ValidShape, CustomShapes, Results, Wrappers
<1>12. m \in Nat /\ odd \subseteq odd' /\ (m <= 1 \/ r \in odd')
    BY <1>7
<1>13. handles' = [handles EXCEPT ![r] = "freed", ![c] = h]
    <2>1. CASE d.handle = "open"
        BY <1>8, <2>1
    <2>2. CASE d.handle # "open"
        BY <1>2, <1>8, <2>2 DEF PipelineInv, PipelineType
    <2> QED
        BY <2>1, <2>2
<1> HIDE DEF v, h, m
<1> QED
    BY <1>1, <1>5, <1>7, <1>9, <1>10, <1>11, <1>12, <1>13, FollowEndKeeps DEF Locked

\* A request is closed, by Close or by an execution that found it closed.
LEMMA CloseKeeps ==
    ASSUME PipelineInv, NEW c \in PipelineCalls, ExecuteClosed(c) \/ CloseInnerRequest(c)
    PROVE  PipelineInv'
<1> DEFINE r == request[c]
<1>1. stage[c] \in {"closed", "close", "releaseClose"} /\ stage' = [stage EXCEPT ![c] = "done"]
    BY DEF ExecuteClosed, CloseInnerRequest, At
<1>2. r \in PipelineCalls /\ handles[c] = "none" /\ r # c
    BY <1>1, FollowFacts DEF Following, Locked
<1>3. /\ mu' = [mu EXCEPT ![r] = NoUser] /\ left' = left
      /\ UNCHANGED <<name, request, lane, applied, odd>>
    BY DEF ExecuteClosed, CloseInnerRequest
<1>4. CASE ExecuteClosed(c)
    <2>1. ResolveWith(c, "error") /\ UNCHANGED <<handles, destroyed, open>>
        BY <1>4 DEF ExecuteClosed
    <2>2. /\ handles' = [handles EXCEPT ![r] = handles[r], ![c] = "none"]
          /\ destroyed' = [destroyed EXCEPT ![r] = destroyed[r]]
          /\ handles[r] \in {"none", "live", "freed"} /\ destroyed[r] \in Nat
        BY <1>2, <2>1 DEF PipelineInv, PipelineType
    <2>3. "error" \in Results \ {"none", "request", "operation"}
        BY DEF Results
    <2> QED
        BY <1>1, <1>3, <2>1, <2>2, <2>3, FollowEndKeeps DEF Locked
<1>5. CASE CloseInnerRequest(c)
    <2> DEFINE m == IF open[r] THEN destroyed[r] + 1 ELSE destroyed[r]
    <2>1. PICK v \in {"value", "refused"} : ResolveWith(c, v)
        BY <1>5 DEF CloseInnerRequest
    <2>2. /\ open' = [open EXCEPT ![r] = FALSE] /\ destroyed' = [destroyed EXCEPT ![r] = m]
          /\ handles' = [handles EXCEPT ![r] = "freed"]
        BY <1>5 DEF CloseInnerRequest
    <2>3. m \in Nat /\ (m <= 1 \/ r \in odd)
        BY <1>2 DEF PipelineInv, PipelineType, HandleInv
    <2>4. handles' = [handles EXCEPT ![r] = "freed", ![c] = "none"]
        BY <1>2, <2>2 DEF PipelineInv, PipelineType
    <2>5. v \in Results \ {"none", "request", "operation"}
        BY DEF Results
    <2> HIDE DEF m
    <2> QED
        BY <1>1, <1>3, <2>1, <2>2, <2>3, <2>4, <2>5, FollowEndKeeps DEF Locked
<1> QED
    BY <1>4, <1>5

\* The caller settles what it was given, once.
LEMMA SettleKeeps ==
    ASSUME PipelineInv, NEW c \in PipelineCalls, SettleHandle(c)
    PROVE  PipelineInv'
<1> USE DEF PipelineInv
<1>1. /\ result[c] \in {"reservation", "operation"} /\ handles[c] = "live"
      /\ handles' = [handles EXCEPT ![c] = "freed"] /\ destroyed' = [destroyed EXCEPT ![c] = @ + 1]
      /\ UNCHANGED <<stage, name, request, lane, result, applied, open, mu, odd, left>>
    BY DEF SettleHandle, callState, laneState
<1>2. destroyed[c] = 0 /\ ~open[c] /\ stage[c] = "done"
    BY <1>1 DEF HandleInv, AppliedInv
<1>3. PipelineType'
    BY <1>1 DEF PipelineType
<1>4. ASSUME NEW d \in PipelineCalls PROVE AppliedInv(d)' /\ FollowInv(d)'
    BY <1>1, <1>4 DEF AppliedInv, FollowInv
<1>5. ASSUME NEW d \in PipelineCalls PROVE HandleInv(d)'
    BY <1>1, <1>2, <1>5 DEF HandleInv, PipelineType
<1> QED
    BY <1>3, <1>4, <1>5

\* Every step keeps the invariant.
LEMMA PipelineKeeps ==
    ASSUME PipelineInv, [PipelineNext(PipelineCalls)]_pipelineVars
    PROVE  PipelineInv'
<1>1. CASE (\E how \in {"graceful", "hard"} : Stop(how)) \/ StopReturned \/ UNCHANGED pipelineVars
    <2>1. UNCHANGED <<callState, laneState, result, applied, handleState>>
        BY <1>1 DEF Stop, StopReturned, pipelineVars
    <2> QED
        BY <2>1 DEF callState, laneState, handleState, PipelineInv, PipelineType, AppliedInv, FollowInv, HandleInv
<1>2. ASSUME NEW c \in Users, TraderCall(c)
      PROVE  PipelineInv'
    <2>1. c \in PipelineCalls
        BY DEF PipelineCalls
    <2>2. CASE StartPreTrade(c) \/ ExecutePreTrade(c) \/ ApplyDropCopy(c)
        BY <2>1, <2>2, SubmitKeeps DEF StartPreTrade, ExecutePreTrade, ApplyDropCopy, FollowUps
    <2> QED
        BY <1>2, <2>2, FollowUpKeeps DEF TraderCall, Execute, CloseRequest
<1>3. ASSUME NEW c \in Admins, AdminCall(c)
      PROVE  PipelineInv'
    <2>1. c \in PipelineCalls
        BY DEF PipelineCalls
    <2> QED
        BY <1>3, <2>1, SubmitKeeps, ExclusiveKeeps
        DEF AdminCall, ApplyExecutionReport, ApplyAccountAdjustment, SubmitFn, GroupOf, Block, BlockWithCause,
            Unblock, UnblockAll, ReplaceBlockReason, BlockGroup, UnblockGroup, ReplaceGroupBlockReason, FollowUps
<1>4. ASSUME NEW c \in PipelineCalls,
             HandleTask(c) \/ FollowUpTask(c) \/ SettleHandle(c) \/ ValueTask(c)
      PROVE  PipelineInv'
    BY <1>4, HandleTaskKeeps, LockKeeps, EndKeeps, CloseKeeps, SettleKeeps, ValueTaskKeeps DEF FollowUpTask
<1> QED
    BY <1>1, <1>2, <1>3, <1>4, LaneKeeps DEF PipelineNext, PipelineCalls

\* The inductive invariant holds in every reachable state.
LEMMA AlwaysPipeline == PipelineSpec => []PipelineInv
BY PipelineInitial, PipelineKeeps, PTL DEF PipelineSpec

-----------------------------------------------------------------------------
\* Nothing a native call filled in is left over, and a handle that is alive is
\* the caller's through a resolved future.
THEOREM NeverOrphans == PipelineSpec => []NoOrphan
<1>1. PipelineInv => NoOrphan
    BY DEF PipelineInv, PipelineType, HandleInv, Wrappers, NoOrphan
<1> QED
    BY AlwaysPipeline, <1>1, PTL

\* A call whose future says refused was never applied, any other was once.
THEOREM AlwaysRefusedIsUnapplied == PipelineSpec => []RefusedIsUnapplied
<1>1. PipelineInv => RefusedIsUnapplied
    BY DEF PipelineInv, AppliedInv, Done, RefusedIsUnapplied
<1> QED
    BY AlwaysPipeline, <1>1, PTL

\* However Execute, Close, refusals and stops meet, a native request is executed
\* while it exists and destroyed once, but for a status nobody defined.
THEOREM AlwaysDestroyedOnce == PipelineSpec => []RequestDestroyedOnce
<1>1. PipelineInv => RequestDestroyedOnce
    <2> SUFFICES ASSUME PipelineInv PROVE RequestDestroyedOnce
        OBVIOUS
    <2>1. ASSUME NEW r \in Users PROVE destroyed[r] <= 1 \/ r \in odd
        BY <2>1 DEF PipelineInv, PipelineType, HandleInv, PipelineCalls
    <2>2. ASSUME NEW c \in Users, stage[c] = "native" PROVE handles[request[c]] = "live"
        <3>1. request[c] \in PipelineCalls /\ open[request[c]]
            BY <2>2 DEF PipelineInv, FollowInv, PipelineCalls, Following, Locked
        <3> QED
            BY <3>1 DEF PipelineInv, HandleInv
    <2> QED
        BY <2>1, <2>2 DEF RequestDestroyedOnce
<1> QED
    BY AlwaysPipeline, <1>1, PTL

=============================================================================
