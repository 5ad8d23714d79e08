------------------------------ MODULE Pipeline ------------------------------
(***************************************************************************)
(* The typed operations of AsyncEngine (asyncengine/engine.go), the request  *)
(* handle they give out (asyncengine/request.go, pretrade/request.go) and    *)
(* the futures that carry the results (pkg/future).                          *)
(*                                                                         *)
(* A lane is what module Lifecycle shows it to be: tasks of one routing key   *)
(* run one at a time in the order they were accepted, a hard stop aborts     *)
(* those not started, a submit may be refused, and the release a refused      *)
(* follow-up owes runs somewhere, at some time.  Reservations and drop-copy   *)
(* operations are settled as module Settlement says.                         *)
(*                                                                         *)
(* An element of Users is one call; the future and the handle it produces    *)
(* are named after it.                                                       *)
(***************************************************************************)
EXTENDS SyncEngine, Sequences

CONSTANTS
    Users,      \* calls of traders
    Admins,     \* calls of administrators
    NoUser      \* nobody

PipelineCalls == Users \cup Admins

ASSUME PipelineAssumption == NoUser \notin PipelineCalls /\ Users \cap Admins = {}

RoutingKeys == {"account", "group", "engineWide"}

VARIABLES
    stage,      \* where a call is
    name,       \* the operation that was called
    request,    \* the AsyncRequest a follow-up is about: the call that made it
    lane,       \* the tasks accepted under a routing key, in order
    busy,       \* the task a lane is running
    result,     \* what the call's future was resolved with
    applied,    \* how often the driver was entered for the call
    handles,    \* the native handle the call produced
    destroyed,  \* how often that handle was destroyed
    open,       \* the pretrade.Request around it has its handle
    mu,         \* the call that holds the AsyncRequest's mutex
    odd,        \* requests whose execution ended in an unknown status
    left,       \* native objects nobody will destroy
    stopping,   \* what AsyncEngine was told
    engine      \* the wrapped engine

callState == <<stage, name, request>>
laneState == <<lane, busy>>
handleState == <<handles, destroyed, open, mu, odd, left>>
pipelineVars ==
    <<callState, laneState, result, applied, handleState, stopping, engine>>

PipelineInit ==
    /\ stage = [c \in PipelineCalls |-> "idle"]
    /\ name = [c \in PipelineCalls |-> "none"]
    /\ request = [c \in PipelineCalls |-> NoUser]
    /\ lane = [k \in RoutingKeys |-> <<>>]
    /\ busy = [k \in RoutingKeys |-> NoUser]
    /\ result = [c \in PipelineCalls |-> "none"]
    /\ applied = [c \in PipelineCalls |-> 0]
    /\ handles = [c \in PipelineCalls |-> "none"]
    /\ destroyed = [c \in PipelineCalls |-> 0]
    /\ open = [c \in PipelineCalls |-> FALSE]
    /\ mu = [c \in PipelineCalls |-> NoUser]
    /\ odd = {}
    /\ left = {}
    /\ stopping = "no"
    /\ engine = "live"

-----------------------------------------------------------------------------
(* Futures and submits.                                                     *)

\* Future.Resolve: only the first call has an effect.
ResolveWith(c, v) == result' = [result EXCEPT ![c] = IF @ = "none" THEN v ELSE @]

\* Future.Done, Await, TryGet: a caller that gave up waiting finds the value
\* later.
Done(c) == result[c] # "none"

At(c, from, to) == stage[c] = from /\ stage' = [stage EXCEPT ![c] = to]

\* groupRoutingKey, accountRoutingKey, engineWideRoutingKey.
RoutingKey(op) ==
    CASE op \in {"BlockGroup", "UnblockGroup", "ReplaceGroupBlockReason"} -> "group"
      [] op = "UnblockAll" -> "engineWide"
      [] OTHER -> "account"

\* A call that fails before it is submitted, or whose submit fails (ctx, queue
\* limit, stop), resolves its future at once.
Refused(c, op) ==
    /\ At(c, "idle", "done")
    /\ name' = [name EXCEPT ![c] = op]
    /\ ResolveWith(c, "refused")
    /\ UNCHANGED <<request, laneState, applied, handleState, stopping, engine>>

\* The task is accepted by the lane of its key.
Accepted(c, op) ==
    /\ stopping = "no"
    /\ At(c, "idle", "queued")
    /\ name' = [name EXCEPT ![c] = op]
    /\ lane' = [lane EXCEPT ![RoutingKey(op)] = Append(@, c)]
    /\ UNCHANGED <<request, busy, result, applied, handleState, stopping, engine>>

\* Variant of Submit: a submit reports an error though the task was accepted.
SubmitLate(c, op) ==
    \/ Refused(c, op)
    \/ Accepted(c, op)
    \/ /\ stopping = "no"
       /\ At(c, "idle", "queued")
       /\ name' = [name EXCEPT ![c] = op]
       /\ lane' = [lane EXCEPT ![RoutingKey(op)] = Append(@, c)]
       /\ ResolveWith(c, "refused")
       /\ UNCHANGED <<request, busy, applied, handleState, stopping, engine>>

\* AsyncEngine.submit.
Submit(c, op) == Refused(c, op) \/ Accepted(c, op)

-----------------------------------------------------------------------------
(* The typed operations.  An order or report without an account, or a group   *)
(* that was never initialized, is refused without a submit.                  *)

StartPreTrade(c) == Submit(c, "StartPreTrade")
ExecutePreTrade(c) == Submit(c, "ExecutePreTrade")
ApplyDropCopy(c) == Submit(c, "ApplyDropCopy")
ApplyExecutionReport(c) == Submit(c, "ApplyExecutionReport")
ApplyAccountAdjustment(c) == Submit(c, "ApplyAccountAdjustment")
SubmitFn(c) == Submit(c, "Submit")
GroupOf(c) == Submit(c, "GroupOf")
Block(c) == Submit(c, "Block")
BlockWithCause(c) == Submit(c, "BlockWithCause")
Unblock(c) == Submit(c, "Unblock")
UnblockAll(c) == Submit(c, "UnblockAll")
ReplaceBlockReason(c) == Submit(c, "ReplaceBlockReason")
BlockGroup(c) == Submit(c, "BlockGroup")
UnblockGroup(c) == Submit(c, "UnblockGroup")
ReplaceGroupBlockReason(c) == Submit(c, "ReplaceGroupBlockReason")

-----------------------------------------------------------------------------
(* A lane.                                                                  *)

FollowUps == {"Execute", "Close"}

\* The worker takes the next task and runs it.
RunTaskOf(k) ==
    /\ busy[k] = NoUser /\ lane[k] # <<>> /\ stopping # "hard"
    /\ LET c == Head(lane[k])
       IN /\ At(c, "queued", IF name[c] \in FollowUps THEN "lock" ELSE "driver")
          /\ busy' = [busy EXCEPT ![k] = c]
          /\ applied' = [applied EXCEPT ![c] = IF name[c] \in FollowUps THEN @ ELSE @ + 1]
    /\ lane' = [lane EXCEPT ![k] = Tail(@)]
    /\ UNCHANGED <<name, request, result, handleState, stopping, engine>>

\* A hard stop aborts what was not started: a typed operation resolves with the
\* error, a follow-up closes its request first.
AbortTaskOf(k) ==
    /\ stopping = "hard" /\ busy[k] = NoUser /\ lane[k] # <<>>
    /\ LET c == Head(lane[k])
       IN IF name[c] \in FollowUps
          THEN At(c, "queued", "releaseLock") /\ UNCHANGED result
          ELSE At(c, "queued", "done") /\ ResolveWith(c, "refused")
    /\ lane' = [lane EXCEPT ![k] = Tail(@)]
    /\ UNCHANGED <<name, request, busy, applied, handleState, stopping, engine>>

Leaves(c) == busy' = [busy EXCEPT ![RoutingKey(name[c])] = IF @ = c THEN NoUser ELSE @]

-----------------------------------------------------------------------------
(* What a driver returns.                                                   *)

\* A driver gives back a handle (none, open or closed), rejects, an error.
Shape(h, rejects, err) == [handle |-> h, rejects |-> rejects, err |-> err]

\* What the engine's results look like to AsyncEngine.
ShapeOf(r) ==
    Shape(CASE r.kind = "handle" -> "open" [] r.kind = "nil" -> "closed" [] OTHER -> "none",
          r.kind = "rejects", r.kind = "err")

\* Variant of ValidShape: a handle beside an error or rejects is let through.
ValidShapeLoose(d) == d.handle # "closed"

\* validateDriverResult: an open handle, rejects or an error, and only one.
ValidShape(d) ==
    \/ d.handle = "open" /\ ~d.rejects /\ ~d.err
    \/ d.handle = "none" /\ d.rejects /\ ~d.err
    \/ d.handle = "none" /\ ~d.rejects /\ d.err

\* What the future of a call that asked for a handle is resolved with: the
\* handle is wrapped, or closed when the result has not the right shape.
HandleOutcome(d, wrapper) ==
    CASE ~ValidShape(d) -> "error"
      [] d.err -> "error"
      [] d.rejects -> "rejects"
      [] OTHER -> wrapper

\* The native handle c produced, after the driver's result was looked at.
ProducedHandle(c, d) ==
    /\ handles' = [handles EXCEPT ![c] = IF d.handle # "open" THEN @
                                         ELSE IF ValidShape(d) THEN "live" ELSE "freed"]
    /\ destroyed' = [destroyed EXCEPT ![c] =
                        IF d.handle = "open" /\ ~ValidShape(d) THEN @ + 1 ELSE @]

\* Driver is an interface: an implementation may break its contract.
CustomShapes == [handle : {"none", "open", "closed"}, rejects : BOOLEAN, err : BOOLEAN]

ReturnShape(c, d, live, wrapper) ==
    /\ At(c, "driver", "done")
    /\ ResolveWith(c, HandleOutcome(d, wrapper))
    /\ ProducedHandle(c, d)
    /\ open' = [open EXCEPT ![c] = (wrapper = "request" /\ ValidShape(d) /\ d.handle = "open")]
    /\ left' = left \cup (live \ {"handle"})
    /\ Leaves(c)
    /\ UNCHANGED <<name, request, lane, applied, mu, odd, stopping, engine>>

\* startPreTradeTask.run after the driver returned.
StartPreTradeTask(c) ==
    /\ name[c] = "StartPreTrade"
    /\ \/ \E n \in PreTradeOutcomes, empty \in BOOLEAN :
             LET r == EngineStartPreTrade(n, empty)
             IN ReturnShape(c, ShapeOf(r), r.live, "request")
       \/ \E d \in CustomShapes : ReturnShape(c, d, {}, "request")

\* executePreTradeTask.run, resolveReservationDriverResult.
ExecutePreTradeTask(c) ==
    /\ name[c] = "ExecutePreTrade"
    /\ \/ \E n \in PreTradeOutcomes, empty \in BOOLEAN :
             LET r == EngineExecutePreTrade(n, empty)
             IN ReturnShape(c, ShapeOf(r), r.live, "reservation")
       \/ \E d \in CustomShapes : ReturnShape(c, d, {}, "reservation")

\* applyDropCopyTask.run.
ApplyDropCopyTask(c) ==
    /\ name[c] = "ApplyDropCopy"
    /\ \/ \E n \in PreTradeOutcomes, empty \in BOOLEAN :
             LET r == EngineApplyDropCopy(n, empty)
             IN ReturnShape(c, ShapeOf(r), r.live, "operation")
       \/ \E d \in CustomShapes : ReturnShape(c, d, {}, "operation")

\* A task whose result is a value or an error.
ReturnValue(c, op, results) ==
    /\ name[c] = op
    /\ \E r \in results :
          /\ At(c, "driver", "done")
          /\ ResolveWith(c, IF r.kind = "err" THEN "error" ELSE "value")
          /\ left' = left \cup r.live
    /\ Leaves(c)
    /\ UNCHANGED <<name, request, lane, applied, handles, destroyed, open, mu, odd,
                   stopping, engine>>

PlainResults == {Result("value", {})}
BlockResults == {AccountsBlockGroup(n) : n \in BlockOutcomes}

ApplyReportTask(c) ==
    ReturnValue(c, "ApplyExecutionReport",
                {EngineApplyExecutionReport(n) : n \in ReportOutcomes})
ApplyAdjustmentTask(c) ==
    ReturnValue(c, "ApplyAccountAdjustment",
                {EngineApplyAccountAdjustment(n, empty) :
                    n \in AdjustmentOutcomes, empty \in BOOLEAN})
\* The caller's function, such as one that sets an account's currency.
SubmitTask(c) == ReturnValue(c, "Submit", PlainResults \cup CurrencyResults)
GroupOfTask(c) == ReturnValue(c, "GroupOf", PlainResults)
BlockTask(c) == ReturnValue(c, "Block", PlainResults)
BlockWithCauseTask(c) ==
    ReturnValue(c, "BlockWithCause", {AccountsBlockWithCause(n) : n \in CauseOutcomes})
UnblockTask(c) == ReturnValue(c, "Unblock", PlainResults)
UnblockAllTask(c) == ReturnValue(c, "UnblockAll", PlainResults)
ReplaceBlockReasonTask(c) == ReturnValue(c, "ReplaceBlockReason", BlockResults)
BlockGroupTask(c) == ReturnValue(c, "BlockGroup", BlockResults)
UnblockGroupTask(c) == ReturnValue(c, "UnblockGroup", BlockResults)
ReplaceGroupBlockReasonTask(c) == ReturnValue(c, "ReplaceGroupBlockReason", BlockResults)

\* The exclusive operations (RetireAccount, RegisterGroup, UnregisterGroup) run
\* in AsyncEngine.Exclusive, when every lane is parked.
ExclusiveTask(c) ==
    /\ stopping = "no" /\ \A k \in RoutingKeys : busy[k] = NoUser
    /\ At(c, "idle", "done")
    /\ name' = [name EXCEPT ![c] = "Exclusive"]
    /\ applied' = [applied EXCEPT ![c] = @ + 1]
    /\ \E r \in {EngineRetireAccount(n) : n \in DomainOutcomes}
               \cup {AccountsRegisterGroup(n) : n \in DomainOutcomes} :
          /\ ResolveWith(c, IF r.kind = "err" THEN "error" ELSE "value")
          /\ left' = left \cup r.live
    /\ UNCHANGED <<request, laneState, handles, destroyed, open, mu, odd, stopping, engine>>

-----------------------------------------------------------------------------
(* AsyncRequest.                                                            *)

\* AsyncRequest.Execute or Close of the request that call r produced.  A submit
\* that fails leaves a release behind.
FollowUp(c, op, r) ==
    /\ result[r] = "request" /\ op \in FollowUps
    /\ name' = [name EXCEPT ![c] = op]
    /\ request' = [request EXCEPT ![c] = r]
    /\ \/ /\ stopping = "no"
          /\ At(c, "idle", "queued")
          /\ lane' = [lane EXCEPT !["account"] = Append(@, c)]
       \/ At(c, "idle", "releaseLock") /\ UNCHANGED lane
    /\ UNCHANGED <<busy, result, applied, handleState, stopping, engine>>

Execute(c, r) == FollowUp(c, "Execute", r)
CloseRequest(c, r) == FollowUp(c, "Close", r)

\* Variant of LockRequest: the mutex is not taken.
LockRequestNot(c) ==
    /\ stage[c] \in {"lock", "releaseLock"}
    /\ stage' = [stage EXCEPT ![c] = IF @ = "lock" /\ name[c] = "Execute" THEN "execute"
                                     ELSE IF @ = "lock" THEN "close" ELSE "releaseClose"]
    /\ UNCHANGED <<name, request, laneState, result, applied, handleState, stopping, engine>>

\* r.mu.Lock in executeInner and closeInner.
LockRequest(c) ==
    /\ stage[c] \in {"lock", "releaseLock"}
    /\ mu[request[c]] = NoUser
    /\ mu' = [mu EXCEPT ![request[c]] = c]
    /\ stage' = [stage EXCEPT ![c] = IF @ = "lock" /\ name[c] = "Execute" THEN "execute"
                                     ELSE IF @ = "lock" THEN "close" ELSE "releaseClose"]
    /\ UNCHANGED <<name, request, laneState, result, applied, handles, destroyed, open,
                   odd, left, stopping, engine>>

\* Request.Execute: the native call begins if the request still has its handle.
BeginExecute(c) ==
    LET r == request[c]
    IN /\ At(c, "execute", IF open[r] THEN "native" ELSE "closed")
       /\ applied' = [applied EXCEPT ![c] = IF open[r] THEN @ + 1 ELSE @]
       /\ UNCHANGED <<name, request, laneState, result, handleState, stopping, engine>>

\* The native call returns; the deferred Close destroys the request, and the
\* reservation's future is resolved (executeRequestTask.run).
EndExecute(c) ==
    LET r == request[c]
    IN /\ At(c, "native", "done")
       /\ \E n \in PreTradeOutcomes, empty \in BOOLEAN :
             LET x == RequestExecute(n, empty)
                 twice == DestroysRequest(n)
                 d == ShapeOf(x)
             IN /\ ResolveWith(c, HandleOutcome(d, "reservation"))
                /\ handles' = [handles EXCEPT ![r] = "freed",
                                  ![c] = IF d.handle = "open" THEN "live" ELSE @]
                /\ destroyed' = [destroyed EXCEPT ![r] = @ + (IF twice THEN 2 ELSE 1)]
                /\ odd' = IF twice THEN odd \cup {r} ELSE odd
                /\ left' = left \cup (x.live \ {"handle"})
       /\ open' = [open EXCEPT ![r] = FALSE]
       /\ mu' = [mu EXCEPT ![r] = NoUser]
       /\ Leaves(c)
       /\ UNCHANGED <<name, request, lane, applied, stopping, engine>>

\* Request.Execute without a handle: ErrRequestClosed, and Close does nothing.
ExecuteClosed(c) ==
    /\ At(c, "closed", "done")
    /\ ResolveWith(c, "error")
    /\ mu' = [mu EXCEPT ![request[c]] = NoUser]
    /\ Leaves(c)
    /\ UNCHANGED <<name, request, lane, applied, handles, destroyed, open, odd, left,
                   stopping, engine>>

\* Variant of CloseInnerRequest: a closed request is destroyed again.
CloseInnerRequestAgain(c) ==
    LET r == request[c]
    IN /\ stage[c] \in {"close", "releaseClose"}
       /\ stage' = [stage EXCEPT ![c] = "done"]
       /\ handles' = [handles EXCEPT ![r] = "freed"]
       /\ destroyed' = [destroyed EXCEPT ![r] = @ + 1]
       /\ open' = [open EXCEPT ![r] = FALSE]
       /\ mu' = [mu EXCEPT ![r] = NoUser]
       /\ ResolveWith(c, IF stage[c] = "close" THEN "value" ELSE "refused")
       /\ Leaves(c)
       /\ UNCHANGED <<name, request, lane, applied, odd, left, stopping, engine>>

\* closeInner: Request.Close is idempotent.  It runs as the task of Close, and
\* as the release of an aborted or refused Execute or Close.
CloseInnerRequest(c) ==
    LET r == request[c]
    IN /\ stage[c] \in {"close", "releaseClose"}
       /\ stage' = [stage EXCEPT ![c] = "done"]
       /\ handles' = [handles EXCEPT ![r] = "freed"]
       /\ destroyed' = [destroyed EXCEPT ![r] = IF open[r] THEN @ + 1 ELSE @]
       /\ open' = [open EXCEPT ![r] = FALSE]
       /\ mu' = [mu EXCEPT ![r] = NoUser]
       /\ ResolveWith(c, IF stage[c] = "close" THEN "value" ELSE "refused")
       /\ Leaves(c)
       /\ UNCHANGED <<name, request, lane, applied, odd, left, stopping, engine>>

\* The caller closes the reservation or drop-copy operation it was given.
SettleHandle(c) ==
    /\ result[c] \in {"reservation", "operation"} /\ handles[c] = "live"
    /\ handles' = [handles EXCEPT ![c] = "freed"]
    /\ destroyed' = [destroyed EXCEPT ![c] = @ + 1]
    /\ UNCHANGED <<callState, laneState, result, applied, open, mu, odd, left, stopping, engine>>

-----------------------------------------------------------------------------
(* Stop.                                                                    *)

\* StopGraceful and StopHard refuse new submits.
Stop(how) ==
    /\ stopping # "hard" /\ how # stopping
    /\ stopping' = how
    /\ UNCHANGED <<callState, laneState, result, applied, handleState, engine>>

LanesQuiet == \A k \in RoutingKeys : lane[k] = <<>> /\ busy[k] = NoUser

\* A stop that found the lanes quiet returns nil and releases the engine, once;
\* one that timed out does not.
StopReturned ==
    /\ stopping # "no" /\ LanesQuiet /\ engine = "live"
    /\ engine' = "released"
    /\ UNCHANGED <<callState, laneState, result, applied, handleState, stopping>>

-----------------------------------------------------------------------------
TraderCall(c) ==
    \/ StartPreTrade(c) \/ ExecutePreTrade(c) \/ ApplyDropCopy(c)
    \/ \E r \in Users \ {c} : Execute(c, r) \/ CloseRequest(c, r)

AdminCall(c) ==
    \/ ApplyExecutionReport(c) \/ ApplyAccountAdjustment(c) \/ SubmitFn(c)
    \/ GroupOf(c) \/ Block(c) \/ BlockWithCause(c) \/ Unblock(c) \/ UnblockAll(c)
    \/ ReplaceBlockReason(c) \/ BlockGroup(c) \/ UnblockGroup(c)
    \/ ReplaceGroupBlockReason(c) \/ ExclusiveTask(c)

HandleTask(c) == StartPreTradeTask(c) \/ ExecutePreTradeTask(c) \/ ApplyDropCopyTask(c)

ValueTask(c) ==
    \/ ApplyReportTask(c) \/ ApplyAdjustmentTask(c) \/ SubmitTask(c) \/ GroupOfTask(c)
    \/ BlockTask(c) \/ BlockWithCauseTask(c) \/ UnblockTask(c) \/ UnblockAllTask(c)
    \/ ReplaceBlockReasonTask(c) \/ BlockGroupTask(c) \/ UnblockGroupTask(c)
    \/ ReplaceGroupBlockReasonTask(c)

FollowUpTask(c) ==
    LockRequest(c) \/ BeginExecute(c) \/ EndExecute(c) \/ ExecuteClosed(c)
    \/ CloseInnerRequest(c)

\* One step of a system in which the given calls are made.
PipelineNext(calls) ==
    \/ \E c \in calls \cap Users : TraderCall(c) \/ HandleTask(c) \/ FollowUpTask(c) \/ SettleHandle(c)
    \/ \E c \in calls \cap Admins : AdminCall(c) \/ ValueTask(c)
    \/ \E k \in RoutingKeys : RunTaskOf(k) \/ AbortTaskOf(k)
    \/ \E how \in {"graceful", "hard"} : Stop(how)
    \/ StopReturned

PipelineSpec == PipelineInit /\ [][PipelineNext(PipelineCalls)]_pipelineVars

-----------------------------------------------------------------------------
(* Properties.                                                              *)

\* A native handle that exists is in somebody's hands: the worker's, or the
\* caller's through a resolved future.  Nothing else of a native call is left
\* over, on any path through results, wrong shapes, failed conversions, aborts
\* and refused follow-ups.
NoOrphan ==
    /\ left = {}
    /\ \A c \in PipelineCalls :
          handles[c] = "live" => result[c] \in {"request", "reservation", "operation"}

\* "The caller MUST retry" (AsyncEngine.ApplyExecutionReport): a future that
\* says the operation was refused or aborted tells the truth, the engine was
\* never entered for it and never will be; any other result means it was
\* entered once.
RefusedIsUnapplied ==
    \A c \in PipelineCalls :
        Done(c) => \/ result[c] = "refused" /\ applied[c] = 0
                   \/ result[c] # "refused" /\ (name[c] \notin FollowUps => applied[c] = 1)

\* A native request is executed by one call, which no other call disturbs, and
\* destroyed once, however Execute, Close, refusals and stops meet.  The one
\* exception is an execution that ends in a status openpit.h does not define.
RequestDestroyedOnce ==
    /\ \A r \in Users : destroyed[r] <= 1 \/ r \in odd
    /\ \A c \in Users : stage[c] = "native" => handles[request[c]] = "live"

=============================================================================
