----------------------------- MODULE PolicyCalls -----------------------------
(***************************************************************************)
(* What policies do in an engine that was built (module EngineBuilder): the   *)
(* hooks the native library calls back (internal/custompolicy), the           *)
(* mutations they register (tx, internal/mutation), the client payloads they  *)
(* are shown (client_engine.go, pretrade/policy_adapter.go), and the handles   *)
(* that settle the mutations (pretrade).                                    *)
(*                                                                         *)
(* The library runs the hooks of a call one after the other and reaches Go    *)
(* through cgo.Handles.  A hook or a finalizer may panic.  An element of       *)
(* Orders is one order, report, adjustment or retirement.                   *)
(***************************************************************************)
EXTENDS EngineBuilder

CONSTANT Orders

VARIABLES
    clientRequest,  \* its request: "none", "open", "executing", "executed", "closed"
    payload,        \* the cgo.Handle of the client's value: "none", "live", "deleted"
    held,           \* its reservation, drop-copy operation or dry-run report:
                    \* "none", "pending", "resolved", "report", "closed"
    verdict,        \* what the caller was told
    callbacks,      \* the cgo.Handle of the mutation a policy pushed
    tentative,      \* the state the policy applied for it
    killed,         \* the engine's kill switch, the block of every account
    broken,         \* history: what raised the block since the last UnblockAll
    panicked,       \* history: orders a hook panicked on
    late,           \* history: orders that asked for pre-trade while broken # {}
    stray           \* history: a callback found its cgo.Handle deleted

mutationVars == <<callbacks, tentative, killed, broken>>
orderVars == <<clientRequest, payload, held, verdict>>
policyCallVars == <<builderVars, orderVars, mutationVars, panicked, late, stray>>

PolicyCallsInit ==
    /\ BuilderInit
    /\ clientRequest = [o \in Orders |-> "none"]
    /\ payload = [o \in Orders |-> "none"]
    /\ held = [o \in Orders |-> "none"]
    /\ verdict = [o \in Orders |-> "none"]
    /\ callbacks = [o \in Orders |-> [p \in Policies |-> "none"]]
    /\ tentative = [o \in Orders |-> [p \in Policies |-> "none"]]
    /\ killed = FALSE
    /\ broken = {}
    /\ panicked = {}
    /\ late = {}
    /\ stray = FALSE

-----------------------------------------------------------------------------
(* Hooks.                                                                   *)

Registered == OwnedBy("engine")

\* What a hook does: its verdict, and whether it pushed a mutation before it.
\* "panicNil" is panic(nil) under GODEBUG=panicnil=1, which recover() does not show.
Hooks == [Registered -> [does : {"accept", "reject", "panic", "panicNil"}, pushes : BOOLEAN]]
Checks == {h \in Hooks : \A p \in Registered : ~h[p].pushes}

\* safePayload: a payload that is nil or of another type is not found, and one
\* whose cgo.Handle is gone panics, which is recovered.
SafePayload(seen) == seen = "live"

\* A safe adapter without its payload rejects with SystemUnavailable.
SafeHook(does, seen) == IF SafePayload(seen) THEN does ELSE "fail"

\* A fast adapter takes the payload for granted: without it, it panics.
FastHook(does, seen) == IF seen = "live" THEN does ELSE "panic"

\* What the library sees of policy p's hook.
Does(p, does, seen) ==
    CASE adapter[p] = "none" -> does
      [] adapter[p] = "safe" -> SafeHook(does, seen)
      [] adapter[p] = "fast" -> FastHook(does, seen)

HookPanics(p, does, seen) == Does(p, does, seen) \in {"panic", "panicNil"}

\* Variant of ZeroValue: a check accepts with nil, not with the shared empty list.
ZeroValueAccept(hook) == "accept"

\* What the library makes of the zero value of a hook's result.  NewNativeRejectList
\* accepts with the shared empty list, and a nil list is a callback that failed,
\* for which the library puts one SystemUnavailable reject.  A report without a
\* block returns nil, and the zero decision on a retirement is Accept.
ZeroValue(hook) == IF hook \in {"report", "retirement"} THEN "accept" ELSE "fail"

\* Variant of HookVerdict: every hook asks recover() alone whether it panicked.
HookVerdictUnguarded(hook, p, does, seen) ==
    CASE Does(p, does, seen) = "panic" -> "fail"
      [] Does(p, does, seen) = "panicNil" -> ZeroValue(hook)
      [] OTHER -> Does(p, does, seen)

\* pitPretradePreTradePolicyCheckPreTradeStart and its kin: a panic that recover()
\* shows becomes a SystemUnavailable reject.  After one that it does not show, a
\* check returns its zero value, a report asks whether it completed, and a
\* retirement has preset EvaluationFailed.
HookVerdict(hook, p, does, seen) ==
    CASE Does(p, does, seen) = "panic" -> "fail"
      [] Does(p, does, seen) = "panicNil" ->
            IF hook \in {"report", "retirement"} THEN "fail" ELSE ZeroValue(hook)
      [] OTHER -> Does(p, does, seen)

Verdicts(hook, h, seen) == {HookVerdict(hook, p, h[p].does, seen) : p \in Registered}
AllAccept(hook, h, seen) == Verdicts(hook, h, seen) \subseteq {"accept"}

\* The hooks find their policy through its cgo.Handle (getPreTrade), and an
\* order of a ClientEngine its payload.
RunHooks(o, h, seen) ==
    /\ stray' = (stray \/ seen = "deleted"
                       \/ \E p \in Registered : policyHandle[p] # "live" \/ closes[p] > 0)
    /\ panicked' = IF \E p \in Registered : HookPanics(p, h[p].does, seen)
                   THEN panicked \cup {o} ELSE panicked

NoHooks == UNCHANGED <<panicked, stray>>

-----------------------------------------------------------------------------
(* Mutations.                                                               *)

\* In the start stage of a drop copy a policy pushes with
\* RecordDropCopyStartMutation.  The callbacks of a push the library refuses are
\* deleted at once, and it is as if there were none.
Pushed(h) == {p \in Registered : h[p].pushes}

\* Mutations.Push of every policy of S.
Push(o, S) ==
    /\ callbacks' = [callbacks EXCEPT ![o] = [p \in Policies |->
                        IF p \in S THEN "live" ELSE @[p]]]
    /\ tentative' = [tentative EXCEPT ![o] = [p \in Policies |->
                        IF p \in S THEN "applied" ELSE @[p]]]
    /\ UNCHANGED <<killed, broken>>

\* Variant of Reported: a panic of a finalizer is recovered and forgotten.
ReportedNot(fails) == FALSE

\* pitMutationCommit and pitMutationRollback: a panic is reported as a failure
\* (succeeded is false until the finalizer is over, so panic(nil) is too), and the
\* library arms the kill switch.
Reported(fails) == fails # {}

\* The finalizers of the mutations S of o run, and their callbacks are freed
\* (pitMutationFree); those in fails panic.
Finalize(o, S, how, fails) ==
    /\ tentative' = [tentative EXCEPT ![o] = [p \in Policies |->
                        IF p \in fails THEN "broken" ELSE IF p \in S THEN how ELSE @[p]]]
    /\ callbacks' = [callbacks EXCEPT ![o] = [p \in Policies |->
                        IF p \in S THEN "deleted" ELSE @[p]]]
    /\ killed' = (killed \/ Reported(fails))
    /\ broken' = broken \cup {<<o, p>> : p \in fails}

\* The mutations that wait for the end of o.
Waiting(o) == {p \in Policies : tentative[o][p] = "applied"}

-----------------------------------------------------------------------------
(* Calls of the engine.                                                     *)

Fresh(o) == engineHandle = "live" /\ verdict[o] = "none" /\ clientRequest[o] = "none"
Tell(o, v) == verdict' = [verdict EXCEPT ![o] = v]

\* newClientOrderPayload: a ClientEngine gives its order a payload, an Engine
\* does not.
Payloads == {"none", "live"}

\* clientPayloadHandle.release, with sync.Once.
Released(seen) == IF seen = "live" THEN "deleted" ELSE seen
KeepPayload(o, seen) == payload' = [payload EXCEPT ![o] = seen]
ReleasePayload(o, seen) == payload' = [payload EXCEPT ![o] = Released(seen)]

\* A call that ends with an error before a hook runs.
Refuse(o) ==
    /\ Fresh(o)
    /\ Tell(o, "error")
    /\ \E seen \in Payloads : ReleasePayload(o, seen)
    /\ UNCHANGED <<clientRequest, held, mutationVars>> /\ NoHooks

\* StartPreTrade and ExecutePreTrade while every account is blocked: the library
\* rejects before a hook runs.
BlockedCall(o) ==
    /\ Fresh(o) /\ killed
    /\ Tell(o, "rejected")
    /\ \E seen \in Payloads : ReleasePayload(o, seen)
    /\ UNCHANGED <<clientRequest, held, mutationVars>> /\ NoHooks

\* Variant of StartPreTradeCall: the payload of a rejected order is kept.
StartPreTradeCallKeeps(o) ==
    /\ Fresh(o) /\ ~killed
    /\ \E h \in Checks, seen \in Payloads :
          /\ RunHooks(o, h, seen)
          /\ KeepPayload(o, seen)
          /\ IF AllAccept("check", h, seen)
             THEN clientRequest' = [clientRequest EXCEPT ![o] = "open"] /\ UNCHANGED verdict
             ELSE Tell(o, "rejected") /\ UNCHANGED clientRequest
    /\ UNCHANGED <<held, mutationVars>>

\* ClientEngine.StartPreTrade: the start stage.  A request owns the payload.
StartPreTradeCall(o) ==
    /\ Fresh(o) /\ ~killed
    /\ \E h \in Checks, seen \in Payloads :
          /\ RunHooks(o, h, seen)
          /\ \/ /\ AllAccept("check", h, seen)
                /\ clientRequest' = [clientRequest EXCEPT ![o] = "open"]
                /\ KeepPayload(o, seen) /\ UNCHANGED verdict
             \/ /\ ~AllAccept("check", h, seen)
                /\ Tell(o, "rejected") /\ ReleasePayload(o, seen)
                /\ UNCHANGED clientRequest
    /\ UNCHANGED <<held, mutationVars>>

\* The main stage and what it leaves: mutations that wait in a reservation, or,
\* after a reject, mutations rolled back.
MainStage(o, h, seen, enforced) ==
    LET passes == Verdicts("check", h, seen) \cap enforced = {}
    IN /\ RunHooks(o, h, seen)
       /\ \/ passes /\ Push(o, Pushed(h))
             /\ Tell(o, "passed") /\ held' = [held EXCEPT ![o] = "pending"]
          \/ /\ ~passes
             /\ \E fails \in SUBSET Pushed(h) : Finalize(o, Pushed(h), "undone", fails)
             /\ Tell(o, "rejected") /\ UNCHANGED held

\* ClientEngine.ExecutePreTrade: every order callback is over when it returns.
ExecutePreTradeCall(o) ==
    /\ Fresh(o) /\ ~killed
    /\ \E h \in Hooks, seen \in Payloads :
          MainStage(o, h, seen, {"reject", "fail"}) /\ ReleasePayload(o, seen)
    /\ UNCHANGED clientRequest

\* ClientEngine.ApplyDropCopy: blocks, the kill switch too, are ignored and
\* ordinary rejects are not enforced, but a hook that could not be evaluated is.
ApplyDropCopyCall(o) ==
    /\ Fresh(o)
    /\ \E h \in Hooks, seen \in Payloads :
          MainStage(o, h, seen, {"fail"}) /\ ReleasePayload(o, seen)
    /\ UNCHANGED clientRequest

\* The verdict of a dry run is the one the call would have had.
DryRunVerdict(h) ==
    IF ~killed /\ AllAccept("check", h, "none") THEN "passed" ELSE "rejected"

\* Engine.StartPreTradeDryRun and ExecutePreTradeDryRun: what the hooks push is
\* discarded, the verdict is in a report.
DryRunCall(o) ==
    /\ Fresh(o)
    /\ \E h \in Hooks :
          /\ RunHooks(o, h, "none")
          /\ Tell(o, DryRunVerdict(h))
          /\ callbacks' = [callbacks EXCEPT ![o] = [p \in Policies |->
                              IF p \in Pushed(h) THEN "deleted" ELSE @[p]]]
    /\ held' = [held EXCEPT ![o] = "report"]
    /\ UNCHANGED <<clientRequest, payload, tentative, killed, broken>>

\* ClientEngine.ApplyExecutionReport: a hook's reject is an account block, and one
\* of every account when the report's account cannot be read.
ApplyReportCall(o) ==
    /\ Fresh(o)
    /\ \E h \in Checks, seen \in Payloads :
          LET blocking == {p \in Registered : HookVerdict("report", p, h[p].does, seen) # "accept"}
          IN /\ RunHooks(o, h, seen)
             /\ Tell(o, IF blocking = {} THEN "passed" ELSE "blocked")
             /\ ReleasePayload(o, seen)
             /\ \/ UNCHANGED mutationVars
                \/ /\ blocking # {} /\ killed' = TRUE
                   /\ broken' = broken \cup {<<o, p>> : p \in blocking}
                   /\ UNCHANGED <<callbacks, tentative>>
    /\ UNCHANGED <<clientRequest, held>>

\* An account adjustment or a retirement, settled within the call; the adapters
\* look for no payload.
SettledCall(o, hook, refusal, failure) ==
    /\ Fresh(o)
    /\ \E h \in Hooks :
          LET passes == AllAccept(hook, h, "live")
          IN /\ RunHooks(o, h, "live")
             /\ \E fails \in SUBSET Pushed(h) :
                   /\ Finalize(o, Pushed(h), IF passes THEN "kept" ELSE "undone", fails)
                   /\ Tell(o, IF ~passes THEN refusal
                              ELSE IF fails # {} THEN failure ELSE "passed")
    /\ UNCHANGED <<clientRequest, held>>

\* ClientEngine.ApplyAccountAdjustment.
ApplyAdjustmentCall(o) ==
    SettledCall(o, "check", "rejected", "passed") /\ \E seen \in Payloads : ReleasePayload(o, seen)

\* Engine.RetireAccount.
RetireAccountCall(o) ==
    SettledCall(o, "retirement", "refused", "finalizerFailed") /\ UNCHANGED payload

-----------------------------------------------------------------------------
(* Handles.                                                                 *)

RequestMoves(o, from, to) ==
    clientRequest[o] = from /\ clientRequest' = [clientRequest EXCEPT ![o] = to]

\* ClientRequest.Execute takes r.mu and enters the library.
BeginExecuteCall(o) ==
    /\ engineHandle = "live"
    /\ RequestMoves(o, "open", "executing")
    /\ UNCHANGED <<payload, held, verdict, mutationVars>> /\ NoHooks

\* The main stage of a request; the payload is released after it.  Whether the
\* library looks at the kill switch again is not said: it may, or go on.
EndExecuteCall(o) ==
    /\ RequestMoves(o, "executing", "executed")
    /\ \/ \E h \in Hooks : MainStage(o, h, payload[o], {"reject", "fail"})
       \/ /\ Tell(o, "error") \/ (killed /\ Tell(o, "rejected"))
          /\ UNCHANGED <<held, mutationVars>> /\ NoHooks
    /\ ReleasePayload(o, payload[o])

\* Variant of CloseRequestCall: r.mu is not taken.
CloseRequestCallNow(o) ==
    /\ clientRequest[o] \in {"open", "executing", "executed"}
    /\ ReleasePayload(o, payload[o])
    /\ clientRequest' = [clientRequest EXCEPT ![o] = IF @ = "executing" THEN @ ELSE "closed"]
    /\ UNCHANGED <<held, verdict, mutationVars>> /\ NoHooks

\* ClientRequest.Close waits for r.mu.
CloseRequestCall(o) ==
    /\ clientRequest[o] \in {"open", "executed"}
    /\ ReleasePayload(o, payload[o])
    /\ clientRequest' = [clientRequest EXCEPT ![o] = "closed"]
    /\ UNCHANGED <<held, verdict, mutationVars>> /\ NoHooks

Resolve(o, to) ==
    /\ held[o] = "pending"
    /\ held' = [held EXCEPT ![o] = to]
    /\ UNCHANGED <<clientRequest, payload, verdict>> /\ NoHooks

\* DropCopyOperation.commit and rollback (and Reservation's): the finalizers run
\* within the call, and a failure of theirs is not its caller's.
CommitHeld(o) ==
    /\ Resolve(o, "resolved")
    /\ \E fails \in SUBSET Waiting(o) : Finalize(o, Waiting(o), "kept", fails)
RollbackHeld(o) ==
    /\ Resolve(o, "resolved")
    /\ \E fails \in SUBSET Waiting(o) : Finalize(o, Waiting(o), "undone", fails)

\* DropCopyOperation.close: what is pending is rolled back.
CloseHeld(o) ==
    \/ /\ Resolve(o, "closed")
       /\ \E fails \in SUBSET Waiting(o) : Finalize(o, Waiting(o), "undone", fails)
    \/ /\ held[o] = "resolved"
       /\ held' = [held EXCEPT ![o] = "closed"]
       /\ UNCHANGED <<clientRequest, payload, verdict, mutationVars>> /\ NoHooks

\* DryRunReport.Close.
CloseReport(o) ==
    /\ held[o] = "report"
    /\ held' = [held EXCEPT ![o] = "closed"]
    /\ UNCHANGED <<clientRequest, payload, verdict, mutationVars>> /\ NoHooks

\* Accounts.UnblockAll lifts the kill switch.
LiftKillSwitch ==
    /\ engineHandle = "live" /\ killed
    /\ killed' = FALSE /\ broken' = {}
    /\ UNCHANGED <<orderVars, callbacks, tentative, late>> /\ NoHooks

-----------------------------------------------------------------------------
\* A call that asks for pre-trade enters the library.
Enters(o) == late' = IF broken # {} THEN late \cup {o} ELSE late

OrderStep(o) ==
    \/ /\ BlockedCall(o) \/ StartPreTradeCall(o) \/ ExecutePreTradeCall(o) \/ DryRunCall(o)
       /\ Enters(o)
    \/ /\ \/ Refuse(o) \/ ApplyDropCopyCall(o) \/ ApplyReportCall(o)
          \/ ApplyAdjustmentCall(o) \/ RetireAccountCall(o)
          \/ BeginExecuteCall(o) \/ EndExecuteCall(o) \/ CloseRequestCall(o)
          \/ CommitHeld(o) \/ RollbackHeld(o) \/ CloseHeld(o) \/ CloseReport(o)
       /\ UNCHANGED late

\* Engine.Stop is not called while a call is under way.
StopIdleEngine == StopEngine /\ \A o \in Orders : clientRequest[o] # "executing"

\* One step of a program that makes the given policies and orders.
PolicyCallsNext(mine, orders) ==
    \/ /\ BuilderNext(mine) \/ StopIdleEngine
       /\ UNCHANGED <<orderVars, mutationVars, panicked, late, stray>>
    \/ ((\E o \in orders : OrderStep(o)) \/ LiftKillSwitch) /\ UNCHANGED builderVars

PolicyCallsSpec ==
    PolicyCallsInit /\ [][PolicyCallsNext(Policies, Orders)]_policyCallVars

-----------------------------------------------------------------------------
(* Properties.                                                              *)

\* Every callback of the library finds what it needs: a policy that is open, a
\* payload that is alive.  And what a call or a handle kept alive goes with it:
\* a payload lasts as long as a request that may still run, a mutation's
\* callbacks and the state it stands for as long as the handle that settles it.
CallbacksLive ==
    /\ ~stray
    /\ \A o \in Orders :
          /\ payload[o] = "live" => clientRequest[o] \in {"open", "executing"}
          /\ \A p \in Policies :
                (callbacks[o][p] = "live" \/ tentative[o][p] = "applied") => held[o] = "pending"

\* A hook that panics, with a value or with nil, passes nothing: no call of the
\* library, dry runs, reports and retirements included, ends in an acceptance
\* after it, and what the other policies applied for the call is not kept.
FailuresBlock ==
    \A o \in panicked :
        /\ verdict[o] # "passed"
        /\ \A p \in Policies : tentative[o][p] \notin {"applied", "kept"}

\* After a finalizer failed, or a report of an unknown account was blocked, no
\* order that asks for pre-trade gets it, dry runs included, until an operator
\* calls UnblockAll: whatever was settled without a failure meanwhile, it is
\* rejected, and has no request to execute later.
KillSwitchHolds ==
    \A o \in late : verdict[o] = "rejected" /\ clientRequest[o] = "none"

=============================================================================
