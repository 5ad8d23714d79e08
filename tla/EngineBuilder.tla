---------------------------- MODULE EngineBuilder ----------------------------
(***************************************************************************)
(* Who owns a custom policy: the builders of engine_builder.go and           *)
(* client_engine_builder.go, custompolicy.StartPreTrade and Engine.Stop.     *)
(*                                                                         *)
(* A policy handed to a builder is the SDK's to close.  Until it is          *)
(* registered it is a Go value; registered, it is a native object that       *)
(* points at a cgo.Handle of the Go value, and its last native reference     *)
(* calls back to close it.  Each call of the caller may be the one that       *)
(* fails.                                                                   *)
(***************************************************************************)
EXTENDS Naturals, FiniteSets

CONSTANT Policies   \* the policies of the caller

ASSUME PoliciesAssumption == IsFiniteSet(Policies)

VARIABLES
    builder,       \* "none", "live" or "failed" (no b.handle), "closed"
    builderErr,    \* b.err # nil
    unfinished,    \* b.unfinished
    handed,        \* the policies the caller gave away
    adapter,       \* how a policy sees client payloads: "none", "safe", "fast"
    owner,         \* who has the native policy: "nobody", "builder", "engine"
    policyHandle,  \* its cgo.Handle: "none", "live", "deleted"
    closes,        \* how often the policy's Close was called
    engineHandle,  \* the native engine: "none", "live", "destroyed"
    async          \* the caller has the engine only through an AsyncEngine builder

policyVars == <<unfinished, handed, adapter, owner, policyHandle, closes>>
builderVars == <<builder, builderErr, policyVars, engineHandle, async>>

BuilderInit ==
    /\ builder = "none"
    /\ builderErr = FALSE
    /\ unfinished = {}
    /\ handed = {}
    /\ adapter = [p \in Policies |-> "none"]
    /\ owner = [p \in Policies |-> "nobody"]
    /\ policyHandle = [p \in Policies |-> "none"]
    /\ closes = [p \in Policies |-> 0]
    /\ engineHandle = "none"
    /\ async = FALSE

-----------------------------------------------------------------------------
(* Closing a policy.                                                        *)

\* The implementations of the policies of S are closed.
ClosesImpl(S) == closes' = [p \in Policies |-> closes[p] + (IF p \in S THEN 1 ELSE 0)]

\* pitPretradePreTradePolicyClose and PreTrade.Close, for the policies whose last
\* native reference is gone: the implementation is closed and, though it may
\* panic, the cgo.Handle deleted.
FreeUserData(S) ==
    policyHandle' = [p \in Policies |-> IF p \in S THEN "deleted" ELSE policyHandle[p]]

OwnedBy(who) == {p \in Policies : owner[p] = who}

-----------------------------------------------------------------------------
(* The builder.                                                             *)

\* newReadyEngineBuilder, from the first PreTrade or Builtin of a
\* SyncedEngineBuilder; the native builder may not come into being.
NewReadyEngineBuilder ==
    /\ builder = "none"
    /\ \/ builder' = "live" /\ UNCHANGED builderErr
       \/ builder' = "failed" /\ builderErr' = TRUE
    /\ UNCHANGED <<policyVars, engineHandle, async>>

\* The caller still uses the builder: it has not been built or closed.
Building == builder \in {"live", "failed"}

\* scheduleClose.
ScheduleClose(p) ==
    /\ unfinished' = unfinished \cup {p}
    /\ UNCHANGED <<owner, closes>>

\* custompolicy.StartPreTrade succeeds; it fails with its cgo.Handle deleted.
StartPreTradePolicy(p) == policyHandle' = [policyHandle EXCEPT ![p] = "live"]
StartPreTradePolicyFails(p) == policyHandle' = [policyHandle EXCEPT ![p] = "deleted"]

\* Variant of AddFails: the policy is scheduled for closing as well.
AddFailsTwice(p) ==
    /\ ~builderErr
    /\ FreeUserData({p}) /\ ClosesImpl({p})
    /\ builderErr' = TRUE
    /\ unfinished' = unfinished \cup {p}
    /\ UNCHANGED owner

\* native.EngineBuilderAddPreTradePolicy fails: the deferred destruction of the
\* caller's reference drops the last one.
AddFails(p) ==
    /\ ~builderErr
    /\ FreeUserData({p}) /\ ClosesImpl({p})
    /\ builderErr' = TRUE
    /\ UNCHANGED <<unfinished, owner>>

\* ReadyEngineBuilder.addPreTradePolicy.
AddPreTradePolicy(p) ==
    /\ Building /\ p \notin handed
    /\ handed' = handed \cup {p}
    /\ \/ builderErr /\ ScheduleClose(p) /\ UNCHANGED <<builderErr, policyHandle>>
       \/ /\ ~builderErr
          /\ StartPreTradePolicyFails(p)
          /\ builderErr' = TRUE /\ ScheduleClose(p)
       \/ AddFails(p)
       \/ /\ ~builderErr
          /\ StartPreTradePolicy(p)
          /\ owner' = [owner EXCEPT ![p] = "builder"]
          /\ UNCHANGED <<builderErr, unfinished, closes>>
    /\ UNCHANGED <<builder, engineHandle, async>>

\* A builder is for plain policies, or for client policies with one adapter.
OneKind(kind) == \A p \in handed : adapter[p] = kind

\* ReadyEngineBuilder.PreTrade.
PreTrade(p) == OneKind("none") /\ AddPreTradePolicy(p) /\ UNCHANGED adapter

\* ClientReadyEngineBuilder.PreTrade wraps the policy in an adapter.
ClientPreTrade(p, kind) ==
    /\ OneKind(kind)
    /\ AddPreTradePolicy(p)
    /\ adapter' = [adapter EXCEPT ![p] = kind]

\* native.EngineBuilderAddBuiltin...: one that succeeds leaves nothing to own.
AddBuiltinFails == builderErr' = TRUE

\* Builtin: skipped after an error.
Builtin ==
    /\ Building /\ ~builderErr
    /\ AddBuiltinFails
    /\ UNCHANGED <<builder, policyVars, engineHandle, async>>

\* ReadyEngineBuilder.Close, also deferred by Build: what was never registered is
\* closed, and the native builder destroyed with the policies it has left.
CloseBuilder(left) ==
    /\ ClosesImpl(unfinished \cup left)
    /\ FreeUserData(left)
    /\ unfinished' = {}
    /\ builder' = "closed"

\* ReadyEngineBuilder.Close, without Build or after it.
Close ==
    /\ builder # "none"
    /\ CloseBuilder(OwnedBy("builder"))
    /\ owner' = [p \in Policies |-> IF owner[p] = "builder" THEN "nobody" ELSE owner[p]]
    /\ UNCHANGED <<builderErr, handed, adapter, engineHandle, async>>

\* Build and BuildAsync: an earlier error or a failing native build leaves no
\* engine; else the policies are the engine's.  The builder is closed.
Build(asAsync) ==
    /\ Building
    /\ \/ /\ CloseBuilder(OwnedBy("builder"))
          /\ owner' = [p \in Policies |-> IF owner[p] = "builder" THEN "nobody" ELSE owner[p]]
          /\ UNCHANGED <<engineHandle, async>>
       \/ /\ ~builderErr
          /\ CloseBuilder({})
          /\ owner' = [p \in Policies |-> IF owner[p] = "builder" THEN "engine" ELSE owner[p]]
          /\ engineHandle' = "live" /\ async' = asAsync
    /\ UNCHANGED <<builderErr, handed, adapter>>

\* AccountSyncReadyEngineBuilder.BuildAsync hands the engine to an AsyncEngine's
\* builder.
BuildAsync == Build(TRUE)

\* Variant of StopEngine: the handle is kept, and destroyed again.
StopEngineAgain ==
    /\ engineHandle # "none"
    /\ ClosesImpl(OwnedBy("engine")) /\ FreeUserData(OwnedBy("engine"))
    /\ engineHandle' = "destroyed"
    /\ UNCHANGED <<builder, builderErr, unfinished, handed, adapter, owner, async>>

\* Engine.Stop, called by the owner of the engine, or once by an AsyncEngine that
\* was stopped: native.DestroyEngine of a nil handle does nothing.
StopEngine ==
    /\ engineHandle # "none"
    /\ ClosesImpl(OwnedBy("engine")) /\ FreeUserData(OwnedBy("engine"))
    /\ owner' = [p \in Policies |-> IF owner[p] = "engine" THEN "nobody" ELSE owner[p]]
    /\ engineHandle' = "destroyed"
    /\ UNCHANGED <<builder, builderErr, unfinished, handed, adapter, async>>

\* One step of a program that makes the given policies.
BuilderNext(mine) ==
    \/ NewReadyEngineBuilder
    \/ \E p \in mine : PreTrade(p) \/ (\E kind \in {"safe", "fast"} : ClientPreTrade(p, kind))
    \/ Builtin \/ Close
    \/ Build(FALSE) \/ BuildAsync

-----------------------------------------------------------------------------
(* Properties.                                                              *)

\* "Every policy must go through addPolicy even after a previous failure so that
\* the builder takes responsibility for releasing it" (engine_builder.go): a
\* policy that was handed over is, whatever failed, in one place: waiting to be
\* closed by the builder, in the native builder or engine behind a live
\* cgo.Handle, or closed, once.  Nothing is left when builder and engine are gone.
PolicyOwnedOnce ==
    \A p \in handed :
        /\ closes[p] <= 1
        /\ (IF p \in unfinished THEN 1 ELSE 0) + (IF owner[p] # "nobody" THEN 1 ELSE 0)
              + closes[p] = 1
        /\ policyHandle[p] = "live" <=> owner[p] # "nobody"
        /\ owner[p] = "engine" => engineHandle = "live"
        /\ owner[p] = "builder" \/ p \in unfinished => Building

=============================================================================
