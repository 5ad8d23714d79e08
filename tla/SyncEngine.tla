----------------------------- MODULE SyncEngine -----------------------------
(***************************************************************************)
(* The synchronous engine: what one call of engine.go, accounts/ or          *)
(* pretrade/ makes of what the native library gives back.  A native call     *)
(* fills out-parameters; every object in them belongs to the caller, who     *)
(* copies what it wants of it and must destroy it, on every path.           *)
(*                                                                         *)
(* A result has a kind, "handle" (an open Request, Reservation, ...), "nil"   *)
(* (a wrapper without a handle), "rejects", "err" or "value", and live, the  *)
(* native objects that still exist when the call returns.                    *)
(***************************************************************************)
EXTENDS Naturals, FiniteSets

Result(kind, live) == [kind |-> kind, live |-> live]

\* What a native pre-trade call may leave in its out-parameters.  A status that
\* openpit.h does not define says nothing about them.  The library always
\* explains an error; consumeSharedString panics if it does not.
PreTradeOutcomes ==
    {[status |-> "Passed", outs |-> {"handle"}],
     [status |-> "Passed", outs |-> {}],
     [status |-> "Rejected", outs |-> {"rejects"}],
     [status |-> "Rejected", outs |-> {}],
     [status |-> "Error", outs |-> {"error"}]}
    \cup [status : {"Unexpected"}, outs : SUBSET {"handle", "rejects", "error"}]

\* consumeSharedStringAsError: the text is copied, the string destroyed.
ConsumeError(live) == Result("err", live \ {"error"})

\* native.EngineStartPreTrade: a handle or a reject list is the caller's; an
\* error is consumed; of an unknown status everything is destroyed.
NativeStartPreTrade(n) ==
    CASE n.status = "Passed" ->
             Result(IF "handle" \in n.outs THEN "handle" ELSE "nil", n.outs)
      [] n.status = "Rejected" ->
             Result(IF "rejects" \in n.outs THEN "rejects" ELSE "err", n.outs)
      [] n.status = "Error" -> ConsumeError(n.outs)
      [] n.status = "Unexpected" -> Result("err", {})

\* native.EngineExecutePreTrade and EngineApplyDropCopy have the same branches.
NativeExecutePreTrade(n) == NativeStartPreTrade(n)
NativeApplyDropCopy(n) == NativeStartPreTrade(n)

\* native.PretradePreTradeRequestExecute does too, and of an unknown status it
\* also destroys the request it was called on.
NativeRequestExecute(n) == NativeStartPreTrade(n)
DestroysRequest(n) == n.status = "Unexpected"

\* reject.NewListFromHandle refuses an empty list.
RejectList(empty) == IF empty THEN "err" ELSE "rejects"

\* Variant of TakeRejects: a list that cannot be converted is not destroyed.
TakeRejectsLeak(r, empty) ==
    IF r.kind # "rejects" THEN r
    ELSE IF empty THEN Result("err", r.live)
    ELSE Result("rejects", r.live \ {"rejects"})

\* A reject list is copied, or found empty, and destroyed either way.
TakeRejects(r, empty) ==
    IF r.kind = "rejects" THEN Result(RejectList(empty), r.live \ {"rejects"})
    ELSE r

\* Engine.StartPreTrade, ExecutePreTrade, ApplyDropCopy, Request.Execute.
EngineStartPreTrade(n, empty) == TakeRejects(NativeStartPreTrade(n), empty)
EngineExecutePreTrade(n, empty) == TakeRejects(NativeExecutePreTrade(n), empty)
EngineApplyDropCopy(n, empty) == TakeRejects(NativeApplyDropCopy(n), empty)
RequestExecute(n, empty) == TakeRejects(NativeRequestExecute(n), empty)

-----------------------------------------------------------------------------
(* Calls that give back values.                                             *)

ReportOutcomes ==
    {[status |-> "Passed", outs |-> {"result"}], [status |-> "Error", outs |-> {"error"}]}

\* native.EngineApplyExecutionReport.
NativeApplyExecutionReport(n) ==
    IF n.status = "Passed" THEN Result("value", n.outs) ELSE ConsumeError(n.outs)

\* Engine.ApplyExecutionReport: the blocks, outcomes and P&Ls are borrowed from
\* the aggregate, which is destroyed after they are copied.
EngineApplyExecutionReport(n) ==
    LET r == NativeApplyExecutionReport(n)
    IN IF r.kind = "err" THEN r ELSE Result("value", r.live \ {"result"})

AdjustmentOutcomes ==
    [status : {"Applied"}, outs : SUBSET {"outcomes", "blocks"}]
    \cup {[status |-> "Rejected", outs |-> {"batchError"}],
          [status |-> "Rejected", outs |-> {}],
          [status |-> "Error", outs |-> {"error"}]}
    \cup [status : {"Unexpected"},
          outs : SUBSET {"batchError", "outcomes", "blocks", "error"}]

\* native.EngineApplyAccountAdjustment.
NativeApplyAccountAdjustment(n) ==
    CASE n.status = "Applied" -> Result("value", n.outs)
      [] n.status = "Rejected" ->
             Result(IF n.outs = {} THEN "value" ELSE "batchError", n.outs)
      [] n.status = "Error" -> ConsumeError(n.outs)
      [] n.status = "Unexpected" -> Result("err", {})

\* reject.NewAccountAdjustmentBatchErrorFromHandle fails for one without rejects;
\* it is destroyed either way.
TakeBatchError(r, empty) ==
    Result(IF RejectList(empty) = "err" THEN "err" ELSE "value", r.live \ {"batchError"})

\* Engine.ApplyAccountAdjustment: a batch error is converted; the
\* lists are copied and destroyed.
EngineApplyAccountAdjustment(n, empty) ==
    LET r == NativeApplyAccountAdjustment(n)
    IN CASE r.kind = "err" -> r
         [] r.kind = "batchError" -> TakeBatchError(r, empty)
         [] OTHER -> Result("value", r.live \ {"outcomes", "blocks"})

\* Calls that succeed, fail with a domain error of their own, or fail with text.
DomainOutcomes ==
    {[status |-> "Passed", outs |-> {}], [status |-> "Failed", outs |-> {"domainError"}],
     [status |-> "Failed", outs |-> {"error"}]}

\* native.EngineRetireAccount.
NativeRetireAccount(n) ==
    CASE n.status = "Passed" -> Result("value", n.outs)
      [] "domainError" \in n.outs -> Result("domainError", n.outs)
      [] OTHER -> ConsumeError(n.outs)

TakeDomainError(r) ==
    IF r.kind = "domainError" THEN Result("err", r.live \ {"domainError"}) ELSE r

\* reject.NewAccountRetirementErrorFromHandle, NewAccountGroupErrorFromHandle and
\* NewAccountBlockErrorFromHandle: the error is copied, its destruction deferred.
TakeRetirementError(r) == TakeDomainError(r)
TakeGroupError(r) == TakeDomainError(r)
TakeBlockError(r) == TakeDomainError(r)

\* Engine.RetireAccount.
EngineRetireAccount(n) == TakeRetirementError(NativeRetireAccount(n))

\* native.EngineRegisterAccountGroup and EngineUnregisterAccountGroup.
NativeRegisterAccountGroup(n) == NativeRetireAccount(n)

\* Accounts.RegisterGroup and UnregisterGroup.
AccountsRegisterGroup(n) == TakeGroupError(NativeRegisterAccountGroup(n))

\* Accounts.ReplaceBlockReason, BlockGroup, UnblockGroup and
\* ReplaceGroupBlockReason: the native call gives a domain error or nothing.
BlockOutcomes == {n \in DomainOutcomes : "error" \notin n.outs}
AccountsBlockGroup(n) ==
    TakeBlockError(Result(IF n.outs = {} THEN "value" ELSE "domainError", n.outs))

\* Calls that fail with text: native.EngineBlockAccountWithCause,
\* EngineSetAccountCurrency, EngineSetAccountGroupCurrency.
CauseOutcomes == {n \in DomainOutcomes : "domainError" \notin n.outs}
AccountsBlockWithCause(n) ==
    IF n.status = "Passed" THEN Result("value", n.outs) ELSE ConsumeError(n.outs)
NativeSetCurrency(n) ==
    IF n.status = "Passed" THEN Result("value", n.outs) ELSE ConsumeError(n.outs)

\* Accounts.SetCurrency and ClearCurrency, SetGroupCurrency and
\* ClearGroupCurrency, which refuse a group that was never initialized.
CurrencyResults == {NativeSetCurrency(n) : n \in CauseOutcomes} \cup {Result("err", {})}

=============================================================================
