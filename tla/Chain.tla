------------------------------- MODULE Chain -------------------------------
(***************************************************************************)
(* One run of a lane chain (asyncengine/scenario.go and scenario_admin.go):  *)
(* a plan of steps is validated, queued as one task and executed on its      *)
(* lane.  Caller hooks may fail or panic, the engine may answer with any     *)
(* shape, and a hook may leave its operation result to another goroutine,    *)
(* which reads it whenever it likes.                                        *)
(*                                                                         *)
(* A panic and an error end a step alike: both reach the deferred function   *)
(* of execute with an error to report.                                      *)
(***************************************************************************)
EXTENDS Naturals, Sequences

CONSTANT MaxSteps   \* bound on the length of a plan

ASSUME ChainAssumption == MaxSteps \in Nat

-----------------------------------------------------------------------------
(* Plans.                                                                   *)

Pending == {"preTrade", "dropCopy"}          \* leave an operation to settle
OrderSteps == Pending \cup {"checkOrder"}
AdminSteps == {"blockAccount", "unblockAccount", "setAccountCurrency",
               "clearAccountCurrency", "setSpotFundsAccountPnl"}
AccountSteps == {"executionReport", "accountAdjustment"} \cup AdminSteps
GroupSteps == {"blockAccountGroup", "unblockAccountGroup"}
Steps == {"then"} \cup OrderSteps \cup AccountSteps \cup GroupSteps

\* Steps whose input a hook prepares before the engine is called.
Prepares == {"executionReport", "accountAdjustment", "blockAccount",
             "blockAccountGroup", "setAccountCurrency", "setSpotFundsAccountPnl"}

\* Steps whose engine call returns no error.
Infallible == {"blockAccount", "unblockAccount", "clearAccountCurrency"}

\* complete: no hook is missing.  finally: the plan has a terminal hook.
Plans == [source : {"order", "account", "group"},
          steps : UNION {[1..n -> Steps] : n \in 0..MaxSteps},
          complete : BOOLEAN,
          finally : BOOLEAN]

\* chainStep.validate.
Fits(step, source) ==
    CASE step \in OrderSteps   -> source = "order"
      [] step \in AccountSteps -> source # "group"
      [] step \in GroupSteps   -> source = "group"
      [] OTHER                 -> TRUE

ValidPlan(p) == p.complete /\ \A n \in DOMAIN p.steps : Fits(p.steps[n], p.source)

-----------------------------------------------------------------------------
VARIABLES
    plan,         \* the plan that is run
    pc,           \* where the run is
    at,           \* the step it is at
    pending,      \* the step whose operation is pending; 0 when none is
    alive,        \* the native handles steps obtained and nobody closed
    fate,         \* what became of the operation of a step
    available,    \* the steps whose operation result may be read
    reading,      \* the step whose result another goroutine reads; 0 for none
    decision,     \* what the hook of the step returned
    runErr,       \* runErr # nil
    marked,       \* runErr wraps ErrChainRetryUnsafe
    status,       \* status
    stateReady,   \* stateReady
    retryUnsafe,  \* t.retryUnsafe
    entered,      \* history: an engine call that can change state was entered
    cleanupPanicked,  \* history: the native cleanup panicked
    told,         \* history: the outcomes Finally was given
    outcome       \* the outcome the future was resolved with

stepVars == <<at, pending, alive, fate, available, decision>>
runVars == <<runErr, marked, status, stateReady, retryUnsafe>>
history == <<entered, cleanupPanicked, told>>
chainVars == <<plan, pc, stepVars, reading, runVars, history, outcome>>

NoOutcome == [status |-> "unknown", err |-> FALSE, unsafe |-> FALSE, retryUnsafe |-> FALSE]

Length == Len(plan.steps)
Kind == plan.steps[at]

\* A built plan that is about to be run; 'start' is "done" when none is.
ChainInit(plans, start) ==
    /\ plan \in plans
    /\ pc = start
    /\ at = 1
    /\ pending = 0
    /\ alive = {}
    /\ fate = [n \in 1..MaxSteps |-> "none"]
    /\ available = {}
    /\ reading = 0
    /\ decision = "none"
    /\ runErr = FALSE
    /\ marked = FALSE
    /\ status = "completed"
    /\ stateReady = FALSE
    /\ retryUnsafe = FALSE
    /\ entered = FALSE
    /\ cleanupPanicked = FALSE
    /\ told = <<>>
    /\ outcome = NoOutcome

-----------------------------------------------------------------------------
(* Before the run.                                                          *)

\* The future is resolved with a failure that ran nothing.
NeverRuns ==
    /\ pc' = "done"
    /\ outcome' = [NoOutcome EXCEPT !.status = "failed", !.err = TRUE]
    /\ UNCHANGED <<plan, stepVars, reading, runVars, history>>

\* runChain: the plan is validated and the task is submitted.
Run ==
    /\ pc = "built"
    /\ \/ ~ValidPlan(plan) /\ NeverRuns
       \/ /\ ValidPlan(plan)
          /\ pc' = "queued"
          /\ UNCHANGED <<plan, stepVars, reading, runVars, history, outcome>>

\* The submit fails, or the queued task is aborted.
Abort == pc = "queued" /\ NeverRuns

-----------------------------------------------------------------------------
(* The steps.                                                               *)

StepFrame == UNCHANGED <<plan, reading, marked, history, outcome>>

\* An error or a panic leaves the step loop.
Fails == pc' = "unwind" /\ runErr' = TRUE

\* The step loop goes on with the next step.
Continues == pc' = "step" /\ at' = at + 1 /\ UNCHANGED runErr

\* plan.begin.
Begin ==
    /\ pc = "queued"
    /\ \/ pc' = "step" /\ stateReady' = TRUE /\ UNCHANGED runErr
       \/ Fails /\ UNCHANGED stateReady
    /\ UNCHANGED <<stepVars, status, retryUnsafe>>
    /\ StepFrame

\* The head of the loop over the steps.
NextStep ==
    /\ pc = "step"
    /\ \/ at > Length /\ pc' = "unwind"
       \/ /\ at <= Length
          /\ \/ Kind = "then" /\ pc' = "hook"
             \/ Kind \in Prepares /\ pc' = "prepare"
             \/ Kind \notin Prepares \cup {"then"} /\ pc' = "engine"
    /\ UNCHANGED <<stepVars, runErr, status, stateReady, retryUnsafe>>
    /\ StepFrame

\* The input hook; a report for another account is refused too.
Prepare ==
    /\ pc = "prepare"
    /\ \/ pc' = "engine" /\ UNCHANGED runErr
       \/ Fails
    /\ UNCHANGED <<stepVars, status, stateReady, retryUnsafe>>
    /\ StepFrame

\* t.retryUnsafe = true; a dry run changes nothing.
Mark == retryUnsafe' = (retryUnsafe \/ Kind # "checkOrder")

\* The engine is entered.
EnterEngine ==
    /\ pc = "engine"
    /\ pc' = "entered"
    /\ Mark
    /\ entered' = (entered \/ Kind # "checkOrder")
    /\ UNCHANGED <<plan, reading, marked, cleanupPanicked, told, outcome, stepVars,
                   runErr, status, stateReady>>

\* An engine call without an operation to settle returns.
EngineReturns ==
    /\ pc = "entered" /\ Kind \notin OrderSteps
    /\ \/ pc' = "hook" /\ UNCHANGED runErr
       \/ Kind \notin Infallible /\ Fails
    /\ UNCHANGED <<stepVars, status, stateReady, retryUnsafe>>
    /\ StepFrame

\* validateDriverResult: exactly one of a live handle, rejects and an error.
WellShaped(handle, rejects, err) ==
    \/ handle = "live" /\ ~rejects /\ ~err
    \/ handle = "none" /\ rejects /\ ~err
    \/ handle = "none" /\ ~rejects /\ err

\* Variant of ClaimHandle: only what is well shaped is taken over.
ClaimWellShaped(handle, rejects, err) ==
    /\ pending' = IF handle = "live" /\ ~rejects /\ ~err THEN at ELSE pending
    /\ alive' = IF handle = "live" THEN alive \cup {at} ELSE alive

\* Whatever handle comes back is pending from here on.
ClaimHandle(handle, rejects, err) ==
    /\ pending' = IF handle = "none" THEN pending ELSE at
    /\ alive' = IF handle = "live" THEN alive \cup {at} ELSE alive

\* ExecutePreTrade and ApplyDropCopy return.
OperationReturns(handle, rejects, err) ==
    /\ pc = "entered" /\ Kind \in Pending
    /\ ClaimHandle(handle, rejects, err)
    /\ \/ (~WellShaped(handle, rejects, err) \/ err) /\ Fails /\ UNCHANGED available
       \/ /\ WellShaped(handle, rejects, err) /\ rejects
          /\ pc' = "rejected" /\ UNCHANGED <<available, runErr>>
       \/ /\ WellShaped(handle, rejects, err) /\ handle = "live"
          /\ pc' = "hook" /\ available' = available \cup {at} /\ UNCHANGED runErr
    /\ UNCHANGED <<at, fate, decision, status, stateReady, retryUnsafe>>
    /\ StepFrame

\* ExecutePreTradeDryRun returns a report, or fails.  A report without a
\* verdict is closed at once.
CheckReturns(handle, err) ==
    /\ pc = "entered" /\ Kind = "checkOrder"
    /\ \/ Fails /\ UNCHANGED <<alive, available>>
       \/ /\ WellShaped(handle, FALSE, err) /\ ~err
          /\ pc' = "hook" /\ alive' = alive \cup {at}
          /\ available' = available \cup {at} /\ UNCHANGED runErr
    /\ UNCHANGED <<at, pending, fate, decision, status, stateReady, retryUnsafe>>
    /\ StepFrame

\* The engine call panics.
EnginePanics ==
    /\ pc = "entered"
    /\ Fails
    /\ UNCHANGED <<stepVars, status, stateReady, retryUnsafe>>
    /\ StepFrame

\* Variant of RejectHook: the chain ends as a completed one.
RejectHookCompletes ==
    /\ pc = "rejected"
    /\ (pc' = "unwind" /\ UNCHANGED runErr) \/ Fails
    /\ UNCHANGED <<stepVars, status, stateReady, retryUnsafe>>
    /\ StepFrame

\* OnRejected: the chain ends here.
RejectHook ==
    /\ pc = "rejected"
    /\ \/ pc' = "unwind" /\ status' = "rejected" /\ UNCHANGED runErr
       \/ Fails /\ UNCHANGED status
    /\ UNCHANGED <<stepVars, stateReady, retryUnsafe>>
    /\ StepFrame

\* The hook of a step without an operation result.
PlainHook ==
    /\ pc = "hook" /\ Kind \notin OrderSteps
    /\ Continues \/ (Fails /\ UNCHANGED at)
    /\ UNCHANGED <<pending, alive, fate, available, decision, status, stateReady,
                   retryUnsafe>>
    /\ StepFrame

\* OnReserved, OnApplied and the hook of CheckOrder.  "invalid" is neither of
\* the two decisions.
ResultHook ==
    /\ pc = "hook" /\ Kind \in OrderSteps
    /\ decision' \in IF Kind = "checkOrder" THEN {"ok", "fail"}
                     ELSE {"commit", "rollback", "invalid", "fail"}
    /\ pc' = "invalidate"
    /\ UNCHANGED <<at, pending, alive, fate, available, runErr, status, stateReady,
                   retryUnsafe>>
    /\ StepFrame

\* Variant of Withdraw: a read in progress is not waited for.
WithdrawAtOnce == available' = available \ {at}

\* result.invalidate: r.mu is held by a read in progress.
Withdraw == reading # at /\ available' = available \ {at}

\* The result is withdrawn, error or panic or not.  The report of a check is
\* closed after it.
Invalidate ==
    /\ pc = "invalidate"
    /\ Withdraw
    /\ alive' = IF Kind = "checkOrder" THEN alive \ {at} ELSE alive
    /\ \/ decision = "fail" /\ Fails /\ UNCHANGED at
       \/ decision = "ok" /\ Continues
       \/ decision \notin {"ok", "fail"} /\ pc' = "settle" /\ UNCHANGED <<at, runErr>>
    /\ UNCHANGED <<pending, fate, decision, status, stateReady, retryUnsafe>>
    /\ StepFrame

\* The operation goes the way of the decision; an invalid one rolls back.
Decided == fate' = [fate EXCEPT ![at] = IF decision = "commit" THEN "committed"
                                        ELSE "rolledBack"]

\* finalizeDecision: CommitAndClose or RollbackAndClose, and where it leads.
Settle ==
    /\ pc = "settle"
    /\ Decided
    /\ alive' = alive \ {at}
    /\ pending' = 0
    /\ \/ decision = "commit" /\ Continues /\ UNCHANGED status
       \/ decision = "rollback" /\ pc' = "unwind" /\ status' = "rejected"
          /\ UNCHANGED <<at, runErr>>
       \/ decision = "invalid" /\ Fails /\ UNCHANGED <<at, status>>
    /\ UNCHANGED <<available, decision, stateReady, retryUnsafe>>
    /\ StepFrame

\* CommitAndClose or RollbackAndClose panics: the operation is resolved and
\* still open.
SettlePanics ==
    /\ pc = "settle"
    /\ Decided
    /\ Fails
    /\ UNCHANGED <<at, pending, alive, available, decision, status, stateReady, retryUnsafe>>
    /\ StepFrame

-----------------------------------------------------------------------------
(* The deferred end of execute.                                             *)

\* resolvedOutcome.
ResolvedOutcome(err, unsafe) ==
    [status |-> IF err THEN "failed" ELSE status, err |-> err, unsafe |-> unsafe,
     retryUnsafe |-> retryUnsafe]

\* Variant of Undo: that the operation was resolved is not remembered.
UndoAgain(n) == fate' = [fate EXCEPT ![n] = "rolledBack"]

\* Reservation.rollback: not after a resolution.
Undo(n) == fate' = [fate EXCEPT ![n] = IF @ = "none" THEN "rolledBack" ELSE @]

\* rollbackPending: RollbackAndClose, a no-op on a closed handle.  When it
\* panics the handle stays open and the panic is an error of the run.
RollbackPending ==
    \/ pending \notin alive /\ UNCHANGED <<alive, fate, runErr, cleanupPanicked>>
    \/ /\ pending \in alive
       /\ Undo(pending)
       /\ alive' = alive \ {pending}
       /\ UNCHANGED <<runErr, cleanupPanicked>>
    \/ /\ pending \in alive
       /\ Undo(pending)
       /\ runErr' = TRUE /\ cleanupPanicked' = TRUE
       /\ UNCHANGED alive

Unwind ==
    /\ pc = "unwind"
    /\ RollbackPending
    /\ marked' = (runErr' /\ retryUnsafe)
    /\ pc' = IF stateReady /\ plan.finally THEN "finally" ELSE "resolve"
    /\ UNCHANGED <<plan, at, pending, available, decision, reading, status, stateReady,
                   retryUnsafe, entered, told, outcome>>

\* Variant of FinallyMarks: only an error of the steps is marked.
FinallyMarksNothing(err) == marked' = marked

\* A failure of Finally alone is marked as one of the steps is.
FinallyMarks(err) == marked' = (marked \/ (err /\ ~runErr /\ retryUnsafe))

\* callFinally, which may fail or panic.
Finally ==
    /\ pc = "finally"
    /\ told' = Append(told, ResolvedOutcome(runErr, marked))
    /\ \E err \in BOOLEAN : FinallyMarks(err) /\ runErr' = (runErr \/ err)
    /\ pc' = "resolve"
    /\ UNCHANGED <<plan, stepVars, reading, status, stateReady, retryUnsafe, entered,
                   cleanupPanicked, outcome>>

\* f.Resolve.
Resolve ==
    /\ pc = "resolve"
    /\ outcome' = ResolvedOutcome(runErr, marked)
    /\ pc' = "done"
    /\ UNCHANGED <<plan, stepVars, reading, runVars, history>>

-----------------------------------------------------------------------------
(* A goroutine that kept a hook's result.                                   *)

\* A read of the operation result, under r.mu; one that is not available is
\* refused.
BeginResultRead(n) ==
    /\ reading = 0 /\ n \in available
    /\ reading' = n
    /\ UNCHANGED <<plan, pc, stepVars, runVars, history, outcome>>

\* Variant of EndResultRead: the read returns without unlocking r.mu.
EndResultReadKeepsLock == reading # 0 /\ UNCHANGED chainVars

EndResultRead ==
    /\ reading # 0
    /\ reading' = 0
    /\ UNCHANGED <<plan, pc, stepVars, runVars, history, outcome>>

-----------------------------------------------------------------------------
Step ==
    \/ Begin \/ NextStep \/ Prepare \/ EnterEngine \/ EngineReturns \/ EnginePanics
    \/ \E handle \in {"none", "closed", "live"}, err \in BOOLEAN :
          \/ CheckReturns(handle, err)
          \/ \E rejects \in BOOLEAN : OperationReturns(handle, rejects, err)
    \/ RejectHook \/ PlainHook \/ ResultHook \/ Invalidate \/ Settle \/ SettlePanics
    \/ Unwind \/ Finally \/ Resolve

\* The future is resolved: nothing is left to do.
Finished == pc = "done" /\ UNCHANGED chainVars

ChainNext ==
    \/ Run \/ Abort \/ Step \/ Finished
    \/ \E n \in 1..MaxSteps : BeginResultRead(n)
    \/ EndResultRead

ChainSpec == ChainInit(Plans, "built") /\ [][ChainNext]_chainVars

\* The lane runs or aborts the queued task and goes on with it; hooks return;
\* a read ends; a mutex does not starve a waiter.
ChainFairness ==
    /\ WF_chainVars(Run) /\ WF_chainVars(Step)
    /\ WF_chainVars(EndResultRead) /\ SF_chainVars(Invalidate)

-----------------------------------------------------------------------------
(* Properties.                                                              *)

\* doc.go: "a pending reservation or drop-copy operation is already rolled back
\* and closed by the time the future resolves", and Finally "runs after native
\* cleanup": no handle a driver returned, in whatever shape, is left open,
\* unless closing it panicked, and then the outcome says failed.
CleanBeforeFinally ==
    pc \in {"finally", "resolve", "done"} =>
        /\ alive = {} \/ cleanupPanicked
        /\ cleanupPanicked => runErr

\* No goroutine reads a native handle that was closed or is being settled,
\* although hooks may pass their results on.
NoStaleRead ==
    reading # 0 => reading \in alive /\ fate[reading] = "none" /\ pc # "settle"

\* The outcome tells what happened: completed when every operation of the plan
\* was committed, rejected when the earlier ones were and the last was not,
\* with an error exactly when it failed.
OutcomeTrue ==
    LET Committed(S) == \A n \in S : plan.steps[n] \in Pending => fate[n] = "committed"
    IN  pc = "done" =>
          /\ outcome.err = (outcome.status = "failed")
          /\ outcome.status = "completed" => Committed(1..Length)
          /\ outcome.status = "rejected" =>
                Committed(1..(at - 1)) /\ fate[at] # "committed"

\* An operation is committed only by its own hook's decision.
CommittedByDecision ==
    [][\A n \in 1..MaxSteps : fate[n] # fate'[n] =>
          /\ fate[n] = "none"
          /\ fate'[n] = "committed" => n = at /\ decision = "commit"]_chainVars

\* RetryUnsafe "reports that the chain entered an engine call that can change
\* state", to Finally and to the caller, and a failed chain that did wraps
\* ErrChainRetryUnsafe, whoever failed it.
RetryUnsafeTrue ==
    /\ \A n \in DOMAIN told : told[n].retryUnsafe = entered
    /\ pc = "done" => /\ outcome.retryUnsafe = entered
                      /\ outcome.unsafe = (outcome.err /\ entered)

\* A chain that was submitted resolves its future, whatever readers do.
ChainResolves == pc = "built" ~> pc = "done"

=============================================================================
