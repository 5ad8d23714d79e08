------------------------------ MODULE DropCopy ------------------------------
(***************************************************************************)
(* A drop-copy operation of the asynchronous engine: AsyncDropCopyOperation *)
(* (asyncengine/drop_copy_operation.go) around DropCopyOperation            *)
(* (pretrade/drop_copy_operation.go).  The wrapper's locks, its three states *)
(* and its readers' count, and the inner operation's resolved and handle,    *)
(* are those of a reservation, so its state is the state of module           *)
(* Reservation; this module says which of its steps each function takes.     *)
(* There are two more snapshots to read: the account block and whether the   *)
(* account was blocked.                                                     *)
(***************************************************************************)
EXTENDS Reservation

\* DropCopyOperation.commit, rollback and close, and the two that do both.
DropCopyInner(c) == CallInner(c)

\* runInner: serialize, announce, wait for the reads admitted, call the inner
\* operation, and leave the wrapper open or closed for good.
DropCopyRunInner(c) ==
    \/ LockLifecycle(c) \/ MarkFinalizing(c) \/ AwaitReaders(c)
    \/ DropCopyInner(c) \/ FinishInner(c)

\* Commit, CommitAndClose, Rollback, RollbackAndClose and Close enqueue a task.
DropCopyRun(c) == \E m \in Methods : RunTask(c, m)

\* runVoid's failure handoff and dropCopyOperationTask.abort.
DropCopyAbort(c) == \E m \in Methods : FailTask(c, m)

\* The end of dropCopyOperationTask.run and abort: f.Resolve.
DropCopyResolve(c) == ResolveCall(c)

\* beginRead, admitting or refusing.
DropCopyBeginRead(r) == BeginRead(r)

\* Lock, AccountAdjustments, AccountBlock and IsAccountBlocked: the inner
\* operation is read under methodMu.
DropCopyRead(r) == LockMethod(r) \/ ReadInner(r)

\* endRead.
DropCopyEndRead(r) == EndRead(r)

\* The goroutines that read are rs.
DropCopyNext(rs) ==
    \/ \E c \in Calls :
          DropCopyRun(c) \/ DropCopyAbort(c) \/ DropCopyRunInner(c) \/ DropCopyResolve(c)
    \/ \E r \in rs :
          DropCopyBeginRead(r) \/ DropCopyRead(r) \/ DropCopyEndRead(r)

DropCopySpec == ReservationInit /\ [][DropCopyNext(Readers)]_reservationVars

=============================================================================
