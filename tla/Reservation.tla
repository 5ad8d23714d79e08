---------------------------- MODULE Reservation ----------------------------
(***************************************************************************)
(* A reservation of the asynchronous engine: AsyncReservation               *)
(* (asyncengine/reservation.go) around Reservation (pretrade/reservation.go) *)
(* around a native handle.  AsyncDropCopyOperation is the same wrapper.     *)
(*                                                                         *)
(* A lifecycle call is run by whoever the strategy chose: a lane's worker,   *)
(* the goroutine of a caller whose submit failed, a section (module          *)
(* Lifecycle); two of one reservation may meet.  Reads run on any goroutine. *)
(* Critical sections of r.mu are single steps.                              *)
(***************************************************************************)
EXTENDS Naturals, Sequences, FiniteSets

CONSTANTS
    Calls,      \* lifecycle calls
    Readers,    \* goroutines that read snapshots
    NoCall      \* nobody

Methods == {"commit", "commitAndClose", "rollback", "rollbackAndClose", "close"}

ASSUME ReservationAssumption ==
    /\ Calls \cap Readers = {}
    /\ NoCall \notin Calls \cup Readers
    /\ IsFiniteSet(Readers)

VARIABLES
    cpc,          \* where a call is
    todo,         \* the methods of the inner reservation it still has to call
    method,       \* the method that was called
    op,           \* the op runInner was given
    rpc,          \* where a reader is
    saw,          \* what its last read returned
    lifecycleMu,  \* the call that holds r.lifecycleMu
    methodMu,     \* the reader that holds r.methodMu
    state,        \* r.state
    closed,       \* r.closed
    readers,      \* r.readers
    readersDone,  \* r.readersDone is a channel not closed yet
    handle,       \* inner.handle is not nil
    resolved,     \* inner.resolved
    native        \* the native library's reserved state

callVars == <<cpc, todo, method, op, lifecycleMu>>
readVars == <<rpc, saw, methodMu>>
wrapperVars == <<state, closed, readers, readersDone>>
innerVars == <<handle, resolved, native>>
reservationVars == <<callVars, readVars, wrapperVars, innerVars>>

ReservationInit ==
    /\ cpc = [c \in Calls |-> "idle"]
    /\ todo = [c \in Calls |-> <<>>]
    /\ method = [c \in Calls |-> "none"]
    /\ op = [c \in Calls |-> "none"]
    /\ rpc = [r \in Readers |-> "idle"]
    /\ saw = [r \in Readers |-> "nothing"]
    /\ lifecycleMu = NoCall
    /\ methodMu = NoCall
    /\ state = "open"
    /\ closed = FALSE
    /\ readers = 0
    /\ readersDone = FALSE
    /\ handle = TRUE
    /\ resolved = FALSE
    /\ native = "reserved"

Closes(m) == m \in {"commitAndClose", "rollbackAndClose", "close"}

-----------------------------------------------------------------------------
(* The inner reservation.                                                   *)

\* native.PretradePreTradeReservationCommit and Rollback: the library takes
\* the caller's word.
NativeResolve(how) == native' = how

\* native.DestroyPretradePreTradeReservation rolls back what is pending.
NativeDestroy == native' = IF native = "reserved" THEN "rolledBack" ELSE native

\* Variant of CommitInner: a resolved reservation is not left alone.
CommitInnerAgain ==
    /\ IF handle THEN resolved' = TRUE /\ NativeResolve("committed")
       ELSE UNCHANGED <<resolved, native>>
    /\ UNCHANGED handle

\* Reservation.commit: a no-op once resolved or closed.
CommitInner ==
    /\ IF handle /\ ~resolved
       THEN resolved' = TRUE /\ NativeResolve("committed")
       ELSE UNCHANGED <<resolved, native>>
    /\ UNCHANGED handle

\* Reservation.rollback.
RollbackInner ==
    /\ IF handle /\ ~resolved
       THEN resolved' = TRUE /\ NativeResolve("rolledBack")
       ELSE UNCHANGED <<resolved, native>>
    /\ UNCHANGED handle

\* Reservation.close.
CloseInner ==
    IF handle
    THEN handle' = FALSE /\ resolved' = TRUE /\ NativeDestroy
    ELSE UNCHANGED innerVars

\* What each op of runInner calls on the inner reservation.
InnerCalls(m) ==
    CASE m = "commit"           -> <<"commit">>
      [] m = "commitAndClose"   -> <<"commit", "close">>
      [] m = "rollback"         -> <<"rollback">>
      [] m = "rollbackAndClose" -> <<"rollback", "close">>
      [] m = "close"            -> <<"close">>

-----------------------------------------------------------------------------
(* A lifecycle call.                                                        *)

Moves(c, from, to) == cpc[c] = from /\ cpc' = [cpc EXCEPT ![c] = to]

\* Method m of the wrapper is called, its task is submitted and run.
RunTask(c, m) ==
    /\ Moves(c, "idle", "lock")
    /\ method' = [method EXCEPT ![c] = m]
    /\ op' = [op EXCEPT ![c] = m]
    /\ UNCHANGED <<todo, lifecycleMu, readVars, wrapperVars, innerVars>>

\* Variant of FailTask: what was not run closes nothing.
FailTaskOpen(c, m) ==
    /\ Moves(c, "idle", "resolve")
    /\ method' = [method EXCEPT ![c] = m]
    /\ UNCHANGED <<todo, op, lifecycleMu, readVars, wrapperVars, innerVars>>

\* Method m is called and its task is aborted by a hard stop, or its submit
\* fails: a call that promised to close (abortCloses) closes, whatever else it
\* asked for.
FailTask(c, m) ==
    /\ Moves(c, "idle", IF Closes(m) THEN "lock" ELSE "resolve")
    /\ method' = [method EXCEPT ![c] = m]
    /\ op' = [op EXCEPT ![c] = IF Closes(m) THEN "close" ELSE @]
    /\ UNCHANGED <<todo, lifecycleMu, readVars, wrapperVars, innerVars>>

\* r.lifecycleMu.Lock.
LockLifecycle(c) ==
    /\ lifecycleMu = NoCall
    /\ Moves(c, "lock", "mark")
    /\ lifecycleMu' = c
    /\ UNCHANGED <<todo, method, op, readVars, wrapperVars, innerVars>>

\* runInner announces itself: reads are refused from here on, those admitted
\* are waited for.
MarkFinalizing(c) ==
    /\ Moves(c, "mark", IF readers # 0 THEN "wait" ELSE "inner")
    /\ state' = "finalizing"
    /\ readersDone' = (readersDone \/ readers # 0)
    /\ todo' = [todo EXCEPT ![c] = InnerCalls(op[c])]
    /\ UNCHANGED <<method, op, lifecycleMu, closed, readers, readVars, innerVars>>

\* <-readersDone.
AwaitReaders(c) ==
    /\ ~readersDone
    /\ Moves(c, "wait", "inner")
    /\ UNCHANGED <<todo, method, op, lifecycleMu, readVars, wrapperVars, innerVars>>

\* One method of the inner reservation.
CallInner(c) ==
    /\ cpc[c] = "inner" /\ todo[c] # <<>>
    /\ \/ Head(todo[c]) = "commit" /\ CommitInner
       \/ Head(todo[c]) = "rollback" /\ RollbackInner
       \/ Head(todo[c]) = "close" /\ CloseInner
    /\ todo' = [todo EXCEPT ![c] = Tail(@)]
    /\ UNCHANGED <<cpc, method, op, lifecycleMu, readVars, wrapperVars>>

\* The deferred end of runInner.
FinishInner(c) ==
    /\ todo[c] = <<>>
    /\ Moves(c, "inner", "resolve")
    /\ closed' = (closed \/ Closes(op[c]))
    /\ state' = IF closed' THEN "closed" ELSE "open"
    /\ lifecycleMu' = NoCall
    /\ UNCHANGED <<todo, method, op, readers, readersDone, readVars, innerVars>>

\* f.Resolve.
ResolveCall(c) ==
    /\ Moves(c, "resolve", "done")
    /\ UNCHANGED <<todo, method, op, lifecycleMu, readVars, wrapperVars, innerVars>>

-----------------------------------------------------------------------------
(* A snapshot read: Lock, AccountAdjustments.                               *)

\* Variant of BeginRead: a read is admitted while a call finalizes.
BeginReadAlways(r) ==
    /\ rpc[r] = "idle"
    /\ IF closed
       THEN /\ saw' = [saw EXCEPT ![r] = "closed"]
            /\ UNCHANGED <<rpc, readers>>
       ELSE /\ readers' = readers + 1
            /\ rpc' = [rpc EXCEPT ![r] = "begun"]
            /\ UNCHANGED saw
    /\ UNCHANGED <<methodMu, callVars, state, closed, readersDone, innerVars>>

\* Variant of BeginRead: r.closed is not looked at.
BeginReadByState(r) ==
    /\ rpc[r] = "idle"
    /\ \/ /\ state = "open"
          /\ readers' = readers + 1
          /\ rpc' = [rpc EXCEPT ![r] = "begun"]
          /\ UNCHANGED saw
       \/ /\ state # "open"
          /\ saw' = [saw EXCEPT ![r] = IF state = "closed" THEN "closed"
                                       ELSE "inProgress"]
          /\ UNCHANGED <<rpc, readers>>
    /\ UNCHANGED <<methodMu, callVars, state, closed, readersDone, innerVars>>

\* A read is admitted while the reservation is open, refused for now while a
\* call finalizes it and for good once it is closed.
BeginRead(r) ==
    /\ rpc[r] = "idle"
    /\ \/ /\ ~closed /\ state = "open"
          /\ readers' = readers + 1
          /\ rpc' = [rpc EXCEPT ![r] = "begun"]
          /\ UNCHANGED saw
       \/ /\ closed \/ state # "open"
          /\ saw' = [saw EXCEPT ![r] = IF closed \/ state = "closed"
                                       THEN "closed" ELSE "inProgress"]
          /\ UNCHANGED <<rpc, readers>>
    /\ UNCHANGED <<methodMu, callVars, state, closed, readersDone, innerVars>>

\* r.methodMu.Lock.
LockMethod(r) ==
    /\ rpc[r] = "begun" /\ methodMu = NoCall
    /\ methodMu' = r
    /\ rpc' = [rpc EXCEPT ![r] = "read"]
    /\ UNCHANGED <<saw, callVars, wrapperVars, innerVars>>

\* The read of the inner reservation, which looks at its handle first.
ReadInner(r) ==
    /\ rpc[r] = "read"
    /\ saw' = [saw EXCEPT ![r] = IF handle THEN "snapshot" ELSE "closed"]
    /\ methodMu' = NoCall
    /\ rpc' = [rpc EXCEPT ![r] = "end"]
    /\ UNCHANGED <<callVars, wrapperVars, innerVars>>

\* Variant of EndRead: the last reader does not tell.
EndReadSilent(r) ==
    /\ rpc[r] = "end"
    /\ rpc' = [rpc EXCEPT ![r] = "idle"]
    /\ readers' = readers - 1
    /\ UNCHANGED <<saw, methodMu, callVars, state, closed, readersDone, innerVars>>

\* The last reader out wakes the call that waits for it.
EndRead(r) ==
    /\ rpc[r] = "end"
    /\ rpc' = [rpc EXCEPT ![r] = "idle"]
    /\ readers' = readers - 1
    /\ readersDone' = (readersDone /\ readers' # 0)
    /\ UNCHANGED <<saw, methodMu, callVars, state, closed, innerVars>>

-----------------------------------------------------------------------------
CallStep(c) ==
    \/ LockLifecycle(c) \/ MarkFinalizing(c) \/ AwaitReaders(c)
    \/ CallInner(c) \/ FinishInner(c) \/ ResolveCall(c)

ReadStep(r) == LockMethod(r) \/ ReadInner(r) \/ EndRead(r)

ReservationNext ==
    \/ \E c \in Calls, m \in Methods : RunTask(c, m) \/ FailTask(c, m)
    \/ \E c \in Calls : CallStep(c)
    \/ \E r \in Readers : BeginRead(r) \/ ReadStep(r)

ReservationSpec == ReservationInit /\ [][ReservationNext]_reservationVars

\* A goroutine that began a call or a read goes on, and a sync.Mutex does not
\* starve a waiter.  Readers may read for ever.
ReservationFairness ==
    /\ \A c \in Calls : SF_reservationVars(LockLifecycle(c)) /\ WF_reservationVars(CallStep(c))
    /\ \A r \in Readers : SF_reservationVars(LockMethod(r)) /\ WF_reservationVars(ReadStep(r))

-----------------------------------------------------------------------------
(* Properties.                                                              *)

\* "Callers must serialize methods on the same reservation"
\* (pretrade/reservation.go): no two goroutines are inside the inner
\* reservation, be they lifecycle calls or reads.
InnerSerialized ==
    Cardinality({c \in Calls : cpc[c] = "inner"}
                \cup {r \in Readers : rpc[r] = "read"}) <= 1

\* A call that closes leaves no native handle behind, run, aborted or never
\* submitted, whatever other calls it meets.
NoLeak ==
    \A c \in Calls : cpc[c] \in {"resolve", "done"} /\ Closes(method[c]) => ~handle

\* The reserved state is settled once and the handle freed once.
Settled == INSTANCE Settlement WITH freed <- ~handle
SettlesOnce == Settled!Spec

\* "Once closed, reads return ErrReservationClosed permanently": a reader told
\* so is never told anything else, while calls after the close go on.
ClosedForGood ==
    [][\A r \in Readers : saw[r] = "closed" => saw'[r] = "closed"]_reservationVars

\* A call that was begun returns, however many reads keep coming.
CallsEnd == \A c \in Calls : cpc[c] = "lock" ~> cpc[c] = "done"

=============================================================================
