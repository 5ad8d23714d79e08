---------------------------- MODULE HandleProofs ----------------------------
(***************************************************************************)
(* The safety of the handles an engine gives out: a reservation, a drop-copy*)
(* operation and the handles a chain holds, for any number of lifecycle    *)
(* calls and readers and for plans of any length.                          *)
(*                                                                         *)
(* Two calls never meet inside a reservation because lifecycleMu has one   *)
(* holder.  A call and a read never meet because a call goes inside only   *)
(* when r.readers is zero, and it stays zero: the count is the number of   *)
(* reads admitted and not ended, and none is admitted while the state is   *)
(* "finalizing".                                                           *)
(***************************************************************************)
EXTENDS DropCopy, Chain, SequenceTheorems, FiniteSetTheorems, TLAPS

CpcType == {"idle", "lock", "mark", "wait", "inner", "resolve", "done"}
RpcType == {"idle", "begun", "read", "end"}
TodoType ==
    {<<>>, <<"commit">>, <<"rollback">>, <<"close">>,
     <<"commit", "close">>, <<"rollback", "close">>}

ReservationType ==
    /\ cpc \in [Calls -> CpcType]
    /\ todo \in [Calls -> TodoType]
    /\ method \in [Calls -> Methods \cup {"none"}]
    /\ op \in [Calls -> Methods \cup {"none"}]
    /\ rpc \in [Readers -> RpcType]
    /\ saw \in [Readers -> {"nothing", "closed", "inProgress", "snapshot"}]
    /\ lifecycleMu \in Calls \cup {NoCall}
    /\ methodMu \in Readers \cup {NoCall}
    /\ state \in {"open", "finalizing", "closed"}
    /\ closed \in BOOLEAN
    /\ readers \in Nat
    /\ readersDone \in BOOLEAN
    /\ handle \in BOOLEAN
    /\ resolved \in BOOLEAN
    /\ native \in {"reserved", "committed", "rolledBack"}

\* The reads that were admitted and have not ended.
Admitted == {r \in Readers : rpc[r] # "idle"}

\* Who is between the lock and the unlock of a mutex is its holder.
Mutexes ==
    /\ \A c \in Calls : cpc[c] \in {"mark", "wait", "inner"} => lifecycleMu = c
    /\ \A r \in Readers : rpc[r] = "read" => methodMu = r

\* r.readers counts the reads; a call waits exactly for those admitted before
\* it announced itself, and finds none when it goes on.
ReadersCounted ==
    /\ readers = Cardinality(Admitted)
    /\ readersDone => readers # 0
    /\ \A c \in Calls :
         /\ cpc[c] \in {"wait", "inner"} => state = "finalizing"
         /\ cpc[c] = "wait" /\ ~readersDone => readers = 0
         /\ cpc[c] = "inner" => readers = 0

\* What a call works on closes the reservation if the call promised to.
ClosePending ==
    \A c \in Calls :
        /\ cpc[c] = "idle" => method[c] = "none"
        /\ cpc[c] \in {"lock", "mark", "wait", "inner"} =>
              op[c] \in Methods /\ (Closes(method[c]) => Closes(op[c]))
        /\ cpc[c] \in {"wait", "inner"} /\ Closes(op[c]) =>
              \/ ~handle
              \/ todo[c] \in {<<"close">>, <<"commit", "close">>, <<"rollback", "close">>}
        /\ cpc[c] \in {"wait", "inner"} /\ ~Closes(op[c]) =>
              todo[c] \in {<<>>, <<"commit">>, <<"rollback">>}
        /\ cpc[c] \in {"resolve", "done"} /\ Closes(method[c]) => ~handle

\* The wrapper knows that its inner reservation is closed, or the call that
\* closed it has not left; and a closed one admits no read.
ClosedKnown ==
    /\ state = "closed" => closed
    /\ closed => state # "open" /\ ~handle
    /\ ~handle => closed \/ \E c \in Calls : cpc[c] = "inner" /\ Closes(op[c])
    /\ closed => readers = 0
    /\ \A r \in Readers : saw[r] = "closed" => closed

\* inner.resolved says whether the reserved state is settled.
NativeKnown == handle => (resolved <=> native # "reserved")

ReservationInv ==
    /\ ReservationType /\ Mutexes /\ ReadersCounted
    /\ ClosePending /\ ClosedKnown /\ NativeKnown

-----------------------------------------------------------------------------
\* The admitted reads are a finite set, so that counting them means something.
LEMMA AdmittedFinite ==
    /\ IsFiniteSet(Admitted)
    /\ Cardinality(Admitted) \in Nat
    /\ Cardinality(Admitted) = 0 <=> Admitted = {}
<1>1. Admitted \subseteq Readers
    BY DEF Admitted
<1> QED
    BY <1>1, ReservationAssumption, FS_Subset, FS_CardinalityType, FS_EmptySet

\* A reservation just wrapped satisfies the invariant.
LEMMA ReservationInitial == ReservationInit => ReservationInv
<1> SUFFICES ASSUME ReservationInit PROVE ReservationInv
    OBVIOUS
<1>1. Admitted = {}
    BY DEF ReservationInit, Admitted
<1>2. Cardinality(Admitted) = 0
    BY <1>1, FS_EmptySet
<1> QED
    BY <1>2, ReservationAssumption
    DEF ReservationInit, ReservationInv, ReservationType, Mutexes, ReadersCounted,
        ClosePending, ClosedKnown, NativeKnown, CpcType, RpcType, TodoType, Closes

\* A step that leaves the readers' places alone leaves their number alone.
LEMMA AdmittedKept ==
    ASSUME UNCHANGED rpc PROVE Admitted' = Admitted
BY DEF Admitted

\* A read that is admitted adds one to the count.
LEMMA AdmittedMore ==
    ASSUME ReservationType, NEW r \in Readers, rpc[r] = "idle",
           rpc' = [rpc EXCEPT ![r] = "begun"]
    PROVE  Cardinality(Admitted') = Cardinality(Admitted) + 1
<1>1. Admitted' = Admitted \cup {r} /\ r \notin Admitted
    BY DEF Admitted, ReservationType
<1> QED
    BY <1>1, AdmittedFinite, FS_AddElement

\* A read that ends takes one from it.
LEMMA AdmittedLess ==
    ASSUME ReservationType, NEW r \in Readers, rpc[r] = "end",
           rpc' = [rpc EXCEPT ![r] = "idle"]
    PROVE  Cardinality(Admitted') = Cardinality(Admitted) - 1
<1>1. Admitted' = Admitted \ {r} /\ r \in Admitted
    BY DEF Admitted, ReservationType
<1> QED
    BY <1>1, AdmittedFinite, FS_RemoveElement

-----------------------------------------------------------------------------
(* The steps of a call.                                                     *)

\* A step that touches nothing but where calls are, the holder of lifecycleMu
\* and what the call is about keeps what the readers and the handle know.
LEMMA CallKeeps ==
    ASSUME ReservationInv, NEW c \in Calls,
           \/ \E m \in Methods : RunTask(c, m) \/ FailTask(c, m)
           \/ LockLifecycle(c) \/ AwaitReaders(c) \/ ResolveCall(c)
    PROVE  ReservationInv'
<1> USE DEF ReservationInv, ReservationType, CpcType, RpcType, Methods, Moves,
            readVars, wrapperVars, innerVars
<1>0. Admitted' = Admitted
    BY AdmittedKept DEF RunTask, FailTask, LockLifecycle, AwaitReaders, ResolveCall
<1>1. CASE \E m \in Methods : RunTask(c, m)
    BY <1>0, <1>1 DEF RunTask, Mutexes, ReadersCounted, ClosePending, ClosedKnown,
       NativeKnown, Closes
<1>2. CASE \E m \in Methods : FailTask(c, m)
    BY <1>0, <1>2 DEF FailTask, Mutexes, ReadersCounted, ClosePending, ClosedKnown,
       NativeKnown, Closes
<1>3. CASE LockLifecycle(c)
    BY <1>0, <1>3, ReservationAssumption DEF LockLifecycle, Mutexes, ReadersCounted,
       ClosePending, ClosedKnown, NativeKnown, Closes
<1>4. CASE AwaitReaders(c)
    BY <1>0, <1>4 DEF AwaitReaders, Mutexes, ReadersCounted, ClosePending, ClosedKnown,
       NativeKnown, Closes
<1>5. CASE ResolveCall(c)
    BY <1>0, <1>5 DEF ResolveCall, Mutexes, ReadersCounted, ClosePending, ClosedKnown,
       NativeKnown, Closes
<1> QED
    BY <1>1, <1>2, <1>3, <1>4, <1>5

\* runInner announces itself: every read it finds is one it waits for.
LEMMA MarkKeeps ==
    ASSUME ReservationInv, NEW c \in Calls, MarkFinalizing(c)
    PROVE  ReservationInv'
<1> USE DEF ReservationInv, ReservationType, CpcType, RpcType, Methods, Moves,
            MarkFinalizing, readVars, wrapperVars, innerVars
<1>0. Admitted' = Admitted
    BY AdmittedKept
<1>1. op[c] \in Methods
    BY DEF ClosePending
<1>2. /\ InnerCalls(op[c]) \in TodoType
      /\ Closes(op[c]) => InnerCalls(op[c]) \in
              {<<"close">>, <<"commit", "close">>, <<"rollback", "close">>}
      /\ ~Closes(op[c]) => InnerCalls(op[c]) \in {<<>>, <<"commit">>, <<"rollback">>}
    BY <1>1 DEF InnerCalls, TodoType, Closes
<1>3. ReservationType'
    BY <1>2
<1>4. Mutexes' /\ ReadersCounted'
    BY <1>0 DEF Mutexes, ReadersCounted
<1>5. ClosePending'
    BY <1>2 DEF ClosePending, Closes
<1>6. ClosedKnown' /\ NativeKnown'
    BY DEF ClosedKnown, NativeKnown, ReadersCounted, Mutexes
<1> QED
    BY <1>3, <1>4, <1>5, <1>6

\* A call that closes has at least one inner call to make.
LEMMA TodoNotEmpty ==
    <<>> \notin {<<"close">>, <<"commit", "close">>, <<"rollback", "close">>}
OBVIOUS

\* What the first of the inner calls is and what it leaves to do.
LEMMA TodoFacts ==
    ASSUME NEW t \in TodoType, t # <<>>
    PROVE  /\ Head(t) \in {"commit", "rollback", "close"}
           /\ Tail(t) \in {<<>>, <<"close">>}
           /\ t \in {<<"close">>, <<"commit", "close">>, <<"rollback", "close">>} =>
                 Head(t) = "close" \/ Tail(t) = <<"close">>
           /\ t \in {<<>>, <<"commit">>, <<"rollback">>} => Head(t) # "close" /\ Tail(t) = <<>>
<1>1. CASE t = <<"commit">>
    BY <1>1
<1>2. CASE t = <<"rollback">>
    BY <1>2
<1>3. CASE t = <<"close">>
    BY <1>3
<1>4. CASE t = <<"commit", "close">>
    BY <1>4
<1>5. CASE t = <<"rollback", "close">>
    BY <1>5
<1> QED
    BY <1>1, <1>2, <1>3, <1>4, <1>5 DEF TodoType

\* One method of the inner reservation.
LEMMA InnerKeeps ==
    ASSUME ReservationInv, NEW c \in Calls, CallInner(c)
    PROVE  ReservationInv'
<1> USE DEF ReservationInv, ReservationType, CpcType, RpcType, Methods, CallInner,
            readVars, wrapperVars, innerVars
<1>0. Admitted' = Admitted
    BY AdmittedKept
<1>1. todo[c] \in TodoType /\ todo[c] # <<>>
    OBVIOUS
<1>2. /\ handle' \in BOOLEAN /\ resolved' \in BOOLEAN
      /\ native' \in {"reserved", "committed", "rolledBack"}
      /\ handle' => handle
      /\ ~handle' => ~handle \/ Head(todo[c]) = "close"
      /\ Head(todo[c]) = "close" => ~handle'
      /\ NativeKnown'
    <2>1. CASE Head(todo[c]) = "commit" /\ CommitInner
        BY <2>1 DEF CommitInner, NativeResolve, NativeKnown
    <2>2. CASE Head(todo[c]) = "rollback" /\ RollbackInner
        BY <2>2 DEF RollbackInner, NativeResolve, NativeKnown
    <2>3. CASE Head(todo[c]) = "close" /\ CloseInner
        BY <2>3 DEF CloseInner, NativeDestroy, NativeKnown
    <2> QED
        BY <2>1, <2>2, <2>3
<1>3. ReservationType'
    BY <1>1, <1>2, TodoFacts DEF TodoType
<1>4. Mutexes' /\ ReadersCounted'
    BY <1>0 DEF Mutexes, ReadersCounted
<1>5. ClosePending'
    BY <1>1, <1>2, TodoFacts DEF ClosePending, Closes
<1>6. ClosedKnown'
    BY <1>1, <1>2, TodoFacts DEF ClosedKnown, ClosePending, Closes
<1> QED
    BY <1>2, <1>3, <1>4, <1>5, <1>6

\* The deferred end of runInner.
LEMMA FinishKeeps ==
    ASSUME ReservationInv, NEW c \in Calls, FinishInner(c)
    PROVE  ReservationInv'
<1> USE DEF ReservationInv, ReservationType, CpcType, RpcType, Methods, FinishInner, Moves,
            readVars, innerVars
<1>0. Admitted' = Admitted
    BY AdmittedKept
<1>1. ReservationType'
    OBVIOUS
<1>2. Mutexes' /\ ReadersCounted'
    BY <1>0, ReservationAssumption DEF Mutexes, ReadersCounted
<1>3. Closes(op[c]) => ~handle
    BY TodoNotEmpty DEF ClosePending
<1>4. ClosePending' /\ NativeKnown'
    BY <1>3 DEF ClosePending, NativeKnown, Closes
<1>5. ClosedKnown'
    <2>1. \A d \in Calls : cpc[d] = "inner" => d = c
        BY DEF Mutexes
    <2> QED
        BY <1>3, <2>1 DEF ClosedKnown, ReadersCounted
<1> QED
    BY <1>1, <1>2, <1>4, <1>5

-----------------------------------------------------------------------------
(* The steps of a read.                                                     *)

\* A read begins: it is admitted, told the reservation is closed, or refused
\* while a call is finalizing.
LEMMA BeginReadKeeps ==
    ASSUME ReservationInv, NEW r \in Readers, BeginRead(r)
    PROVE  ReservationInv'
<1> USE DEF ReservationInv, ReservationType, CpcType, RpcType, BeginRead, callVars,
            innerVars
<1>1. CASE UNCHANGED <<rpc, readers>>
    <2>1. Admitted' = Admitted
        BY <1>1, AdmittedKept
    <2>2. closed \/ state # "open"
        BY <1>1
    <2> QED
        BY <1>1, <2>1, <2>2 DEF Mutexes, ReadersCounted, ClosePending, ClosedKnown,
           NativeKnown, Closes
<1>2. CASE /\ ~closed /\ state = "open"
           /\ readers' = readers + 1
           /\ rpc' = [rpc EXCEPT ![r] = "begun"]
           /\ UNCHANGED saw
    <2>1. Cardinality(Admitted') = Cardinality(Admitted) + 1
        BY <1>2, AdmittedMore
    <2>2. ReservationType' /\ Mutexes'
        BY <1>2 DEF Mutexes
    <2>3. ReadersCounted'
        BY <1>2, <2>1 DEF ReadersCounted
    <2>4. ClosePending' /\ ClosedKnown' /\ NativeKnown'
        BY <1>2 DEF ClosePending, ClosedKnown, NativeKnown, Closes
    <2> QED
        BY <2>2, <2>3, <2>4
<1> QED
    BY <1>1, <1>2

\* A read that was admitted finds the handle.
LEMMA ReadsOpen ==
    ASSUME ReservationInv, NEW r \in Readers, rpc[r] # "idle"
    PROVE  handle /\ ~closed /\ readers # 0 /\ \A c \in Calls : cpc[c] # "inner"
<1>1. readers # 0
    BY AdmittedFinite DEF ReservationInv, ReadersCounted, Admitted
<1> QED
    BY <1>1 DEF ReservationInv, ReservationType, ReadersCounted, ClosedKnown

\* The steps of an admitted read.
LEMMA ReadKeeps ==
    ASSUME ReservationInv, NEW r \in Readers, ReadStep(r)
    PROVE  ReservationInv'
<1> USE DEF ReservationInv, ReservationType, CpcType, RpcType, callVars, wrapperVars,
            innerVars
<1>1. CASE LockMethod(r) \/ ReadInner(r)
    <2>1. handle
        BY <1>1, ReadsOpen DEF LockMethod, ReadInner
    <2>2. Admitted' = Admitted
        BY <1>1 DEF LockMethod, ReadInner, Admitted
    <2>3. ReservationType' /\ Mutexes'
        BY <1>1, ReservationAssumption DEF LockMethod, ReadInner, Mutexes
    <2>4. ReadersCounted' /\ ClosePending' /\ NativeKnown'
        BY <1>1, <2>2 DEF LockMethod, ReadInner, ReadersCounted, ClosePending, NativeKnown,
           Closes
    <2>5. \A q \in Readers : saw'[q] = "closed" => saw[q] = "closed"
        BY <1>1, <2>1 DEF LockMethod, ReadInner
    <2>6. UNCHANGED <<cpc, op, state, closed, handle, readers>>
        BY <1>1 DEF LockMethod, ReadInner
    <2>7. ClosedKnown'
        BY <2>5, <2>6 DEF ClosedKnown, Closes
    <2> QED
        BY <2>3, <2>4, <2>7
<1>2. CASE EndRead(r)
    <2> USE <1>2 DEF EndRead
    <2>1. Cardinality(Admitted') = Cardinality(Admitted) - 1
        BY AdmittedLess
    <2>2. readers # 0 /\ \A c \in Calls : cpc[c] # "inner"
        BY ReadsOpen
    <2>3. ReservationType' /\ Mutexes'
        BY <2>2 DEF Mutexes
    <2>4. ReadersCounted'
        BY <2>1, <2>2 DEF ReadersCounted
    <2>5. ClosePending' /\ ClosedKnown' /\ NativeKnown'
        BY <2>2, ReadsOpen DEF ClosePending, ClosedKnown, NativeKnown, Closes
    <2> QED
        BY <2>3, <2>4, <2>5
<1> QED
    BY <1>1, <1>2 DEF ReadStep

\* Every step keeps the invariant.
LEMMA ReservationInductive ==
    ReservationInv /\ [ReservationNext]_reservationVars => ReservationInv'
<1> SUFFICES ASSUME ReservationInv, [ReservationNext]_reservationVars
             PROVE  ReservationInv'
    OBVIOUS
<1>1. CASE UNCHANGED reservationVars
    <2>1. Admitted' = Admitted
        BY <1>1, AdmittedKept DEF reservationVars, readVars
    <2> QED
        BY <1>1, <2>1 DEF reservationVars, callVars, readVars, wrapperVars, innerVars,
           ReservationInv, ReservationType, Mutexes, ReadersCounted, ClosePending,
           ClosedKnown, NativeKnown, Closes
<1>2. CASE ReservationNext
    BY <1>2, CallKeeps, MarkKeeps, InnerKeeps, FinishKeeps, BeginReadKeeps, ReadKeeps
    DEF ReservationNext, CallStep
<1> QED
    BY <1>1, <1>2

-----------------------------------------------------------------------------
(* The theorems.                                                            *)

\* The inductive invariant holds in every reachable state.
THEOREM ReservationInvariance == ReservationSpec => []ReservationInv
BY ReservationInitial, ReservationInductive, PTL DEF ReservationSpec

\* However many goroutines commit, roll back, close and read, at most one is
\* inside the inner reservation.
THEOREM AlwaysSerialized == ReservationSpec => []InnerSerialized
<1>1. ReservationInv => InnerSerialized
    <2> SUFFICES ASSUME ReservationInv PROVE InnerSerialized
        OBVIOUS
    <2> DEFINE S == {c \in Calls : cpc[c] = "inner"} \cup {r \in Readers : rpc[r] = "read"}
    <2>1. \A x, y \in S : x = y
        BY ReadsOpen DEF ReservationInv, Mutexes
    <2>2. S = {} \/ \E x \in S : S = {x}
        BY <2>1
    <2> HIDE DEF S
    <2>3. Cardinality(S) <= 1
        BY <2>2, FS_EmptySet, FS_Singleton
    <2> QED
        BY <2>3 DEF InnerSerialized, S
<1> QED
    BY ReservationInvariance, <1>1, PTL

\* A lifecycle call that closes has closed the handle by the time its future is
\* resolved, even if its task was aborted or never submitted.
THEOREM NeverLeaks == ReservationSpec => []NoLeak
<1>1. ReservationInv => NoLeak
    BY DEF ReservationInv, ClosePending, NoLeak
<1> QED
    BY ReservationInvariance, <1>1, PTL

\* A reader that was once told the reservation is closed is never told anything
\* else.
THEOREM AlwaysClosed == ReservationSpec => ClosedForGood
<1>1. ASSUME ReservationInv, [ReservationNext]_reservationVars,
             NEW r \in Readers, saw[r] = "closed"
      PROVE  saw'[r] = "closed"
    BY <1>1, ReadsOpen DEF ReservationInv, ReservationType, ClosedKnown, ReservationNext,
       CallStep, ReadStep, BeginRead, LockMethod, ReadInner, EndRead, RunTask, FailTask, LockLifecycle,
       MarkFinalizing, AwaitReaders, CallInner, FinishInner, ResolveCall, readVars, reservationVars
<1>2. ReservationInv /\ [ReservationNext]_reservationVars =>
        [\A r \in Readers : saw[r] = "closed" => saw'[r] = "closed"]_reservationVars
    BY <1>1
<1> QED
    BY ReservationInvariance, <1>2, PTL DEF ReservationSpec, ClosedForGood

\* A reservation implements Settlement: its reserved state is settled once and
\* its handle freed once.
THEOREM ImplementsSettlement == ReservationSpec => SettlesOnce
<1>1. ReservationInit => Settled!Init
    BY DEF ReservationInit, Settled!Init
<1>2. ReservationInv /\ [ReservationNext]_reservationVars =>
        [Settled!Next]_<<native, ~handle>>
    <2> SUFFICES ASSUME ReservationInv, [ReservationNext]_reservationVars,
                        ~UNCHANGED <<native, ~handle>>
                 PROVE  Settled!Next
        OBVIOUS
    <2>1. PICK c \in Calls : CallInner(c)
        BY DEF ReservationNext, CallStep, ReadStep, BeginRead, LockMethod, ReadInner, EndRead,
           RunTask, FailTask, LockLifecycle, MarkFinalizing, AwaitReaders, FinishInner,
           ResolveCall, innerVars, reservationVars
    <2> USE DEF ReservationInv, ReservationType, NativeKnown
    <2>2. CASE CommitInner
        BY <2>2 DEF CommitInner, NativeResolve, Settled!Next, Settled!Resolve
    <2>3. CASE RollbackInner
        BY <2>3 DEF RollbackInner, NativeResolve, Settled!Next, Settled!Resolve
    <2>4. CASE CloseInner
        BY <2>4 DEF CloseInner, NativeDestroy, Settled!Next, Settled!Free, innerVars
    <2> QED
        BY <2>1, <2>2, <2>3, <2>4 DEF CallInner
<1> QED
    BY ReservationInvariance, <1>1, <1>2, PTL DEF ReservationSpec, SettlesOnce, Settled!Spec

-----------------------------------------------------------------------------
(* Drop-copy operations.                                                    *)

\* The wrapper of a drop-copy operation takes only the steps of a reservation,
\* so everything above holds of it.
THEOREM DropCopyIsReservation == DropCopySpec => ReservationSpec
<1>1. [DropCopyNext(Readers)]_reservationVars => [ReservationNext]_reservationVars
    BY DEF DropCopyNext, DropCopyRun, DropCopyAbort, DropCopyRunInner, DropCopyInner,
       DropCopyResolve, DropCopyBeginRead, DropCopyRead, DropCopyEndRead, ReservationNext,
       CallStep, ReadStep
<1> QED
    BY <1>1, PTL DEF DropCopySpec, ReservationSpec

-----------------------------------------------------------------------------
(***************************************************************************)
(* One run of a chain, for plans of any length: what is open, readable and   *)
(* pending is the business of the step the run is at, and the steps behind    *)
(* it are settled the way their hooks decided.                               *)
(***************************************************************************)

-----------------------------------------------------------------------------
(* Plans.                                                                   *)

\* The steps of a plan, as a function on its indices.
LEMMA PlanShape ==
    ASSUME NEW p \in Plans
    PROVE  /\ Len(p.steps) \in 0..MaxSteps
           /\ p.steps \in [1..Len(p.steps) -> Steps]
<1>1. PICK n \in 0..MaxSteps : p.steps \in [1..n -> Steps]
    BY DEF Plans
<1>2. p.steps \in Seq(Steps)
    BY <1>1, SeqDef, ChainAssumption
<1>3. Len(p.steps) \in Nat /\ p.steps \in [1..Len(p.steps) -> Steps]
    BY <1>2, LenProperties
<1>4. Len(p.steps) = n
    BY <1>1, <1>3, ChainAssumption
<1> QED
    BY <1>1, <1>4

\* The step a chain is at is one of its plan.
LEMMA KindIsStep ==
    ASSUME plan \in Plans, at \in 1..Length
    PROVE  Kind \in Steps
BY PlanShape DEF Length, Kind

-----------------------------------------------------------------------------
(* The inductive invariant.                                                 *)

Running == {"prepare", "engine", "entered", "rejected", "hook", "invalidate", "settle"}
Ending == {"unwind", "finally", "resolve"}

\* A state of a run.
ChainType ==
    /\ plan \in Plans
    /\ pc \in {"built", "queued", "step", "done"} \cup Running \cup Ending
    /\ at \in 1..(Length + 1)
    /\ pc \in Running => at <= Length
    /\ pending \in {0, at}
    /\ alive \in SUBSET {at}
    /\ available \in SUBSET alive
    /\ fate \in [1..MaxSteps -> {"none", "committed", "rolledBack"}]
    /\ status \in {"completed", "rejected"}
    /\ runErr \in BOOLEAN
    /\ cleanupPanicked \in BOOLEAN

\* What the step the run is at has in hand.
HandInv ==
    /\ pc \in {"built", "queued", "step", "prepare", "engine", "entered", "rejected"} =>
          pending = 0 /\ alive = {}
    /\ pc \in Running => (pending # 0 => Kind \in Pending)
    /\ pc = "hook" /\ Kind \notin OrderSteps => pending = 0 /\ alive = {}
    /\ pc \in {"hook", "invalidate"} /\ Kind \in OrderSteps =>
          alive = {at} /\ (Kind \in Pending => pending = at) /\ (Kind = "checkOrder" => pending = 0)
    /\ pc = "invalidate" =>
          /\ Kind \in OrderSteps
          /\ Kind = "checkOrder" => decision \in {"ok", "fail"}
          /\ Kind # "checkOrder" => decision \in {"commit", "rollback", "invalid", "fail"}
    /\ pc = "settle" => /\ Kind \in Pending /\ pending = at /\ alive = {at}
                        /\ decision \in {"commit", "rollback", "invalid"}
    /\ pc = "rejected" => Kind \in Pending
    /\ pc = "unwind" /\ alive # {} => pending = at
    /\ pc \in {"finally", "resolve", "done"} /\ alive # {} => cleanupPanicked
    /\ pending # 0 => at <= Length

\* A result can be read only between the engine's answer and its withdrawal.
ReadInv ==
    /\ pc \notin {"hook", "invalidate"} => available = {}
    /\ reading # 0 => reading \in available

\* The steps behind the run were committed, the ones before it are untouched.
FateInv ==
    /\ \A n \in 1..Length : n < at /\ plan.steps[n] \in Pending => fate[n] = "committed"
    /\ \A n \in 1..MaxSteps : n > at => fate[n] = "none"
    /\ pc \notin Ending \cup {"done"} /\ at <= Length => fate[at] = "none"

\* What the end of a run finds, when nothing failed.
EndInv ==
    /\ pc \notin Ending \cup {"done"} => status = "completed" /\ ~runErr
    /\ pc \in Ending /\ ~runErr =>
          /\ status = "completed" => at = Length + 1
          /\ status = "rejected" => at <= Length /\ fate[at] # "committed"
    /\ pc \notin {"finally", "resolve", "done"} => ~cleanupPanicked
    /\ pc \in {"finally", "resolve", "done"} /\ cleanupPanicked => runErr

OutcomeInv ==
    pc = "done" =>
        /\ outcome.err \in BOOLEAN
        /\ outcome.status \in {"completed", "rejected", "failed"}
        /\ outcome.err <=> outcome.status = "failed"
        /\ outcome.status = "completed" => at = Length + 1
        /\ outcome.status = "rejected" => at <= Length /\ fate[at] # "committed"

ChainInv == ChainType /\ HandInv /\ ReadInv /\ FateInv /\ EndInv /\ OutcomeInv

\* A chain just built satisfies the invariant.
LEMMA ChainInitial == ChainInit(Plans, "built") => ChainInv
<1> SUFFICES ASSUME ChainInit(Plans, "built") PROVE ChainInv
    OBVIOUS
<1>1. Length \in 0..MaxSteps
    BY PlanShape DEF ChainInit, Length
<1>2. ChainType
    <2>1. at \in 1..(Length + 1)
        BY <1>1, ChainAssumption DEF ChainInit
    <2>2. fate \in [1..MaxSteps -> {"none", "committed", "rolledBack"}]
        BY DEF ChainInit
    <2>3. runErr \in BOOLEAN /\ cleanupPanicked \in BOOLEAN
        BY DEF ChainInit
    <2> QED
        BY <2>1, <2>2, <2>3 DEF ChainInit, ChainType, Running, Ending
<1>3. HandInv /\ ReadInv /\ OutcomeInv
    BY DEF ChainInit, HandInv, ReadInv, OutcomeInv, Running
<1>4. FateInv
    BY <1>1, ChainAssumption DEF ChainInit, FateInv, Ending
<1>5. EndInv
    BY DEF ChainInit, EndInv, Ending
<1> QED
    BY <1>2, <1>3, <1>4, <1>5 DEF ChainInv

\* Every kind of step has its place in a validated or refused plan.
LEMMA BeforeKeeps ==
    ASSUME ChainInv, Run \/ Abort \/ Begin \/ NextStep \/ Prepare
    PROVE  ChainInv'
<1> USE DEF ChainInv
<1>1. Length \in Nat /\ Length' = Length
    BY PlanShape, ChainAssumption DEF ChainType, Length, Run, Abort, NeverRuns, Begin, NextStep, Prepare, StepFrame
<1>2. UNCHANGED <<plan, stepVars, reading, status, cleanupPanicked>>
    BY DEF Run, Abort, NeverRuns, Begin, NextStep, Prepare, StepFrame, runVars, history
<1>3. pc \in {"built", "queued", "step", "prepare"}
    BY DEF Run, Abort, Begin, NextStep, Prepare
<1>4. /\ pc' \in {"queued", "step", "prepare", "engine", "unwind", "hook", "done"}
      /\ pc' \in {"prepare", "engine"} => at <= Length
      /\ pc' = "hook" => Kind = "then" /\ at <= Length
    BY DEF Run, Abort, NeverRuns, Begin, NextStep, Prepare, Fails, ChainType, Running
<1>5. runErr' \in BOOLEAN /\ (runErr' => pc' = "unwind") /\ (pc' = "unwind" /\ ~runErr' => at = Length + 1)
    <2>1. runErr = FALSE
        BY <1>3 DEF ChainType, EndInv, Ending
    <2>2. CASE runErr' = runErr /\ pc' # "unwind"
        BY <2>1, <2>2
    <2>3. CASE runErr' = TRUE /\ pc' = "unwind"
        BY <2>3
    <2>4. CASE runErr' = runErr /\ pc' = "unwind" /\ at > Length
        BY <1>1, <2>1, <2>4 DEF ChainType
    <2> QED
        BY <2>2, <2>3, <2>4 DEF Run, Abort, NeverRuns, Begin, NextStep, Prepare, Fails, runVars
<1>6. ChainType'
    BY <1>1, <1>2, <1>4, <1>5 DEF ChainType, stepVars, Length, Running, Ending
<1>7. HandInv'
    BY <1>1, <1>2, <1>3, <1>4 DEF HandInv, stepVars, Kind, Running, OrderSteps, Pending
<1>8. ReadInv' /\ FateInv'
    BY <1>1, <1>2, <1>3, <1>4 DEF ReadInv, FateInv, stepVars, Ending, Length
<1>9. EndInv'
    BY <1>1, <1>2, <1>3, <1>4, <1>5 DEF EndInv, stepVars, Ending
<1>10. OutcomeInv'
    BY <1>4 DEF OutcomeInv, Run, Abort, NeverRuns, NoOutcome, Begin, NextStep, Prepare, Fails
<1> QED
    BY <1>6, <1>7, <1>8, <1>9, <1>10

\* The arithmetic the provers need of the position in a plan.
LEMMA ChainNumbers ==
    ASSUME ChainInv
    PROVE  /\ Length \in Nat /\ Length <= MaxSteps /\ MaxSteps \in Nat /\ at \in Nat \ {0}
           /\ pc \in Running => at \in 1..MaxSteps /\ Kind \in Steps
BY PlanShape, KindIsStep, ChainAssumption DEF ChainInv, ChainType, Length

\* A step of the run that stays where it is in the plan, and may fail.
LEMMA HereKeeps ==
    ASSUME ChainInv, pc \in Running, pc' \in Running \cup {"unwind"},
           UNCHANGED <<plan, at, fate, reading, cleanupPanicked>>,
           pending' \in {0, at}, alive' \in SUBSET {at}, available' \in SUBSET alive',
           \/ runErr' = runErr /\ status' = status /\ pc' # "unwind"
           \/ runErr' = TRUE /\ status' = status /\ pc' = "unwind"
           \/ runErr' = runErr /\ status' = "rejected" /\ pc' = "unwind"
    PROVE  ChainType' /\ FateInv' /\ EndInv' /\ OutcomeInv'
<1> USE DEF ChainInv
<1>1. Length \in Nat /\ Length' = Length
    BY ChainNumbers DEF Length
<1>2. runErr = FALSE /\ cleanupPanicked = FALSE /\ status = "completed" /\ at <= Length /\ fate[at] = "none"
    BY DEF ChainType, EndInv, FateInv, Running, Ending
<1>3. ChainType'
    BY <1>1, <1>2 DEF ChainType, Running, Ending
<1>4. FateInv'
    BY <1>1, <1>2 DEF FateInv, Running, Ending
<1>5. EndInv'
    BY <1>1, <1>2 DEF EndInv, Running, Ending
<1>6. OutcomeInv'
    BY DEF OutcomeInv, Running
<1> QED
    BY <1>3, <1>4, <1>5, <1>6

\* The engine is entered and returns or panics, and the hooks are called.
LEMMA EngineKeeps ==
    ASSUME ChainInv,
           EnterEngine \/ EngineReturns \/ EnginePanics \/ RejectHook \/ ResultHook
    PROVE  ChainInv'
<1> USE DEF ChainInv
<1>1. /\ pc \in {"engine", "entered", "rejected", "hook"}
      /\ pc' \in {"entered", "hook", "invalidate", "unwind"}
      /\ UNCHANGED <<plan, at, fate, reading, cleanupPanicked, pending, alive, available>>
    BY DEF EnterEngine, EngineReturns, EnginePanics, RejectHook, ResultHook, Fails, StepFrame, stepVars,
       history
<1>2. \/ runErr' = runErr /\ status' = status /\ pc' # "unwind"
      \/ runErr' = TRUE /\ status' = status /\ pc' = "unwind"
      \/ runErr' = runErr /\ status' = "rejected" /\ pc' = "unwind"
    BY DEF EnterEngine, EngineReturns, EnginePanics, RejectHook, ResultHook, Fails
<1>3. ChainType' /\ FateInv' /\ EndInv' /\ OutcomeInv'
    BY <1>1, <1>2, HereKeeps DEF ChainType, Running
<1>4. Kind' = Kind
    BY <1>1 DEF Kind
<1>5. HandInv'
    <2>1. CASE EnterEngine \/ EngineReturns \/ EnginePanics \/ RejectHook
        <3>1. pending = 0 /\ alive = {}
            BY <2>1 DEF HandInv, EnterEngine, EngineReturns, EnginePanics, RejectHook
        <3>2. pc' \in {"entered", "hook", "unwind"} /\ (pc' = "hook" => Kind \notin OrderSteps)
            BY <2>1 DEF EnterEngine, EngineReturns, EnginePanics, RejectHook, Fails
        <3> QED
            BY <1>1, <1>4, <3>1, <3>2 DEF HandInv, Running, OrderSteps, Pending
    <2>2. CASE ResultHook
        <3>1. /\ Kind = "checkOrder" => decision' \in {"ok", "fail"}
              /\ Kind # "checkOrder" => decision' \in {"commit", "rollback", "invalid", "fail"}
            BY <2>2 DEF ResultHook
        <3>2. Length' = Length
            BY <1>1 DEF Length
        <3> QED
            BY <1>1, <1>4, <2>2, <3>1, <3>2 DEF HandInv, ResultHook, Running, OrderSteps, Pending
    <2> QED
        BY <2>1, <2>2
<1>6. ReadInv'
    BY <1>1 DEF ReadInv, HandInv, EnterEngine, EngineReturns, EnginePanics, RejectHook, ResultHook, ChainType
<1> QED
    BY <1>3, <1>5, <1>6

\* Whatever shape the engine answers in, a handle it returned is pending.
LEMMA AnswerKeeps ==
    ASSUME ChainInv, NEW h \in {"none", "closed", "live"}, NEW rejects \in BOOLEAN,
           NEW err \in BOOLEAN, OperationReturns(h, rejects, err)
    PROVE  ChainInv'
<1> USE DEF ChainInv
<1>1. /\ pc = "entered" /\ Kind \in Pending /\ pending = 0 /\ alive = {} /\ available = {} /\ reading = 0
    BY DEF OperationReturns, HandInv, ReadInv, ChainType
<1>2. /\ pc' \in {"hook", "rejected", "unwind"}
      /\ UNCHANGED <<plan, at, fate, reading, cleanupPanicked, decision>>
    BY DEF OperationReturns, StepFrame, Fails, history
<1>3. /\ pending' = IF h = "none" THEN 0 ELSE at
      /\ alive' = IF h = "live" THEN {at} ELSE {}
    BY <1>1 DEF OperationReturns, ClaimHandle
<1>4. /\ pc' = "rejected" => h = "none" /\ available' = {}
      /\ pc' = "hook" => h = "live" /\ available' = {at}
      /\ pc' = "unwind" => available' = {}
    BY <1>1 DEF OperationReturns, WellShaped, Fails
<1>5. \/ runErr' = runErr /\ status' = status /\ pc' # "unwind"
      \/ runErr' = TRUE /\ status' = status /\ pc' = "unwind"
    BY DEF OperationReturns, Fails
<1>6. ChainType' /\ FateInv' /\ EndInv' /\ OutcomeInv'
    <2>1. pending' \in {0, at} /\ alive' \in SUBSET {at} /\ available' \in SUBSET alive'
        BY <1>2, <1>3, <1>4
    <2> QED
        BY <1>1, <1>2, <1>5, <2>1, HereKeeps DEF Running
<1>7. Kind' = Kind
    BY <1>2 DEF Kind
<1>8. HandInv'
    <2>1. at <= Length /\ Length' = Length
        BY <1>1, <1>2 DEF ChainType, Running, Length
    <2> QED
        BY <1>1, <1>2, <1>3, <1>4, <1>7, <2>1 DEF HandInv, Running, OrderSteps, Pending
<1>9. ReadInv'
    BY <1>1, <1>2, <1>4 DEF ReadInv
<1> QED
    BY <1>6, <1>8, <1>9

\* A check answers, with a handle or without.
LEMMA CheckKeeps ==
    ASSUME ChainInv, NEW h \in {"none", "closed", "live"}, NEW err \in BOOLEAN,
           CheckReturns(h, err)
    PROVE  ChainInv'
<1> USE DEF ChainInv
<1>1. /\ pc = "entered" /\ Kind = "checkOrder" /\ pending = 0 /\ alive = {} /\ available = {} /\ reading = 0
    BY DEF CheckReturns, HandInv, ReadInv, ChainType
<1>2. /\ UNCHANGED <<plan, at, pending, fate, reading, cleanupPanicked, decision>>
      /\ \/ pc' = "unwind" /\ alive' = {} /\ available' = {}
         \/ pc' = "hook" /\ alive' = {at} /\ available' = {at}
    BY <1>1 DEF CheckReturns, StepFrame, Fails, history
<1>3. \/ runErr' = runErr /\ status' = status /\ pc' # "unwind"
      \/ runErr' = TRUE /\ status' = status /\ pc' = "unwind"
    BY DEF CheckReturns, Fails
<1>4. ChainType' /\ FateInv' /\ EndInv' /\ OutcomeInv'
    BY <1>1, <1>2, <1>3, HereKeeps DEF Running
<1>5. Kind' = Kind
    BY <1>2 DEF Kind
<1>6. HandInv'
    BY <1>1, <1>2, <1>5 DEF HandInv, Running, OrderSteps, Pending
<1>7. ReadInv'
    BY <1>1, <1>2 DEF ReadInv
<1> QED
    BY <1>4, <1>6, <1>7

\* The run moves on to the next step of its plan.
LEMMA ForwardKeeps ==
    ASSUME ChainInv, pc \in Running, pc' = "step", at' = at + 1,
           UNCHANGED <<plan, reading, cleanupPanicked, runErr, status>>,
           pending' = 0, alive' = {}, available' = {}, reading = 0,
           fate' = fate \/ fate' = [fate EXCEPT ![at] = "committed"],
           Kind \in Pending => fate' = [fate EXCEPT ![at] = "committed"]
    PROVE  ChainInv'
<1> USE DEF ChainInv
<1>1. /\ Length \in Nat /\ Length' = Length /\ Length <= MaxSteps /\ MaxSteps \in Nat
      /\ at \in 1..MaxSteps /\ at <= Length
    BY ChainNumbers DEF Length, ChainType
<1>2. ChainType'
    BY <1>1 DEF ChainType, Running, Ending
<1>3. HandInv' /\ ReadInv' /\ OutcomeInv'
    BY DEF HandInv, ReadInv, OutcomeInv, Running
<1>4. FateInv'
    <2>1. \A n \in 1..MaxSteps : n # at => fate'[n] = fate[n]
        BY DEF ChainType
    <2>2. \A n \in 1..MaxSteps : n > at => fate'[n] = "none"
        BY <1>1, <2>1 DEF FateInv
    <2>3. plan.steps[at] \in Pending => fate'[at] = "committed"
        BY <1>1 DEF Kind, ChainType
    <2>4. ASSUME NEW n \in 1..Length, n < at + 1, plan.steps[n] \in Pending
          PROVE  fate'[n] = "committed"
        <3>1. CASE n = at
            BY <2>3, <2>4, <3>1
        <3>2. CASE n < at
            BY <1>1, <2>1, <2>4, <3>2 DEF FateInv
        <3> QED
            BY <1>1, <2>4, <3>1, <3>2
    <2>5. at + 1 <= Length => fate'[at + 1] = "none"
        BY <1>1, <2>2
    <2>6. \A n \in 1..MaxSteps : n > at + 1 => fate'[n] = "none"
        BY <1>1, <2>2
    <2> QED
        BY <1>1, <2>4, <2>5, <2>6 DEF FateInv
<1>5. EndInv'
    BY DEF EndInv, Running, Ending
<1> QED
    BY <1>2, <1>3, <1>4, <1>5

\* The hook of a step that has no handle.
LEMMA PlainKeeps ==
    ASSUME ChainInv, PlainHook
    PROVE  ChainInv'
<1> USE DEF ChainInv
<1>1. pc = "hook" /\ Kind \notin OrderSteps /\ pending = 0 /\ alive = {} /\ available = {} /\ reading = 0
    BY DEF PlainHook, HandInv, ReadInv, ChainType
<1>2. UNCHANGED <<plan, pending, alive, fate, available, decision, status, reading, cleanupPanicked>>
    BY DEF PlainHook, StepFrame, history
<1>3. CASE Continues
    BY <1>1, <1>2, <1>3, ForwardKeeps DEF Continues, Running, OrderSteps
<1>4. CASE Fails /\ UNCHANGED at
    <2>1. ChainType' /\ FateInv' /\ EndInv' /\ OutcomeInv'
        BY <1>1, <1>2, <1>4, HereKeeps DEF Fails, Running
    <2> QED
        BY <1>1, <1>2, <1>4, <2>1 DEF Fails, HandInv, ReadInv, Running
<1> QED
    BY <1>3, <1>4 DEF PlainHook

\* The result lent to a hook is taken back when the hook has returned.
LEMMA InvalidateKeeps ==
    ASSUME ChainInv, Invalidate
    PROVE  ChainInv'
<1> USE DEF ChainInv
<1>1. /\ pc = "invalidate" /\ Kind \in OrderSteps /\ alive = {at}
      /\ Kind \in Pending => pending = at /\ decision # "ok"
      /\ Kind = "checkOrder" => pending = 0 /\ decision \in {"ok", "fail"}
      /\ Kind # "checkOrder" => decision \in {"commit", "rollback", "invalid", "fail"}
    BY DEF Invalidate, HandInv, OrderSteps, Pending
<1>2. reading = 0 /\ available' = {}
    BY <1>1 DEF Invalidate, Withdraw, ReadInv, ChainType
<1>3. UNCHANGED <<plan, pending, fate, decision, status, reading, cleanupPanicked>>
    BY DEF Invalidate, StepFrame, history
<1>4. alive' = IF Kind = "checkOrder" THEN {} ELSE {at}
    BY <1>1 DEF Invalidate
<1>5. CASE decision = "ok" /\ Continues
    BY <1>1, <1>2, <1>3, <1>4, <1>5, ForwardKeeps DEF Continues, Running, OrderSteps, Pending
<1>6. CASE \/ decision = "fail" /\ Fails /\ UNCHANGED at
           \/ decision \notin {"ok", "fail"} /\ pc' = "settle" /\ UNCHANGED <<at, runErr>>
    <2>1. ChainType' /\ FateInv' /\ EndInv' /\ OutcomeInv'
        <3>1. pending' \in {0, at} /\ alive' \in SUBSET {at} /\ available' \in SUBSET alive'
            BY <1>1, <1>2, <1>3, <1>4 DEF ChainType
        <3> QED
            BY <1>1, <1>3, <1>6, <3>1, HereKeeps DEF Fails, Running
    <2>2. Kind' = Kind /\ at <= Length /\ Length' = Length
        BY <1>1, <1>3, <1>6 DEF Kind, Length, ChainType, Running
    <2>3. HandInv'
        BY <1>1, <1>3, <1>4, <1>6, <2>2 DEF HandInv, Fails, Running, OrderSteps, Pending
    <2>4. ReadInv'
        BY <1>2, <1>3, <1>6 DEF ReadInv
    <2> QED
        BY <2>1, <2>3, <2>4
<1> QED
    BY <1>5, <1>6 DEF Invalidate

\* The operation goes the way its hook decided, and the run on or back with it.
LEMMA SettleKeeps ==
    ASSUME ChainInv, Settle \/ SettlePanics
    PROVE  ChainInv'
<1> USE DEF ChainInv
<1>1. /\ pc = "settle" /\ Kind \in Pending /\ pending = at /\ alive = {at} /\ available = {} /\ reading = 0
      /\ decision \in {"commit", "rollback", "invalid"} /\ at <= Length
    BY DEF Settle, SettlePanics, HandInv, ReadInv, ChainType, Running
<1>2. /\ Length \in Nat /\ Length' = Length /\ Length <= MaxSteps /\ MaxSteps \in Nat
      /\ at \in 1..MaxSteps
    BY <1>1, ChainNumbers DEF Length, Settle, SettlePanics, StepFrame, Running
<1>3. UNCHANGED <<plan, available, decision, reading, cleanupPanicked>>
    BY DEF Settle, SettlePanics, StepFrame, history
<1>4. runErr = FALSE /\ status = "completed" /\ cleanupPanicked = FALSE
    BY <1>1 DEF ChainType, EndInv, Ending
<1>5. /\ fate' \in [1..MaxSteps -> {"none", "committed", "rolledBack"}]
      /\ \A n \in 1..MaxSteps : n # at => fate'[n] = fate[n]
      /\ decision # "commit" => fate'[at] = "rolledBack"
      /\ decision = "commit" => fate' = [fate EXCEPT ![at] = "committed"]
    BY <1>2 DEF Settle, SettlePanics, Decided, ChainType
<1>6. CASE Settle /\ decision = "commit" /\ Continues /\ UNCHANGED status
    BY <1>1, <1>3, <1>5, <1>6, ForwardKeeps DEF Settle, Continues, Running
<1>7. CASE \/ Settle /\ \/ decision = "rollback" /\ pc' = "unwind" /\ status' = "rejected" /\ UNCHANGED <<at, runErr>>
                        \/ decision = "invalid" /\ Fails /\ UNCHANGED <<at, status>>
           \/ SettlePanics
    <2>1. /\ pc' = "unwind" /\ at' = at
          /\ pending' \in {0, at} /\ alive' \in SUBSET {at} /\ (alive' # {} => pending' = at)
        BY <1>1, <1>7 DEF Settle, SettlePanics, Fails
    <2>2. /\ runErr' \in BOOLEAN
          /\ runErr' \/ (status' = "rejected" /\ decision # "commit")
          /\ status' \in {"completed", "rejected"}
        BY <1>4, <1>7 DEF Settle, SettlePanics, Fails
    <2>3. ChainType'
        BY <1>1, <1>2, <1>3, <1>4, <1>5, <2>1, <2>2 DEF ChainType, Running, Ending
    <2>4. HandInv' /\ ReadInv' /\ OutcomeInv'
        BY <1>1, <1>2, <1>3, <2>1 DEF HandInv, ReadInv, OutcomeInv, Running
    <2>5. FateInv'
        BY <1>2, <1>3, <1>5, <2>1 DEF FateInv, Ending
    <2>6. EndInv'
        BY <1>1, <1>2, <1>3, <1>4, <1>5, <2>1, <2>2 DEF EndInv, Ending
    <2> QED
        BY <2>3, <2>4, <2>5, <2>6
<1> QED
    BY <1>6, <1>7 DEF Settle

\* What is still open when the steps are over is undone and closed.
LEMMA UnwindKeeps ==
    ASSUME ChainInv, Unwind
    PROVE  ChainInv'
<1> USE DEF ChainInv
<1>1. pc = "unwind" /\ available = {} /\ reading = 0 /\ (alive # {} => pending = at)
    BY DEF Unwind, HandInv, ReadInv, ChainType
<1>2. /\ Length \in Nat /\ Length' = Length /\ Length <= MaxSteps /\ MaxSteps \in Nat /\ at \in Nat \ {0}
      /\ pending # 0 => at <= Length
    BY ChainNumbers DEF Length, Unwind, HandInv
<1>3. /\ UNCHANGED <<plan, at, pending, available, decision, reading, status>>
      /\ pc' \in {"finally", "resolve"}
    BY DEF Unwind
<1>4. cleanupPanicked = FALSE
    BY <1>1 DEF EndInv, ChainType
<1>5. /\ alive' \in SUBSET {at} /\ runErr' \in BOOLEAN /\ cleanupPanicked' \in BOOLEAN
      /\ alive' # {} => cleanupPanicked'
      /\ cleanupPanicked' => runErr'
      /\ runErr => runErr'
    <2>1. CASE pending \notin alive /\ UNCHANGED <<alive, fate, runErr, cleanupPanicked>>
        <3>1. alive = {}
            BY <1>1, <2>1 DEF ChainType
        <3> QED
            BY <1>4, <2>1, <3>1 DEF ChainType
    <2>2. CASE alive' = alive \ {pending} /\ UNCHANGED <<runErr, cleanupPanicked>>
        <3>1. alive' = {}
            BY <1>1, <2>2 DEF ChainType
        <3> QED
            BY <1>4, <2>2, <3>1 DEF ChainType
    <2>3. CASE runErr' = TRUE /\ cleanupPanicked' = TRUE /\ UNCHANGED alive
        BY <2>3 DEF ChainType
    <2> QED
        BY <2>1, <2>2, <2>3 DEF Unwind, RollbackPending
<1>6. /\ fate' \in [1..MaxSteps -> {"none", "committed", "rolledBack"}]
      /\ \A n \in 1..MaxSteps : n # at => fate'[n] = fate[n]
      /\ fate[at] # "committed" => fate'[at] # "committed"
    <2>1. CASE UNCHANGED fate
        BY <2>1 DEF ChainType
    <2>2. CASE pending = at /\ Undo(pending)
        BY <1>2, <2>2 DEF ChainType, Undo
    <2> QED
        BY <1>1, <2>1, <2>2 DEF Unwind, RollbackPending
<1>7. ChainType'
    BY <1>1, <1>2, <1>3, <1>5, <1>6 DEF ChainType, Running, Ending
<1>8. HandInv' /\ ReadInv' /\ OutcomeInv'
    BY <1>1, <1>2, <1>3, <1>5 DEF HandInv, ReadInv, OutcomeInv, Running
<1>9. FateInv'
    BY <1>2, <1>3, <1>6 DEF FateInv, Ending
<1>10. EndInv'
    BY <1>1, <1>2, <1>3, <1>5, <1>6 DEF EndInv, Ending
<1> QED
    BY <1>7, <1>8, <1>9, <1>10

\* The terminal hook and the future change nothing but the outcome.
LEMMA ChainFinishKeeps ==
    ASSUME ChainInv, Finally \/ Resolve
    PROVE  ChainInv'
<1> USE DEF ChainInv
<1>1. /\ pc \in {"finally", "resolve"} /\ available = {} /\ reading = 0
    BY DEF Finally, Resolve, ReadInv, ChainType
<1>2. /\ UNCHANGED <<plan, stepVars, reading, status, cleanupPanicked>>
      /\ pc' \in {"resolve", "done"}
      /\ runErr' \in BOOLEAN /\ (runErr => runErr')
    BY DEF Finally, Resolve, runVars, history, ChainType
<1>3. /\ Length \in Nat /\ Length' = Length
    BY <1>2, ChainNumbers DEF Length
<1>4. ChainType'
    BY <1>2, <1>3 DEF ChainType, stepVars, Running, Ending
<1>5. HandInv' /\ ReadInv'
    BY <1>1, <1>2, <1>3 DEF HandInv, ReadInv, stepVars, Running
<1>6. FateInv'
    BY <1>2, <1>3 DEF FateInv, stepVars, Ending
<1>7. EndInv'
    BY <1>1, <1>2, <1>3 DEF EndInv, stepVars, Ending
<1>8. OutcomeInv'
    <2>1. CASE Finally
        BY <2>1 DEF Finally, OutcomeInv
    <2>2. CASE Resolve
        <3>1. /\ outcome'.status = (IF runErr THEN "failed" ELSE status)
              /\ outcome'.err = runErr
            BY <2>2 DEF Resolve, ResolvedOutcome
        <3>2. runErr \in BOOLEAN /\ status \in {"completed", "rejected"}
            BY DEF ChainType
        <3>3. CASE runErr
            BY <3>1, <3>2, <3>3 DEF OutcomeInv
        <3>4. CASE ~runErr
            <4>1. /\ status = "completed" => at = Length + 1
                  /\ status = "rejected" => at <= Length /\ fate[at] # "committed"
                BY <1>1, <3>4 DEF EndInv, Ending
            <4>2. outcome'.status = status
                BY <3>1, <3>4
            <4> QED
                BY <1>2, <1>3, <3>1, <3>2, <3>4, <4>1, <4>2 DEF OutcomeInv, stepVars
        <3> QED
            BY <3>3, <3>4
    <2> QED
        BY <2>1, <2>2
<1> QED
    BY <1>4, <1>5, <1>6, <1>7, <1>8

\* Readers come and go.
LEMMA ChainReadKeeps ==
    ASSUME ChainInv, (\E n \in 1..MaxSteps : BeginResultRead(n)) \/ EndResultRead \/ UNCHANGED chainVars
    PROVE  ChainInv'
<1> USE DEF ChainInv
<1>1. /\ UNCHANGED <<plan, pc, stepVars, runVars, history, outcome>>
      /\ reading' # 0 => reading' \in available
    BY DEF BeginResultRead, EndResultRead, chainVars, ReadInv
<1>2. Length' = Length /\ Kind' = Kind
    BY <1>1 DEF Length, Kind, stepVars
<1>3. ChainType' /\ ReadInv'
    BY <1>1, <1>2 DEF ChainType, ReadInv, stepVars, runVars, history
<1>4. HandInv'
    BY <1>1, <1>2 DEF HandInv, stepVars, history
<1>5. FateInv' /\ EndInv' /\ OutcomeInv'
    BY <1>1, <1>2 DEF FateInv, EndInv, OutcomeInv, stepVars, runVars, history
<1> QED
    BY <1>3, <1>4, <1>5

\* Every step keeps the invariant.
LEMMA ChainKeeps ==
    ASSUME ChainInv, [ChainNext]_chainVars
    PROVE  ChainInv'
BY BeforeKeeps, EngineKeeps, AnswerKeeps, CheckKeeps, PlainKeeps, InvalidateKeeps, SettleKeeps,
   UnwindKeeps, ChainFinishKeeps, ChainReadKeeps DEF ChainNext, Step, Finished

\* The inductive invariant holds in every reachable state.
LEMMA AlwaysChain == ChainSpec => []ChainInv
BY ChainInitial, ChainKeeps, PTL DEF ChainSpec

-----------------------------------------------------------------------------
(* What follows from it.                                                    *)

\* When Finally runs, and when the future resolves, no handle is open whose
\* closing did not panic; for every plan and every shape of answer.
THEOREM AlwaysClean == ChainSpec => []CleanBeforeFinally
<1>1. ChainInv => CleanBeforeFinally
    BY DEF ChainInv, HandInv, EndInv, CleanBeforeFinally
<1> QED
    BY AlwaysChain, <1>1, PTL

\* A goroutine that kept a hook's result reads a handle that is open and that
\* nobody settles.
THEOREM NeverStale == ChainSpec => []NoStaleRead
<1>1. ChainInv => NoStaleRead
    <2> SUFFICES ASSUME ChainInv, reading # 0
                 PROVE  reading \in alive /\ fate[reading] = "none" /\ pc # "settle"
        BY DEF NoStaleRead
    <2>1. pc \in {"hook", "invalidate"} /\ reading = at /\ reading \in alive /\ at <= Length
        BY DEF ChainInv, ReadInv, ChainType, Running
    <2> QED
        BY <2>1 DEF ChainInv, FateInv, Ending
<1> QED
    BY AlwaysChain, <1>1, PTL

\* A chain says it completed only when every operation of its plan was
\* committed, and rejected only when the one it stopped at was not.
THEOREM AlwaysTrueOutcome == ChainSpec => []OutcomeTrue
<1>1. ChainInv => OutcomeTrue
    <2> SUFFICES ASSUME ChainInv, pc = "done"
                 PROVE  /\ outcome.err = (outcome.status = "failed")
                        /\ outcome.status = "completed" =>
                              \A n \in 1..Length : plan.steps[n] \in Pending => fate[n] = "committed"
                        /\ outcome.status = "rejected" =>
                              /\ \A n \in 1..(at - 1) : plan.steps[n] \in Pending => fate[n] = "committed"
                              /\ fate[at] # "committed"
        BY DEF OutcomeTrue
    <2>1. /\ outcome.err \in BOOLEAN
          /\ outcome.err <=> outcome.status = "failed"
          /\ outcome.status = "completed" => at = Length + 1
          /\ outcome.status = "rejected" => at <= Length /\ fate[at] # "committed"
          /\ \A n \in 1..Length : n < at /\ plan.steps[n] \in Pending => fate[n] = "committed"
          /\ Length \in Nat /\ at \in Nat \ {0}
        BY ChainNumbers DEF ChainInv, OutcomeInv, FateInv
    <2>2. outcome.err = (outcome.status = "failed")
        BY <2>1
    <2>3. ASSUME outcome.status = "completed", NEW n \in 1..Length, plan.steps[n] \in Pending
          PROVE  fate[n] = "committed"
        BY <2>1, <2>3
    <2>4. ASSUME outcome.status = "rejected", NEW n \in 1..(at - 1), plan.steps[n] \in Pending
          PROVE  fate[n] = "committed"
        BY <2>1, <2>4
    <2> QED
        BY <2>1, <2>2, <2>3, <2>4
<1> QED
    BY AlwaysChain, <1>1, PTL

\* Nothing but the decision of its own hook commits an operation, and nothing
\* changes the fate of one that has it.
THEOREM OnlyHooksCommit == ChainSpec => CommittedByDecision
<1>1. ASSUME ChainInv, [ChainNext]_chainVars,
             NEW n \in 1..MaxSteps, fate[n] # fate'[n]
      PROVE  fate[n] = "none" /\ (fate'[n] = "committed" => n = at /\ decision = "commit")
    <2>1. Settle \/ SettlePanics \/ Unwind
        BY <1>1 DEF ChainNext, Step, Finished, chainVars, stepVars, Run, Abort, NeverRuns, Begin, NextStep,
           Prepare, EnterEngine, EngineReturns, EnginePanics, CheckReturns, OperationReturns, RejectHook,
           PlainHook, ResultHook, Invalidate, Finally, Resolve, BeginResultRead, EndResultRead
    <2>2. fate \in [1..MaxSteps -> {"none", "committed", "rolledBack"}]
        BY <1>1 DEF ChainInv, ChainType
    <2>3. CASE Settle \/ SettlePanics
        <3>1. at <= Length /\ fate[at] = "none"
            BY <1>1, <2>3 DEF Settle, SettlePanics, ChainInv, ChainType, FateInv, Running, Ending
        <3> QED
            BY <1>1, <2>2, <2>3, <3>1 DEF Settle, SettlePanics, Decided
    <2>4. CASE Unwind
        BY <1>1, <2>2, <2>4 DEF Unwind, RollbackPending, Undo
    <2> QED
        BY <2>1, <2>3, <2>4
<1>2. ChainInv /\ [ChainNext]_chainVars =>
          [\A n \in 1..MaxSteps : fate[n] # fate'[n] =>
              /\ fate[n] = "none"
              /\ fate'[n] = "committed" => n = at /\ decision = "commit"]_chainVars
    BY <1>1
<1> QED
    BY AlwaysChain, <1>2, PTL DEF ChainSpec, CommittedByDecision

-----------------------------------------------------------------------------
(* Retry safety.  The mark of the run is the history it claims to be, and     *)
(* every error that is reported carries it.                                  *)

MarkInv ==
    /\ retryUnsafe \in BOOLEAN /\ entered \in BOOLEAN /\ marked \in BOOLEAN
    /\ retryUnsafe <=> entered
    /\ pc \in {"built", "queued"} => ~entered
    /\ pc \in {"finally", "resolve"} => (marked <=> runErr /\ retryUnsafe)
    /\ pc \notin {"resolve", "done"} => told = <<>>
    /\ \A n \in DOMAIN told : told[n].retryUnsafe = entered
    /\ pc = "done" => /\ outcome.retryUnsafe = entered
                      /\ outcome.unsafe = (outcome.err /\ entered)

\* A chain just built is not marked.
LEMMA MarkInitial == ChainInit(Plans, "built") => MarkInv
<1> SUFFICES ASSUME ChainInit(Plans, "built") PROVE MarkInv
    OBVIOUS
<1>1. pc = "built" /\ told = <<>> /\ retryUnsafe = FALSE /\ entered = FALSE /\ marked = FALSE
    BY DEF ChainInit
<1>2. \A n \in DOMAIN told : FALSE
    BY <1>1
<1>3. retryUnsafe \in BOOLEAN /\ entered \in BOOLEAN /\ marked \in BOOLEAN
    BY <1>1
<1> QED
    BY <1>1, <1>2, <1>3 DEF MarkInv

\* Every step keeps the mark in line with what was entered.
LEMMA ChainMarkKeeps ==
    ASSUME ChainInv, MarkInv, [ChainNext]_chainVars
    PROVE  MarkInv'
<1> USE DEF MarkInv
<1>1. runErr \in BOOLEAN /\ runErr' \in BOOLEAN
    BY ChainKeeps DEF ChainInv, ChainType
<1>2. CASE NeverRuns /\ pc \in {"built", "queued"}
    BY <1>2 DEF NeverRuns, NoOutcome, runVars, history
<1>3. CASE EnterEngine
    <2>1. UNCHANGED <<marked, told, outcome>> /\ pc = "engine" /\ pc' = "entered"
        BY <1>3 DEF EnterEngine
    <2>2. retryUnsafe' \in BOOLEAN /\ entered' \in BOOLEAN /\ (retryUnsafe' <=> entered')
        BY <1>3 DEF EnterEngine, Mark
    <2> QED
        BY <2>1, <2>2
<1>4. CASE Unwind
    <2>1. UNCHANGED <<retryUnsafe, entered, told, outcome>> /\ pc' \in {"finally", "resolve"} /\ told = <<>>
        BY <1>4 DEF Unwind
    <2>2. marked' = (runErr' /\ retryUnsafe)
        BY <1>4 DEF Unwind
    <2> QED
        BY <1>1, <2>1, <2>2
<1>5. CASE Finally
    <2>1. UNCHANGED <<retryUnsafe, entered, outcome>> /\ pc' = "resolve" /\ told = <<>>
        BY <1>5 DEF Finally
    <2>2. \E err \in BOOLEAN : /\ marked' = (marked \/ (err /\ ~runErr /\ retryUnsafe))
                               /\ runErr' = (runErr \/ err)
        BY <1>5 DEF Finally, FinallyMarks
    <2>3. marked <=> runErr /\ retryUnsafe
        BY <1>5 DEF Finally
    <2>4. marked' \in BOOLEAN /\ (marked' <=> runErr' /\ retryUnsafe)
        BY <1>1, <2>2, <2>3
    <2>5. told' = <<ResolvedOutcome(runErr, marked)>>
        BY <1>5, <2>1 DEF Finally
    <2>6. \A n \in DOMAIN told' : told'[n].retryUnsafe = entered
        BY <2>5 DEF ResolvedOutcome
    <2> QED
        BY <2>1, <2>4, <2>6
<1>6. CASE Resolve
    <2>1. UNCHANGED <<retryUnsafe, entered, told, marked>> /\ pc' = "done"
        BY <1>6 DEF Resolve, runVars, history
    <2>2. outcome'.retryUnsafe = retryUnsafe /\ outcome'.unsafe = marked /\ outcome'.err = runErr
        BY <1>6 DEF Resolve, ResolvedOutcome
    <2>3. marked <=> runErr /\ retryUnsafe
        BY <1>6 DEF Resolve
    <2> QED
        BY <1>1, <2>1, <2>2, <2>3
<1>7. CASE /\ UNCHANGED <<retryUnsafe, entered, told, marked, outcome>>
           /\ \/ UNCHANGED <<pc, runErr>>
              \/ pc' \notin {"built", "queued", "finally", "resolve", "done"} /\ pc \notin {"resolve", "done"}
              \/ pc = "built" /\ pc' = "queued"
    BY <1>7
<1>8. CASE Run \/ Abort
    BY <1>2, <1>7, <1>8 DEF Run, Abort, stepVars, runVars, history
<1>9. CASE (\E n \in 1..MaxSteps : BeginResultRead(n)) \/ EndResultRead \/ UNCHANGED chainVars
    BY <1>7, <1>9 DEF BeginResultRead, EndResultRead, chainVars, runVars, history
<1>10. CASE \/ Begin \/ NextStep \/ Prepare \/ EngineReturns \/ EnginePanics \/ RejectHook
            \/ PlainHook \/ ResultHook \/ Invalidate \/ Settle \/ SettlePanics
    BY <1>7, <1>10 DEF Begin, NextStep, Prepare, EngineReturns, EnginePanics, RejectHook, PlainHook,
       ResultHook, Invalidate, Settle, SettlePanics, Fails, Continues, StepFrame, history
<1>11. ASSUME NEW h, NEW rejects, NEW err,
              OperationReturns(h, rejects, err) \/ CheckReturns(h, err)
       PROVE  MarkInv'
    BY <1>7, <1>11 DEF OperationReturns, CheckReturns, Fails, StepFrame, history
<1> QED
    BY <1>3, <1>4, <1>5, <1>6, <1>8, <1>9, <1>10, <1>11 DEF ChainNext, Step, Finished

\* RetryUnsafe tells exactly whether an engine call that can change state was
\* entered, and a failed chain that entered one is marked, whoever failed it.
THEOREM AlwaysRetryUnsafeTrue == ChainSpec => []RetryUnsafeTrue
<1>1. ChainInv /\ MarkInv /\ [ChainNext]_chainVars => MarkInv'
    BY ChainMarkKeeps
<1>2. MarkInv => RetryUnsafeTrue
    BY DEF MarkInv, RetryUnsafeTrue
<1> QED
    BY AlwaysChain, MarkInitial, <1>1, <1>2, PTL DEF ChainSpec
=============================================================================
