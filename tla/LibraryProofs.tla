--------------------------- MODULE LibraryProofs ---------------------------
(***************************************************************************)
(* Who owns what in the library, for any number of goroutines, services,   *)
(* policies, orders and processes: the handles of the market-data service  *)
(* and the reference book, the policies of a builder and the mutations of  *)
(* their hooks, the files of the loader's cache, and the native memory      *)
(* behind orders, reports and adjustments.                                 *)
(***************************************************************************)
EXTENDS MarketData, PolicyCalls, Loader, Values, TLAPS

-----------------------------------------------------------------------------
(* The market-data service.  A native call finds its handle because a method  *)
(* read it under the mutex, and Close, which forgets it, is alone inside.    *)

GoValues == Services \cup {Book}

MarketType ==
    /\ mpc \in [Callers -> {"idle", "native", "asking", "building"}]
    /\ mop \in [Callers -> ServiceOps \cup BookOps \cup {"none"}]
    /\ mon \in [Callers -> GoValues]
    /\ serviceHandles \in [GoValues -> {"unused", "open", "nil"}]
    /\ freed \in [GoValues -> Nat]
    /\ clones \in [Callers -> {"none", "own"}]

InMethod(c) == mpc[c] \in {"native", "asking"}

\* Close has the value to itself, and any other method found a handle.
MutexInv ==
    /\ \A c, d \in Callers :
         InMethod(c) /\ InMethod(d) /\ mon[c] = mon[d] /\ Closes(mop[c]) => c = d
    /\ \A c \in Callers :
         /\ mpc[c] = "asking" => ~Closes(mop[c])
         /\ InMethod(c) /\ ~Closes(mop[c]) => serviceHandles[mon[c]] = "open"

\* A handle is destroyed when it is forgotten.
FreedInv == \A h \in GoValues : freed[h] = IF serviceHandles[h] = "nil" THEN 1 ELSE 0

MarketInv == MarketType /\ MutexInv /\ FreedInv

\* Nothing has been opened yet.
LEMMA MarketInitial == MarketInit => MarketInv
BY MarketDataAssumption DEF MarketInit, MarketStart, MarketInv, MarketType, MutexInv, FreedInv,
   InMethod, GoValues, Closes

\* A call enters a method or Close.
LEMMA EnterKeeps ==
    ASSUME MarketInv, NEW c \in Callers, NEW h \in GoValues, NEW o \in ServiceOps \cup BookOps,
           EnterMethod(c, h, o) \/ EnterClose(c, h, o)
    PROVE  MarketInv'
<1> USE DEF MarketInv, MarketType, InMethod
<1>1. CASE EnterMethod(c, h, o)
    BY <1>1 DEF EnterMethod, ReadLock, Writer, Inside, MutexInv, FreedInv, Closes
<1>2. CASE EnterClose(c, h, o)
    BY <1>2 DEF EnterClose, Inside, MutexInv, FreedInv, Closes
<1> QED
    BY <1>1, <1>2

\* A native call returns, and the mutex is released.
LEMMA LeaveKeeps ==
    ASSUME MarketInv, NEW c \in Callers, NEW result, Return(c, result),
           UNCHANGED <<serviceHandles, freed>>, clones' \in [Callers -> {"none", "own"}]
    PROVE  MarketInv'
<1> USE DEF MarketInv, MarketType, InMethod, Return
<1>1. First \in GoValues
    BY MarketDataAssumption DEF GoValues
<1>2. MarketType'
    BY <1>1
<1>3. MutexInv'
    BY DEF MutexInv, Closes
<1>4. FreedInv'
    BY DEF FreedInv
<1> QED
    BY <1>2, <1>3, <1>4

\* Close destroys the handle and forgets it, alone inside the mutex.
LEMMA CloseKeeps ==
    ASSUME MarketInv, NEW c \in Callers, CloseHandle(c)
    PROVE  MarketInv'
BY MarketDataAssumption DEF MarketInv, MarketType, InMethod, CloseHandle, Return, MutexInv, FreedInv, Closes,
   GoValues

\* A method of the service or the book that is not Close.
LEMMA MethodKeeps ==
    ASSUME MarketInv, NEW c \in Callers, MethodStep(c)
    PROVE  MarketInv'
<1> USE DEF MarketInv
<1>1. CASE \/ RegisterCall(c) \/ PushCall(c) \/ PushForCall(c)
           \/ InstrumentTTLCall(c) \/ InstrumentAccountTTLCall(c) \/ AccountTTLCall(c)
           \/ ClearCall(c) \/ ResolveCall(c) \/ AnswerGroup(c) \/ PolicyCloneCall(c)
           \/ BookRegisterCall(c) \/ BookResolveCall(c) \/ BookSchemeCall(c)
    <2>1. \E result : Return(c, result)
        BY <1>1 DEF RegisterCall, PushCall, PushForCall, InstrumentTTLCall,
           InstrumentAccountTTLCall, AccountTTLCall, ClearCall, ResolveCall, AnswerGroup,
           PolicyCloneCall, BookRegisterCall, BookResolveCall, BookSchemeCall
    <2>2. UNCHANGED <<serviceHandles, freed>> /\ clones' \in [Callers -> {"none", "own"}]
        BY <1>1 DEF RegisterCall, PushCall, PushForCall, InstrumentTTLCall,
           InstrumentAccountTTLCall, AccountTTLCall, ClearCall, ResolveCall, AnswerGroup,
           PolicyCloneCall, BookRegisterCall, BookResolveCall, BookSchemeCall, MarketType
    <2> QED
        BY <2>1, <2>2, LeaveKeeps
<1>2. CASE GetCall(c)
    <2>1. CASE \E result : Return(c, result)
        BY <1>2, <2>1, LeaveKeeps DEF GetCall, MarketType
    <2>2. CASE mpc' = [mpc EXCEPT ![c] = "asking"] /\ UNCHANGED <<mop, mon, got>>
        BY <1>2, <2>2 DEF GetCall, Native, MarketType, MutexInv, FreedInv, InMethod, Closes
    <2> QED
        BY <1>2, <2>1, <2>2 DEF GetCall
<1>3. CASE CloneCall(c)
    <2>1. PICK h \in Services :
              serviceHandles[h] = "unused" /\ serviceHandles' = [serviceHandles EXCEPT ![h] = "open"]
        BY <1>3 DEF CloneCall
    <2> QED
        BY <1>3, <2>1, MarketDataAssumption
        DEF CloneCall, Return, MarketType, MutexInv, FreedInv, InMethod, Closes, GoValues
<1>4. CASE PolicyAdd(c)
    <2>1. UNCHANGED <<mop, mon, serviceHandles, freed>>
        BY <1>4, MarketDataAssumption DEF PolicyAdd, MarketType, GoValues
    <2> QED
        BY <1>4, <2>1 DEF PolicyAdd, MarketType, MutexInv, FreedInv, InMethod, Closes
<1>5. CASE RefuseGroup(c)
    BY <1>5 DEF RefuseGroup, MarketType, MutexInv, FreedInv, InMethod, Closes
<1> QED
    BY <1>1, <1>2, <1>3, <1>4, <1>5, CloseKeeps DEF MethodStep

\* However methods, clones, policy builds and Close meet, no native call is made
\* on a destroyed handle and none is destroyed twice.
THEOREM AlwaysServiceLive == MarketSpec => []ServiceLive
<1>1. MarketInv /\ [MarketNext]_marketVars => MarketInv'
    <2> SUFFICES ASSUME MarketInv, [MarketNext]_marketVars PROVE MarketInv'
        OBVIOUS
    <2>1. CASE UNCHANGED marketVars
        BY <2>1 DEF marketVars, MarketInv, MarketType, MutexInv, FreedInv, InMethod, Closes
    <2>2. CASE MarketNext
        BY <2>2, EnterKeeps, MethodKeeps DEF MarketNext, MarketInv, MarketType
    <2> QED
        BY <2>1, <2>2
<1>2. MarketInv => ServiceLive
    BY MarketDataAssumption DEF MarketInv, MarketType, MutexInv, FreedInv, InMethod, ServiceLive, GoValues
<1> QED
    BY MarketInitial, <1>1, <1>2, PTL DEF MarketSpec

-----------------------------------------------------------------------------
(* The owner of a policy.  The property is inductive once it is said what     *)
(* is true of the policies that were not handed over.                        *)

BuilderType ==
    /\ builder \in {"none", "live", "failed", "closed"}
    /\ builderErr \in BOOLEAN
    /\ unfinished \in SUBSET Policies
    /\ handed \in SUBSET Policies
    /\ adapter \in [Policies -> {"none", "safe", "fast"}]
    /\ owner \in [Policies -> {"nobody", "builder", "engine"}]
    /\ policyHandle \in [Policies -> {"none", "live", "deleted"}]
    /\ closes \in [Policies -> Nat]
    /\ engineHandle \in {"none", "live", "destroyed"}

\* Where a policy is, once it was handed over.
OnePlace(p) ==
    \/ p \in unfinished /\ owner[p] = "nobody" /\ closes[p] = 0
    \/ p \notin unfinished /\ owner[p] # "nobody" /\ closes[p] = 0
    \/ p \notin unfinished /\ owner[p] = "nobody" /\ closes[p] = 1

OwnerInv ==
    \A p \in Policies :
        /\ p \in handed => OnePlace(p)
        /\ p \notin handed => p \notin unfinished /\ owner[p] = "nobody" /\ closes[p] = 0
        /\ policyHandle[p] = "live" <=> owner[p] # "nobody"
        /\ owner[p] = "engine" => engineHandle = "live"
        /\ owner[p] = "builder" \/ p \in unfinished => Building

BuilderInv == BuilderType /\ OwnerInv

\* A new builder has no policy.
LEMMA BuilderInitial == BuilderInit => BuilderInv
<1> SUFFICES ASSUME BuilderInit PROVE BuilderInv
    OBVIOUS
<1>1. BuilderType
    BY DEF BuilderInit, BuilderType
<1>2. OwnerInv
    BY DEF BuilderInit, OwnerInv
<1> QED
    BY <1>1, <1>2 DEF BuilderInv

\* The invariant has the property in it.
LEMMA BuilderOwnsOnce == BuilderInv => PolicyOwnedOnce
BY DEF BuilderInv, BuilderType, OwnerInv, OnePlace, PolicyOwnedOnce

\* A policy is handed over: it is registered, scheduled for closing, or closed.
LEMMA AddKeeps ==
    ASSUME BuilderInv, NEW p \in Policies, AddPreTradePolicy(p),
           adapter' \in [Policies -> {"none", "safe", "fast"}]
    PROVE  BuilderInv'
<1> USE DEF BuilderInv, BuilderType, OwnerInv, OnePlace, AddPreTradePolicy, Building
<1>1. CASE builderErr /\ ScheduleClose(p) /\ UNCHANGED <<builderErr, policyHandle>>
    BY <1>1 DEF ScheduleClose
<1>2. CASE StartPreTradePolicyFails(p) /\ builderErr' = TRUE /\ ScheduleClose(p)
    BY <1>2 DEF ScheduleClose, StartPreTradePolicyFails
<1>3. CASE AddFails(p)
    BY <1>3 DEF AddFails, FreeUserData, ClosesImpl
<1>4. CASE /\ StartPreTradePolicy(p)
           /\ owner' = [owner EXCEPT ![p] = "builder"]
           /\ UNCHANGED <<builderErr, unfinished, closes>>
    BY <1>4 DEF StartPreTradePolicy
<1> QED
    BY <1>1, <1>2, <1>3, <1>4

\* The builder is closed, built or not, and the engine stopped.
LEMMA CloseBuilderKeeps ==
    ASSUME BuilderInv, Close \/ (\E b \in BOOLEAN : Build(b)) \/ StopEngine
    PROVE  BuilderInv'
<1> USE DEF BuilderInv, BuilderType, OwnerInv, OnePlace, CloseBuilder, ClosesImpl, FreeUserData,
            OwnedBy, Building
<1>1. CASE Close
    BY <1>1 DEF Close
<1>2. CASE \E b \in BOOLEAN : Build(b)
    BY <1>2 DEF Build
<1>3. CASE StopEngine
    BY <1>3 DEF StopEngine
<1> QED
    BY <1>1, <1>2, <1>3

\* Every call on a builder, and the stop of an engine it built, keep it.
LEMMA BuilderKeeps ==
    ASSUME BuilderInv, BuilderNext(Policies) \/ StopIdleEngine \/ UNCHANGED builderVars
    PROVE  BuilderInv'
<1>1. CASE UNCHANGED builderVars
    BY <1>1 DEF builderVars, policyVars, BuilderInv, BuilderType, OwnerInv, OnePlace, Building
<1>2. CASE NewReadyEngineBuilder \/ Builtin
    BY <1>2 DEF NewReadyEngineBuilder, Builtin, AddBuiltinFails, policyVars, BuilderInv,
       BuilderType, OwnerInv, OnePlace, Building
<1>3. ASSUME NEW p \in Policies,
             PreTrade(p) \/ \E kind \in {"safe", "fast"} : ClientPreTrade(p, kind)
      PROVE  BuilderInv'
    BY <1>3, AddKeeps DEF PreTrade, ClientPreTrade, BuilderInv, BuilderType
<1> QED
    BY <1>1, <1>2, <1>3, CloseBuilderKeeps DEF BuilderNext, BuildAsync, StopIdleEngine

-----------------------------------------------------------------------------
(* Callbacks.  What CallbacksLive and FailuresBlock say of a call that ended  *)
(* rests on what holds of one that has not: it has no verdict, nothing        *)
(* pending, no mutation, and a payload nobody deleted.  KillSwitchHolds rests  *)
(* on the block outlasting every failure it answers.                         *)

CallType ==
    /\ clientRequest \in [Orders -> {"none", "open", "executing", "executed", "closed"}]
    /\ payload \in [Orders -> {"none", "live", "deleted"}]
    /\ held \in [Orders -> {"none", "pending", "resolved", "report", "closed"}]
    /\ verdict \in [Orders -> {"none", "passed", "rejected", "blocked", "error", "refused",
                               "finalizerFailed"}]
    /\ callbacks \in [Orders -> [Policies -> {"none", "live", "deleted"}]]
    /\ tentative \in [Orders -> [Policies -> {"none", "applied", "kept", "undone", "broken"}]]
    /\ killed \in BOOLEAN
    /\ panicked \in SUBSET Orders

\* An order and its request, payload and verdict.
CallInv(o) ==
    /\ payload[o] = "live" => clientRequest[o] \in {"open", "executing"}
    /\ clientRequest[o] \in {"open", "executing"} => payload[o] # "deleted" /\ verdict[o] = "none"
    /\ verdict[o] = "none" => held[o] = "none" /\ o \notin panicked
    /\ verdict[o] = "passed" => o \notin panicked

\* Its mutations: the callbacks of one live as long as the state it stands for is
\* neither kept nor undone, and both wait in a handle.
MutationInv(o) ==
    \A p \in Policies :
        /\ callbacks[o][p] = "live" <=> tentative[o][p] = "applied"
        /\ tentative[o][p] = "applied" => held[o] = "pending"

CallsInv ==
    /\ CallType
    /\ \A o \in Orders : CallInv(o) /\ MutationInv(o)
    /\ ~stray
    /\ broken # {} => killed

\* Its mutations, when it has not ended yet or a hook panicked on it.
FailedInv(o) ==
    /\ verdict[o] = "none" => \A p \in Policies : tentative[o][p] = "none"
    /\ o \in panicked => \A p \in Policies : tentative[o][p] \notin {"applied", "kept"}

LateInv ==
    /\ late \subseteq Orders
    /\ \A o \in late : verdict[o] = "rejected" /\ clientRequest[o] = "none"

OutcomeInv == (\A o \in Orders : FailedInv(o)) /\ LateInv

PolicyCallsInv == BuilderInv /\ CallsInv /\ OutcomeInv

\* Before any order the invariant holds.
LEMMA CallsInitial == PolicyCallsInit => PolicyCallsInv
<1> SUFFICES ASSUME PolicyCallsInit PROVE PolicyCallsInv
    OBVIOUS
<1>1. CallType
    BY DEF PolicyCallsInit, CallType
<1>2. \A o \in Orders : CallInv(o) /\ MutationInv(o)
    BY DEF PolicyCallsInit, CallInv, MutationInv
<1>3. ~stray /\ broken = {}
    BY DEF PolicyCallsInit
<1>4. OutcomeInv
    BY DEF PolicyCallsInit, OutcomeInv, FailedInv, LateInv
<1> QED
    BY BuilderInitial, <1>1, <1>2, <1>3, <1>4 DEF PolicyCallsInit, PolicyCallsInv, CallsInv

\* A hook that panics is seen by the library as one that could not be evaluated,
\* and with nil too: the hooks whose zero value accepts do not return it.
LEMMA PanicFails ==
    ASSUME NEW hook, NEW h, NEW seen, NEW p \in Registered, HookPanics(p, h[p].does, seen)
    PROVE  "fail" \in Verdicts(hook, h, seen)
<1>1. HookVerdict(hook, p, h[p].does, seen) = "fail"
    BY DEF HookPanics, HookVerdict, ZeroValue
<1> QED
    BY <1>1 DEF Verdicts

\* The hooks of a call find their policies, and their order's payload.
LEMMA HooksFind ==
    ASSUME PolicyCallsInv, NEW o \in Orders, NEW hook, NEW h, NEW seen, seen # "deleted",
           RunHooks(o, h, seen)
    PROVE  /\ ~stray'
           /\ \/ panicked' = panicked
              \/ "fail" \in Verdicts(hook, h, seen) /\ panicked' = panicked \cup {o}
<1>1. \A p \in Registered : ~(policyHandle[p] # "live" \/ closes[p] > 0)
    BY DEF PolicyCallsInv, BuilderInv, BuilderType, OwnerInv, OnePlace, Registered, OwnedBy
<1>2. ~stray
    BY DEF PolicyCallsInv, CallsInv
<1>3. ~stray'
    BY <1>1, <1>2, Zenon DEF RunHooks
<1> QED
    BY <1>3, PanicFails DEF RunHooks

\* Pushing the mutations of a hook touches only its own order.
LEMMA PushType ==
    ASSUME CallType, NEW o \in Orders, NEW S, Push(o, S)
    PROVE  /\ callbacks' \in [Orders -> [Policies -> {"none", "live", "deleted"}]]
           /\ tentative' \in [Orders -> [Policies -> {"none", "applied", "kept", "undone", "broken"}]]
           /\ \A q \in Orders \ {o} : callbacks'[q] = callbacks[q] /\ tentative'[q] = tentative[q]
           /\ \A p \in Policies :
                 /\ p \in S => callbacks'[o][p] = "live" /\ tentative'[o][p] = "applied"
                 /\ p \notin S => /\ callbacks'[o][p] = callbacks[o][p]
                                  /\ tentative'[o][p] = tentative[o][p]
           /\ killed' = killed /\ broken' = broken
BY DEF CallType, Push

\* So does committing or rolling them back.
LEMMA FinalizeType ==
    ASSUME CallType, NEW o \in Orders, NEW S, NEW how \in {"kept", "undone"}, NEW fails \in SUBSET S,
           Finalize(o, S, how, fails)
    PROVE  /\ callbacks' \in [Orders -> [Policies -> {"none", "live", "deleted"}]]
           /\ tentative' \in [Orders -> [Policies -> {"none", "applied", "kept", "undone", "broken"}]]
           /\ \A q \in Orders \ {o} : callbacks'[q] = callbacks[q] /\ tentative'[q] = tentative[q]
           /\ \A p \in Policies :
                 /\ p \in S => callbacks'[o][p] # "live" /\ tentative'[o][p] # "applied"
                 /\ p \notin S => /\ callbacks'[o][p] = callbacks[o][p]
                                  /\ tentative'[o][p] = tentative[o][p]
           /\ killed' \in BOOLEAN
           /\ (broken # {} => killed) => (broken' # {} => killed')
<1>1. /\ callbacks' \in [Orders -> [Policies -> {"none", "live", "deleted"}]]
      /\ tentative' \in [Orders -> [Policies -> {"none", "applied", "kept", "undone", "broken"}]]
    BY DEF CallType, Finalize
<1>2. \A q \in Orders \ {o} : callbacks'[q] = callbacks[q] /\ tentative'[q] = tentative[q]
    BY DEF CallType, Finalize
<1>3. \A p \in Policies :
         /\ p \in S => callbacks'[o][p] # "live" /\ tentative'[o][p] # "applied"
         /\ p \notin S => /\ callbacks'[o][p] = callbacks[o][p]
                          /\ tentative'[o][p] = tentative[o][p]
    BY DEF CallType, Finalize
<1>4. killed' \in BOOLEAN /\ ((broken # {} => killed) => (broken' # {} => killed'))
    BY DEF CallType, Finalize, Reported
<1> QED
    BY <1>1, <1>2, <1>3, <1>4

\* And releasing the order's payload.
LEMMA ReleaseType ==
    ASSUME CallType, NEW o \in Orders, NEW seen \in {"none", "live"}, ReleasePayload(o, seen)
    PROVE  /\ payload' \in [Orders -> {"none", "live", "deleted"}]
           /\ payload'[o] # "live"
           /\ \A q \in Orders \ {o} : payload'[q] = payload[q]
BY DEF CallType, ReleasePayload, Released

\* What the main stage of an order leaves, whether it passes or not.
LEMMA MainStageKeeps ==
    ASSUME PolicyCallsInv, NEW o \in Orders, NEW h, NEW seen, seen # "deleted",
           NEW enforced, "fail" \in enforced, verdict[o] = "none",
           MainStage(o, h, seen, enforced)
    PROVE  /\ held' \in [Orders -> {"none", "pending", "resolved", "report", "closed"}]
           /\ verdict' \in [Orders -> {"none", "passed", "rejected", "blocked", "error", "refused",
                                       "finalizerFailed"}]
           /\ callbacks' \in [Orders -> [Policies -> {"none", "live", "deleted"}]]
           /\ tentative' \in [Orders -> [Policies -> {"none", "applied", "kept", "undone", "broken"}]]
           /\ killed' \in BOOLEAN
           /\ \A q \in Orders : MutationInv(q)'
           /\ \A q \in Orders \ {o} : held'[q] = held[q] /\ verdict'[q] = verdict[q]
           /\ \A q \in Orders \ {o} : q \in panicked' <=> q \in panicked
           /\ panicked' \in SUBSET Orders
           /\ verdict'[o] # "none" /\ (verdict'[o] = "passed" => o \notin panicked')
           /\ ~stray' /\ (broken' # {} => killed')
<1>1. RunHooks(o, h, seen)
    BY DEF MainStage
<1>2. ~stray' /\ (panicked' = panicked \/ ("fail" \in Verdicts("check", h, seen) /\ panicked' = panicked \cup {o}))
    BY <1>1, HooksFind
<1>3. CallType /\ CallInv(o) /\ (broken # {} => killed) /\ \A q \in Orders : MutationInv(q)
    BY DEF PolicyCallsInv, CallsInv
<1>4. CASE /\ Verdicts("check", h, seen) \cap enforced = {}
           /\ Push(o, Pushed(h))
           /\ Tell(o, "passed") /\ held' = [held EXCEPT ![o] = "pending"]
    <2>1. panicked' = panicked
        BY <1>2, <1>4
    <2>2. /\ callbacks' \in [Orders -> [Policies -> {"none", "live", "deleted"}]]
          /\ tentative' \in [Orders -> [Policies -> {"none", "applied", "kept", "undone", "broken"}]]
          /\ killed' = killed /\ broken' = broken
          /\ \A q \in Orders : MutationInv(q)'
        <3> DEFINE S == Pushed(h)
        <3>1. Push(o, S)
            BY <1>4
        <3> HIDE DEF S
        <3> QED
            BY <1>3, <1>4, <3>1, PushType DEF MutationInv, CallType, CallInv
    <2> QED
        BY <1>2, <1>3, <1>4, <2>1, <2>2 DEF Tell, CallType, CallInv
<1>5. CASE /\ \E fails \in SUBSET Pushed(h) : Finalize(o, Pushed(h), "undone", fails)
           /\ Tell(o, "rejected") /\ UNCHANGED held
    <2>1. PICK fails \in SUBSET Pushed(h) : Finalize(o, Pushed(h), "undone", fails)
        BY <1>5
    <2>2. /\ callbacks' \in [Orders -> [Policies -> {"none", "live", "deleted"}]]
          /\ tentative' \in [Orders -> [Policies -> {"none", "applied", "kept", "undone", "broken"}]]
          /\ killed' \in BOOLEAN /\ (broken' # {} => killed')
          /\ \A q \in Orders : MutationInv(q)'
        <3> DEFINE S == Pushed(h)
        <3>1. Finalize(o, S, "undone", fails) /\ fails \in SUBSET S
            BY <2>1
        <3> HIDE DEF S
        <3>2. /\ callbacks' \in [Orders -> [Policies -> {"none", "live", "deleted"}]]
              /\ tentative' \in [Orders -> [Policies -> {"none", "applied", "kept", "undone", "broken"}]]
              /\ \A q \in Orders \ {o} : callbacks'[q] = callbacks[q] /\ tentative'[q] = tentative[q]
              /\ \A p \in Policies :
                    /\ p \in S => callbacks'[o][p] # "live" /\ tentative'[o][p] # "applied"
                    /\ p \notin S => /\ callbacks'[o][p] = callbacks[o][p]
                                     /\ tentative'[o][p] = tentative[o][p]
              /\ killed' \in BOOLEAN
              /\ (broken # {} => killed) => (broken' # {} => killed')
            BY <1>3, <3>1, FinalizeType
        <3>3. broken' # {} => killed'
            BY <1>3, <3>2, Zenon
        <3>4. \A q \in Orders : MutationInv(q)'
            BY <1>3, <1>5, <3>2 DEF MutationInv
        <3> QED
            BY <3>2, <3>3, <3>4
    <2> QED
        BY <1>2, <1>3, <1>5, <2>2 DEF Tell, CallType, CallInv
<1> QED
    BY <1>4, <1>5 DEF MainStage

\* Calls that run their hooks and are over.
LEMMA CallKeeps ==
    ASSUME PolicyCallsInv, NEW o \in Orders,
           \/ ExecutePreTradeCall(o) \/ ApplyDropCopyCall(o) \/ EndExecuteCall(o)
    PROVE  CallsInv'
<1>1. CallType /\ (broken # {} => killed) /\ ~stray
      /\ \A q \in Orders : CallInv(q) /\ MutationInv(q)
    BY DEF PolicyCallsInv, CallsInv
<1>2. CASE /\ EndExecuteCall(o) /\ \E v \in {"error", "rejected"} : Tell(o, v)
           /\ UNCHANGED <<held, mutationVars>> /\ NoHooks
    <2>1. ~stray' /\ (broken' # {} => killed')
        BY <1>1, <1>2, Zenon DEF mutationVars, NoHooks
    <2>2. PICK v \in {"error", "rejected"} : Tell(o, v)
        BY <1>2
    <2>3. CallType' /\ \A q \in Orders : CallInv(q)' /\ MutationInv(q)'
        BY <1>1, <1>2, <2>2
        DEF EndExecuteCall, Tell, NoHooks, RequestMoves, ReleasePayload, Released, mutationVars,
            CallType, CallInv, MutationInv
    <2> QED
        BY <2>1, <2>3 DEF CallsInv
<1>3. ASSUME NEW h, NEW seen \in {"none", "live"}, NEW enforced, "fail" \in enforced,
             verdict[o] = "none", MainStage(o, h, seen, enforced), ReleasePayload(o, seen),
             \/ clientRequest' = clientRequest /\ clientRequest[o] = "none"
             \/ clientRequest' = [clientRequest EXCEPT ![o] = "executed"]
      PROVE  CallsInv'
    <2>1. /\ held' \in [Orders -> {"none", "pending", "resolved", "report", "closed"}]
          /\ verdict' \in [Orders -> {"none", "passed", "rejected", "blocked", "error", "refused",
                                      "finalizerFailed"}]
          /\ callbacks' \in [Orders -> [Policies -> {"none", "live", "deleted"}]]
          /\ tentative' \in [Orders -> [Policies -> {"none", "applied", "kept", "undone", "broken"}]]
          /\ killed' \in BOOLEAN
          /\ \A q \in Orders : MutationInv(q)'
          /\ \A q \in Orders \ {o} : held'[q] = held[q] /\ verdict'[q] = verdict[q]
          /\ \A q \in Orders \ {o} : q \in panicked' <=> q \in panicked
          /\ panicked' \in SUBSET Orders
          /\ verdict'[o] # "none" /\ (verdict'[o] = "passed" => o \notin panicked')
          /\ ~stray' /\ (broken' # {} => killed')
        BY <1>3, MainStageKeeps
    <2>2. /\ payload' \in [Orders -> {"none", "live", "deleted"}]
          /\ payload'[o] # "live"
          /\ \A q \in Orders \ {o} : payload'[q] = payload[q]
        BY <1>1, <1>3, ReleaseType
    <2>3. clientRequest' \in [Orders -> {"none", "open", "executing", "executed", "closed"}]
        BY <1>1, <1>3 DEF CallType
    <2>4. /\ clientRequest'[o] \notin {"open", "executing"}
          /\ \A q \in Orders \ {o} : clientRequest'[q] = clientRequest[q]
        BY <1>1, <1>3 DEF CallType
    <2>5. CallType'
        BY <2>1, <2>2, <2>3 DEF CallType
    <2>6. \A q \in Orders : CallInv(q)'
        BY <1>1, <2>1, <2>2, <2>4 DEF CallInv
    <2> QED
        BY <2>1, <2>5, <2>6 DEF CallsInv
<1>4. CASE ExecutePreTradeCall(o)
    <2>1. PICK h \in Hooks, seen \in Payloads :
              MainStage(o, h, seen, {"reject", "fail"}) /\ ReleasePayload(o, seen)
        BY <1>4 DEF ExecutePreTradeCall
    <2> QED
        BY <1>3, <1>4, <2>1 DEF ExecutePreTradeCall, Fresh, Payloads
<1>5. CASE ApplyDropCopyCall(o)
    <2>1. PICK h \in Hooks, seen \in Payloads :
              MainStage(o, h, seen, {"fail"}) /\ ReleasePayload(o, seen)
        BY <1>5 DEF ApplyDropCopyCall
    <2> QED
        BY <1>3, <1>5, <2>1 DEF ApplyDropCopyCall, Fresh, Payloads
<1>6. CASE EndExecuteCall(o) /\ \E h \in Hooks : MainStage(o, h, payload[o], {"reject", "fail"})
    <2>1. verdict[o] = "none" /\ payload[o] \in {"none", "live"}
        BY <1>1, <1>6 DEF EndExecuteCall, RequestMoves, CallInv, CallType
    <2> QED
        BY <1>3, <1>6, <2>1 DEF EndExecuteCall, RequestMoves
<1> QED
    BY <1>2, <1>4, <1>5, <1>6 DEF EndExecuteCall

\* Calls without mutations.
LEMMA CheckKeeps ==
    ASSUME PolicyCallsInv, NEW o \in Orders,
           \/ StartPreTradeCall(o) \/ ApplyReportCall(o) \/ DryRunCall(o)
    PROVE  CallsInv'
<1>1. CallType /\ (broken # {} => killed) /\ \A q \in Orders : CallInv(q) /\ MutationInv(q)
    BY DEF PolicyCallsInv, CallsInv
<1>2. tentative' = tentative
    BY DEF StartPreTradeCall, ApplyReportCall, DryRunCall, mutationVars
<1>3. killed' \in BOOLEAN /\ (broken' # {} => killed')
    BY <1>1, Zenon DEF StartPreTradeCall, ApplyReportCall, DryRunCall, mutationVars, CallType
<1>4. CASE StartPreTradeCall(o)
    <2>1. PICK h \in Checks, seen \in Payloads :
          /\ RunHooks(o, h, seen)
          /\ \/ /\ AllAccept("check", h, seen)
                /\ clientRequest' = [clientRequest EXCEPT ![o] = "open"]
                /\ KeepPayload(o, seen) /\ UNCHANGED verdict
             \/ /\ ~AllAccept("check", h, seen)
                /\ Tell(o, "rejected") /\ ReleasePayload(o, seen)
                /\ UNCHANGED clientRequest
        BY <1>4 DEF StartPreTradeCall
    <2>2. /\ ~stray'
          /\ panicked' = panicked \/ ("fail" \in Verdicts("check", h, seen) /\ panicked' = panicked \cup {o})
        BY <2>1, HooksFind DEF Payloads
    <2>3. verdict[o] = "none" /\ clientRequest[o] = "none" /\ UNCHANGED <<held, callbacks>>
        BY <1>4 DEF StartPreTradeCall, Fresh, mutationVars
    <2>4. CASE /\ AllAccept("check", h, seen)
               /\ clientRequest' = [clientRequest EXCEPT ![o] = "open"]
               /\ KeepPayload(o, seen) /\ UNCHANGED verdict
        <3>1. panicked' = panicked
            BY <2>2, <2>4 DEF AllAccept
        <3>2. CallType' /\ \A q \in Orders : CallInv(q)' /\ MutationInv(q)'
            BY <1>1, <1>2, <1>3, <2>3, <2>4, <3>1
            DEF KeepPayload, Payloads, CallType, CallInv, MutationInv
        <3> QED
            BY <1>3, <2>2, <3>2 DEF CallsInv
    <2>5. CASE Tell(o, "rejected") /\ ReleasePayload(o, seen) /\ UNCHANGED clientRequest
        <3>1. CallType' /\ \A q \in Orders : CallInv(q)' /\ MutationInv(q)'
            BY <1>1, <1>2, <1>3, <2>2, <2>3, <2>5
            DEF Tell, ReleasePayload, Released, Payloads, CallType, CallInv, MutationInv
        <3> QED
            BY <1>3, <2>2, <3>1 DEF CallsInv
    <2> QED
        BY <2>1, <2>4, <2>5
<1>5. CASE ApplyReportCall(o)
    <2> DEFINE Blocking(h, seen) ==
                   {p \in Registered : HookVerdict("report", p, h[p].does, seen) # "accept"}
    <2>1. PICK h \in Checks, seen \in Payloads :
          /\ RunHooks(o, h, seen)
          /\ Tell(o, IF Blocking(h, seen) = {} THEN "passed" ELSE "blocked")
          /\ ReleasePayload(o, seen)
        BY <1>5 DEF ApplyReportCall
    <2>2. /\ ~stray'
          /\ \/ panicked' = panicked
             \/ "fail" \in Verdicts("report", h, seen) /\ panicked' = panicked \cup {o}
        BY <2>1, HooksFind DEF Payloads
    <2>3. PICK v \in {"passed", "blocked"} :
              Tell(o, v) /\ (v = "passed" => "fail" \notin Verdicts("report", h, seen))
        BY <2>1 DEF Verdicts
    <2>4. /\ verdict[o] = "none" /\ clientRequest[o] = "none"
          /\ UNCHANGED <<clientRequest, held, callbacks>>
        BY <1>5 DEF ApplyReportCall, Fresh, mutationVars
    <2>5. CallType' /\ \A q \in Orders : CallInv(q)' /\ MutationInv(q)'
        BY <1>1, <1>2, <1>3, <2>1, <2>2, <2>3, <2>4
        DEF Tell, ReleasePayload, Released, Payloads, CallType, CallInv, MutationInv
    <2> QED
        BY <1>3, <2>2, <2>5 DEF CallsInv
<1>6. CASE DryRunCall(o)
    <2>1. PICK h \in Hooks :
          /\ RunHooks(o, h, "none")
          /\ Tell(o, DryRunVerdict(h))
          /\ callbacks' = [callbacks EXCEPT ![o] = [p \in Policies |->
                              IF p \in Pushed(h) THEN "deleted" ELSE @[p]]]
        BY <1>6 DEF DryRunCall
    <2>2. /\ ~stray'
          /\ panicked' = panicked \/ ("fail" \in Verdicts("check", h, "none") /\ panicked' = panicked \cup {o})
        <3> DEFINE seen == "none"
        <3>1. RunHooks(o, h, seen) /\ seen # "deleted"
            BY <2>1
        <3> HIDE DEF seen
        <3>2. /\ ~stray'
              /\ \/ panicked' = panicked
                 \/ "fail" \in Verdicts("check", h, seen) /\ panicked' = panicked \cup {o}
            BY <3>1, HooksFind
        <3> QED
            BY <3>2 DEF seen
    <2>3. PICK v \in {"passed", "rejected"} :
              Tell(o, v) /\ (v = "passed" => "fail" \notin Verdicts("check", h, "none"))
        BY <2>1 DEF DryRunVerdict, AllAccept
    <2>4. /\ verdict[o] = "none" /\ clientRequest[o] = "none"
          /\ UNCHANGED <<clientRequest, payload>>
          /\ held' = [held EXCEPT ![o] = "report"]
        BY <1>6 DEF DryRunCall, Fresh
    <2>5. /\ callbacks' \in [Orders -> [Policies -> {"none", "live", "deleted"}]]
          /\ \A q \in Orders \ {o} : callbacks'[q] = callbacks[q]
          /\ \A p \in Policies : callbacks'[o][p] \in {callbacks[o][p], "deleted"}
        BY <1>1, <2>1 DEF CallType
    <2>6. \A p \in Policies : callbacks[o][p] # "live" /\ tentative[o][p] # "applied"
        BY <1>1, <2>4 DEF CallInv, MutationInv
    <2>7. \A q \in Orders : MutationInv(q)'
        BY <1>1, <1>2, <2>4, <2>5, <2>6 DEF MutationInv, CallType
    <2>8. CallType'
        BY <1>1, <1>2, <1>3, <2>2, <2>3, <2>4, <2>5 DEF Tell, CallType
    <2>9. \A q \in Orders : CallInv(q)'
        BY <1>1, <2>2, <2>3, <2>4 DEF Tell, CallType, CallInv
    <2> QED
        BY <1>3, <2>2, <2>7, <2>8, <2>9 DEF CallsInv
<1> QED
    BY <1>4, <1>5, <1>6

\* Calls that settle their mutations themselves.
LEMMA SettledKeeps ==
    ASSUME PolicyCallsInv, NEW o \in Orders, ApplyAdjustmentCall(o) \/ RetireAccountCall(o)
    PROVE  CallsInv'
<1>1. CallType /\ (broken # {} => killed) /\ \A q \in Orders : CallInv(q) /\ MutationInv(q)
    BY DEF PolicyCallsInv, CallsInv
<1>2. PICK hook \in {"check", "retirement"}, refusal \in {"rejected", "refused"},
           failure \in {"passed", "finalizerFailed"} : SettledCall(o, hook, refusal, failure)
    BY DEF ApplyAdjustmentCall, RetireAccountCall
<1>3. payload' = payload \/ \E seen \in Payloads : ReleasePayload(o, seen)
    BY DEF ApplyAdjustmentCall, RetireAccountCall
<1>4. /\ verdict[o] = "none" /\ clientRequest[o] = "none" /\ UNCHANGED <<clientRequest, held>>
    BY <1>2 DEF SettledCall, Fresh
<1>5. PICK h \in Hooks : \E fails \in SUBSET Pushed(h) :
          /\ RunHooks(o, h, "live")
          /\ Finalize(o, Pushed(h),
                      IF AllAccept(hook, h, "live") THEN "kept" ELSE "undone", fails)
          /\ Tell(o, IF ~AllAccept(hook, h, "live") THEN refusal
                     ELSE IF fails # {} THEN failure ELSE "passed")
    BY <1>2 DEF SettledCall
<1>6. /\ ~stray'
      /\ \/ panicked' = panicked
         \/ "fail" \in Verdicts(hook, h, "live") /\ panicked' = panicked \cup {o}
    <2> DEFINE seen == "live"
    <2>1. RunHooks(o, h, seen) /\ seen # "deleted"
        BY <1>5
    <2> HIDE DEF seen
    <2>2. /\ ~stray'
          /\ \/ panicked' = panicked
             \/ "fail" \in Verdicts(hook, h, seen) /\ panicked' = panicked \cup {o}
        BY <2>1, HooksFind
    <2> QED
        BY <2>2 DEF seen
<1>7. PICK v \in {"passed", "rejected", "refused", "finalizerFailed"} :
          Tell(o, v) /\ (v = "passed" => "fail" \notin Verdicts(hook, h, "live"))
    BY <1>5 DEF AllAccept
<1>8. PICK how \in {"kept", "undone"} : \E fails \in SUBSET Pushed(h) : Finalize(o, Pushed(h), how, fails)
    BY <1>5
<1>9. /\ callbacks' \in [Orders -> [Policies -> {"none", "live", "deleted"}]]
      /\ tentative' \in [Orders -> [Policies -> {"none", "applied", "kept", "undone", "broken"}]]
      /\ \A q \in Orders \ {o} : callbacks'[q] = callbacks[q] /\ tentative'[q] = tentative[q]
      /\ \A p \in Policies :
            /\ p \in Pushed(h) => callbacks'[o][p] # "live" /\ tentative'[o][p] # "applied"
            /\ p \notin Pushed(h) => /\ callbacks'[o][p] = callbacks[o][p]
                                     /\ tentative'[o][p] = tentative[o][p]
      /\ killed' \in BOOLEAN
      /\ (broken # {} => killed) => (broken' # {} => killed')
    BY <1>1, <1>8, FinalizeType
<1>10. broken' # {} => killed'
    BY <1>1, <1>9, Zenon
<1>11. \A q \in Orders : MutationInv(q)'
    BY <1>1, <1>4, <1>9 DEF MutationInv
<1>12. CallType'
    <2>1. payload' \in [Orders -> {"none", "live", "deleted"}]
        BY <1>1, <1>3, ReleaseType DEF Payloads, CallType
    <2>2. verdict' \in [Orders -> {"none", "passed", "rejected", "blocked", "error", "refused",
                                   "finalizerFailed"}]
        BY <1>1, <1>7 DEF Tell, CallType
    <2>3. panicked' \in SUBSET Orders
        BY <1>1, <1>6 DEF CallType
    <2> QED
        BY <1>1, <1>4, <1>9, <2>1, <2>2, <2>3 DEF CallType
<1>13. \A q \in Orders : CallInv(q)'
    BY <1>1, <1>3, <1>4, <1>6, <1>7
    DEF Tell, ReleasePayload, Released, Payloads, CallType, CallInv
<1> QED
    BY <1>6, <1>10, <1>11, <1>12, <1>13 DEF CallsInv

\* The handles of a call: what was pending is kept or undone, once.
LEMMA HandleKeeps ==
    ASSUME PolicyCallsInv, NEW o \in Orders,
           \/ Refuse(o) \/ BlockedCall(o) \/ BeginExecuteCall(o) \/ CloseRequestCall(o)
           \/ CommitHeld(o) \/ RollbackHeld(o) \/ CloseHeld(o) \/ CloseReport(o)
    PROVE  CallsInv'
<1>1. CallType /\ (broken # {} => killed) /\ ~stray
      /\ \A q \in Orders : CallInv(q) /\ MutationInv(q)
    BY DEF PolicyCallsInv, CallsInv
<1>2. ~stray' /\ panicked' = panicked
    BY <1>1 DEF Refuse, BlockedCall, BeginExecuteCall, CloseRequestCall, CommitHeld, RollbackHeld, CloseHeld,
       CloseReport, Resolve, NoHooks
<1>3. CASE /\ UNCHANGED mutationVars
           /\ \/ Refuse(o) \/ BlockedCall(o) \/ BeginExecuteCall(o) \/ CloseRequestCall(o)
              \/ /\ held[o] \in {"resolved", "report"} /\ held' = [held EXCEPT ![o] = "closed"]
                 /\ UNCHANGED <<clientRequest, payload, verdict>>
    <2>1. broken' # {} => killed'
        BY <1>1, <1>3, Zenon DEF mutationVars
    <2>2. CASE Refuse(o) \/ BlockedCall(o) \/ BeginExecuteCall(o) \/ CloseRequestCall(o)
        <3>1. \A q \in Orders : MutationInv(q)'
            BY <1>1, <1>3, <2>2
            DEF Refuse, BlockedCall, BeginExecuteCall, CloseRequestCall, mutationVars, MutationInv
        <3>2. CASE Refuse(o) \/ BlockedCall(o)
            <4>1. PICK v \in {"rejected", "error"} : Tell(o, v)
                BY <3>2 DEF Refuse, BlockedCall
            <4> QED
                BY <1>1, <1>2, <1>3, <2>1, <3>1, <3>2, <4>1
                DEF Refuse, BlockedCall, Fresh, Tell, Payloads, ReleasePayload, Released, mutationVars, CallType, CallInv,
                    CallsInv
        <3>3. CASE BeginExecuteCall(o)
            BY <1>1, <1>2, <1>3, <2>1, <3>1, <3>3
            DEF BeginExecuteCall, RequestMoves, mutationVars, CallType, CallInv, CallsInv
        <3>4. CASE CloseRequestCall(o)
            BY <1>1, <1>2, <1>3, <2>1, <3>1, <3>4
            DEF CloseRequestCall, ReleasePayload, Released, mutationVars, CallType, CallInv, CallsInv
        <3> QED
            BY <2>2, <3>2, <3>3, <3>4
    <2>3. CASE /\ held[o] \in {"resolved", "report"} /\ held' = [held EXCEPT ![o] = "closed"]
               /\ UNCHANGED <<clientRequest, payload, verdict>>
        BY <1>1, <1>2, <1>3, <2>1, <2>3 DEF mutationVars, CallType, CallInv, MutationInv, CallsInv
    <2> QED
        BY <1>3, <2>2, <2>3
<1>4. CASE \E to \in {"resolved", "closed"}, how \in {"kept", "undone"} : /\ Resolve(o, to)
           /\ \E fails \in SUBSET Waiting(o) : Finalize(o, Waiting(o), how, fails)
    <2>1. PICK to \in {"resolved", "closed"}, how \in {"kept", "undone"}, fails \in SUBSET Waiting(o) :
              Resolve(o, to) /\ Finalize(o, Waiting(o), how, fails)
        BY <1>4
    <2>2. /\ callbacks' \in [Orders -> [Policies -> {"none", "live", "deleted"}]]
          /\ tentative' \in [Orders -> [Policies -> {"none", "applied", "kept", "undone", "broken"}]]
          /\ \A q \in Orders \ {o} : callbacks'[q] = callbacks[q] /\ tentative'[q] = tentative[q]
          /\ \A p \in Policies :
                /\ p \in Waiting(o) => callbacks'[o][p] # "live" /\ tentative'[o][p] # "applied"
                /\ p \notin Waiting(o) => /\ callbacks'[o][p] = callbacks[o][p]
                                          /\ tentative'[o][p] = tentative[o][p]
          /\ killed' \in BOOLEAN
          /\ (broken # {} => killed) => (broken' # {} => killed')
        BY <1>1, <2>1, FinalizeType
    <2>3. broken' # {} => killed'
        BY <1>1, <2>2, Zenon
    <2>4. \A q \in Orders : MutationInv(q)'
        BY <1>1, <2>1, <2>2 DEF MutationInv, Resolve, Waiting, CallType
    <2>5. CallType' /\ \A q \in Orders : CallInv(q)'
        BY <1>1, <1>2, <2>1, <2>2 DEF Resolve, CallType, CallInv
    <2> QED
        BY <1>2, <2>3, <2>4, <2>5 DEF CallsInv
<1> QED
    BY <1>3, <1>4 DEF Refuse, BlockedCall, BeginExecuteCall, CloseRequestCall, CommitHeld, RollbackHeld, CloseHeld,
       CloseReport

\* A step of one order tells the others nothing.
LEMMA OthersKept ==
    ASSUME CallType, NEW o \in Orders, OrderStep(o)
    PROVE  /\ \A q \in Orders \ {o} : /\ verdict'[q] = verdict[q]
                                     /\ clientRequest'[q] = clientRequest[q]
                                     /\ tentative'[q] = tentative[q]
           /\ \A q \in Orders \ {o} : q \in panicked' => q \in panicked
<1>1. \A q \in Orders \ {o} : verdict'[q] = verdict[q]
    <2>1. verdict' = verdict \/ \E v : Tell(o, v)
        BY Zenon DEF OrderStep, Refuse, BlockedCall, StartPreTradeCall, ExecutePreTradeCall, MainStage,
           DryRunCall, ApplyDropCopyCall, ApplyReportCall, ApplyAdjustmentCall, RetireAccountCall,
           SettledCall, BeginExecuteCall, EndExecuteCall, CloseRequestCall, CommitHeld, RollbackHeld,
           CloseHeld, CloseReport, Resolve
    <2> QED
        BY <2>1 DEF Tell, CallType
<1>2. \A q \in Orders \ {o} : clientRequest'[q] = clientRequest[q]
    <2>1. clientRequest' = clientRequest \/ \E v : clientRequest' = [clientRequest EXCEPT ![o] = v]
        BY Zenon DEF OrderStep, Refuse, BlockedCall, StartPreTradeCall, ExecutePreTradeCall,
           DryRunCall, ApplyDropCopyCall, ApplyReportCall, ApplyAdjustmentCall, RetireAccountCall,
           SettledCall, BeginExecuteCall, EndExecuteCall, CloseRequestCall, CommitHeld, RollbackHeld,
           CloseHeld, CloseReport, Resolve, RequestMoves
    <2> QED
        BY <2>1 DEF CallType
<1>3. \A q \in Orders \ {o} : tentative'[q] = tentative[q]
    <2>1. \/ tentative' = tentative
          \/ \E S : Push(o, S)
          \/ \E S, how, fails : Finalize(o, S, how, fails)
        BY Zenon DEF OrderStep, Refuse, BlockedCall, StartPreTradeCall, ExecutePreTradeCall, MainStage,
           DryRunCall, ApplyDropCopyCall, ApplyReportCall, ApplyAdjustmentCall, RetireAccountCall,
           SettledCall, BeginExecuteCall, EndExecuteCall, CloseRequestCall, CommitHeld, RollbackHeld,
           CloseHeld, CloseReport, mutationVars
    <2> QED
        BY <2>1 DEF Push, Finalize, CallType
<1>4. \A q \in Orders \ {o} : q \in panicked' => q \in panicked
    <2>1. panicked' = panicked \/ \E h, seen : RunHooks(o, h, seen)
        BY Zenon DEF OrderStep, Refuse, BlockedCall, StartPreTradeCall, ExecutePreTradeCall, MainStage,
           DryRunCall, ApplyDropCopyCall, ApplyReportCall, ApplyAdjustmentCall, RetireAccountCall,
           SettledCall, BeginExecuteCall, EndExecuteCall, CloseRequestCall, CommitHeld, RollbackHeld,
           CloseHeld, CloseReport, Resolve, NoHooks
    <2> QED
        BY <2>1 DEF RunHooks
<1> QED
    BY <1>1, <1>2, <1>3, <1>4

\* An order that asks for pre-trade while something holds the block is rejected,
\* and one that was rejected stays so.
LEMMA LateKeeps ==
    ASSUME PolicyCallsInv, NEW o \in Orders, OrderStep(o)
    PROVE  LateInv'
<1>1. CallType /\ LateInv /\ (broken # {} => killed)
    BY DEF PolicyCallsInv, CallsInv, OutcomeInv
<1>2. \A q \in Orders \ {o} : verdict'[q] = verdict[q] /\ clientRequest'[q] = clientRequest[q]
    BY <1>1, OthersKept
<1>3. CASE /\ BlockedCall(o) \/ StartPreTradeCall(o) \/ ExecutePreTradeCall(o) \/ DryRunCall(o)
           /\ Enters(o)
    <2>1. o \notin late
        BY <1>1, <1>3
        DEF BlockedCall, StartPreTradeCall, ExecutePreTradeCall, DryRunCall, Fresh, LateInv
    <2>2. broken # {} => verdict'[o] = "rejected" /\ clientRequest'[o] = "none"
        <3> SUFFICES ASSUME killed PROVE verdict'[o] = "rejected" /\ clientRequest'[o] = "none"
            BY <1>1, Zenon
        <3>1. BlockedCall(o) \/ DryRunCall(o)
            BY <1>3 DEF StartPreTradeCall, ExecutePreTradeCall
        <3>2. Tell(o, "rejected") /\ UNCHANGED clientRequest /\ clientRequest[o] = "none"
            BY <3>1 DEF BlockedCall, DryRunCall, DryRunVerdict, Fresh
        <3> QED
            BY <1>1, <3>2 DEF Tell, CallType
    <2> QED
        BY <1>1, <1>2, <1>3, <2>1, <2>2 DEF Enters, LateInv
<1>4. CASE UNCHANGED late /\ (Fresh(o) \/ UNCHANGED <<verdict, clientRequest>>)
    BY <1>1, <1>2, <1>4 DEF LateInv, Fresh
<1>5. CASE UNCHANGED late /\ clientRequest[o] # "none"
    BY <1>1, <1>2, <1>5 DEF LateInv
<1> QED
    BY <1>3, <1>4, <1>5, Zenon
    DEF OrderStep, Refuse, ApplyDropCopyCall, ApplyReportCall, ApplyAdjustmentCall, RetireAccountCall,
        SettledCall, BeginExecuteCall, EndExecuteCall, CloseRequestCall, CommitHeld, RollbackHeld,
        CloseHeld, CloseReport, Resolve, RequestMoves

\* The main stage of an order a hook panicked on keeps nothing of it.
LEMMA MainStageFails ==
    ASSUME PolicyCallsInv, NEW o \in Orders, NEW h, NEW seen, seen # "deleted",
           NEW enforced, "fail" \in enforced, verdict[o] = "none",
           MainStage(o, h, seen, enforced)
    PROVE  FailedInv(o)'
<1>1. /\ CallType /\ o \notin panicked
      /\ \A p \in Policies : tentative[o][p] = "none"
    BY DEF PolicyCallsInv, CallsInv, CallInv, OutcomeInv, FailedInv
<1>2. \/ panicked' = panicked
      \/ "fail" \in Verdicts("check", h, seen) /\ panicked' = panicked \cup {o}
    BY HooksFind DEF MainStage
<1>3. CASE Verdicts("check", h, seen) \cap enforced = {} /\ Tell(o, "passed")
    <2>1. o \notin panicked'
        BY <1>1, <1>2, <1>3
    <2>2. verdict'[o] = "passed"
        BY <1>1, <1>3 DEF Tell, CallType
    <2> QED
        BY <2>1, <2>2 DEF FailedInv
<1>4. CASE /\ \E fails \in SUBSET Pushed(h) : Finalize(o, Pushed(h), "undone", fails)
           /\ Tell(o, "rejected")
    <2>1. \A p \in Policies : tentative'[o][p] \notin {"applied", "kept"}
        BY <1>1, <1>4 DEF Finalize, CallType
    <2>2. verdict'[o] = "rejected"
        BY <1>1, <1>4 DEF Tell, CallType
    <2> QED
        BY <2>1, <2>2 DEF FailedInv
<1> QED
    BY <1>3, <1>4 DEF MainStage

\* Nor does any other step of it.
LEMMA FailedKeeps ==
    ASSUME PolicyCallsInv, NEW o \in Orders, OrderStep(o)
    PROVE  \A q \in Orders : FailedInv(q)'
<1>1. /\ CallType /\ CallInv(o) /\ FailedInv(o)
      /\ \A q \in Orders : FailedInv(q)
    BY DEF PolicyCallsInv, CallsInv, OutcomeInv
<1>2. \A q \in Orders \ {o} : FailedInv(q)'
    BY <1>1, OthersKept DEF FailedInv
<1> SUFFICES FailedInv(o)'
    BY <1>2
<1>3. CASE UNCHANGED tentative /\ (verdict'[o] = "none" => verdict[o] = "none")
           /\ (verdict[o] = "none" \/ UNCHANGED panicked)
    BY <1>1, <1>3 DEF FailedInv
<1>4. CASE StartPreTradeCall(o) \/ ApplyReportCall(o) \/ DryRunCall(o)
    BY <1>1, <1>3, <1>4 DEF StartPreTradeCall, ApplyReportCall, DryRunCall, Fresh, mutationVars
<1>5. CASE \/ Refuse(o) \/ BlockedCall(o) \/ BeginExecuteCall(o) \/ CloseRequestCall(o)
           \/ CloseReport(o) \/ /\ UNCHANGED <<verdict, mutationVars>> /\ NoHooks
    BY <1>1, <1>3, <1>5
    DEF Refuse, BlockedCall, BeginExecuteCall, CloseRequestCall, CloseReport, Fresh, NoHooks, mutationVars
<1>6. CASE ExecutePreTradeCall(o) \/ ApplyDropCopyCall(o)
    BY <1>6, MainStageFails DEF ExecutePreTradeCall, ApplyDropCopyCall, Fresh, Payloads
<1>7. CASE EndExecuteCall(o)
    <2>1. verdict[o] = "none" /\ payload[o] # "deleted"
        BY <1>1, <1>7 DEF EndExecuteCall, RequestMoves, CallInv
    <2>2. CASE \E h \in Hooks : MainStage(o, h, payload[o], {"reject", "fail"})
        BY <2>1, <2>2, MainStageFails
    <2>3. CASE UNCHANGED <<held, mutationVars>> /\ NoHooks
        BY <1>3, <2>1, <2>3 DEF NoHooks, mutationVars
    <2> QED
        BY <1>7, <2>2, <2>3 DEF EndExecuteCall
<1>8. ASSUME NEW hook, NEW refusal, NEW failure, SettledCall(o, hook, refusal, failure),
             refusal # "none", failure # "none"
      PROVE  FailedInv(o)'
    <2>1. /\ verdict[o] = "none" /\ o \notin panicked
          /\ \A p \in Policies : tentative[o][p] = "none"
        BY <1>1, <1>8 DEF SettledCall, Fresh, CallInv, FailedInv
    <2>2. PICK h \in Hooks : \E fails \in SUBSET Pushed(h) :
              /\ RunHooks(o, h, "live")
              /\ Finalize(o, Pushed(h),
                          IF AllAccept(hook, h, "live") THEN "kept" ELSE "undone", fails)
              /\ Tell(o, IF ~AllAccept(hook, h, "live") THEN refusal
                         ELSE IF fails # {} THEN failure ELSE "passed")
        BY <1>8 DEF SettledCall
    <2>3. verdict'[o] # "none"
        BY <1>1, <1>8, <2>2 DEF Tell, CallType
    <2>4. CASE AllAccept(hook, h, "live")
        <3>1. \A p \in Registered : ~HookPanics(p, h[p].does, "live")
            BY <2>4, PanicFails DEF AllAccept
        <3>2. o \notin panicked'
            BY <2>1, <2>2, <3>1 DEF RunHooks
        <3> QED
            BY <2>3, <3>2 DEF FailedInv
    <2>5. CASE ~AllAccept(hook, h, "live")
        <3>1. \A p \in Policies : tentative'[o][p] \notin {"applied", "kept"}
            BY <1>1, <2>1, <2>2, <2>5 DEF Finalize, CallType
        <3> QED
            BY <2>3, <3>1 DEF FailedInv
    <2> QED
        BY <2>4, <2>5
<1>9. CASE ApplyAdjustmentCall(o) \/ RetireAccountCall(o)
    BY <1>8, <1>9 DEF ApplyAdjustmentCall, RetireAccountCall
<1>10. CASE /\ \E to : Resolve(o, to)
            /\ \E how, fails : fails \in SUBSET Waiting(o) /\ Finalize(o, Waiting(o), how, fails)
    <2>1. verdict[o] # "none" /\ UNCHANGED <<verdict, panicked>>
        BY <1>1, <1>10 DEF Resolve, NoHooks, CallInv
    <2>2. ASSUME o \in panicked
          PROVE  \A p \in Policies : tentative'[o][p] \notin {"applied", "kept"}
        <3>1. Waiting(o) = {}
            BY <1>1, <2>2 DEF FailedInv, Waiting
        <3>2. \A p \in Policies : tentative'[o][p] = tentative[o][p]
            BY <1>1, <1>10, <3>1 DEF Finalize, CallType
        <3> QED
            BY <1>1, <2>2, <3>2 DEF FailedInv
    <2> QED
        BY <2>1, <2>2 DEF FailedInv
<1>11. CASE CommitHeld(o) \/ RollbackHeld(o) \/ CloseHeld(o)
    BY <1>5, <1>10, <1>11 DEF CommitHeld, RollbackHeld, CloseHeld
<1> QED
    BY <1>4, <1>5, <1>6, <1>7, <1>9, <1>11 DEF OrderStep

\* An operator lifts the kill switch, and what broke before is not counted.
LEMMA LiftKeeps ==
    ASSUME PolicyCallsInv, LiftKillSwitch
    PROVE  CallsInv' /\ OutcomeInv'
<1>1. /\ UNCHANGED <<clientRequest, payload, held, verdict, panicked, callbacks, tentative, late, stray>>
      /\ killed' = FALSE /\ broken' = {}
    BY DEF LiftKillSwitch, orderVars, NoHooks
<1>2. CallType'
    BY <1>1 DEF PolicyCallsInv, CallsInv, CallType
<1>3. \A o \in Orders : CallInv(o)' /\ MutationInv(o)'
    BY <1>1 DEF PolicyCallsInv, CallsInv, CallInv, MutationInv
<1>4. OutcomeInv'
    BY <1>1 DEF PolicyCallsInv, OutcomeInv, FailedInv, LateInv
<1> QED
    BY <1>1, <1>2, <1>3, <1>4 DEF PolicyCallsInv, CallsInv

\* Every step keeps the invariant.
LEMMA PolicyCallsKeeps ==
    ASSUME PolicyCallsInv, [PolicyCallsNext(Policies, Orders)]_policyCallVars
    PROVE  PolicyCallsInv'
<1>1. BuilderInv'
    BY BuilderKeeps DEF PolicyCallsInv, PolicyCallsNext, policyCallVars
<1>2. CASE UNCHANGED <<orderVars, mutationVars, panicked, late, stray>>
    <2>1. CallsInv'
        BY <1>2 DEF PolicyCallsInv, CallsInv, orderVars, mutationVars, CallType, CallInv, MutationInv
    <2>2. OutcomeInv'
        BY <1>2 DEF PolicyCallsInv, OutcomeInv, orderVars, mutationVars, FailedInv, LateInv
    <2> QED
        BY <1>1, <2>1, <2>2 DEF PolicyCallsInv
<1>3. ASSUME NEW o \in Orders, OrderStep(o)
      PROVE  CallsInv'
    BY <1>3, CallKeeps, CheckKeeps, SettledKeeps, HandleKeeps DEF OrderStep
<1>4. ASSUME NEW o \in Orders, OrderStep(o)
      PROVE  OutcomeInv'
    BY <1>4, FailedKeeps, LateKeeps DEF OutcomeInv
<1> QED
    BY <1>1, <1>2, <1>3, <1>4, LiftKeeps DEF PolicyCallsNext, policyCallVars, PolicyCallsInv

\* The inductive invariant holds in every reachable state.
LEMMA AlwaysCalls == PolicyCallsSpec => []PolicyCallsInv
<1> QED
    BY CallsInitial, PolicyCallsKeeps, PTL DEF PolicyCallsSpec

\* A policy handed to a builder has one owner at a time, and its Close is called
\* exactly once by the time nobody has it, whichever call failed on the way.
THEOREM AlwaysOwnedOnce == PolicyCallsSpec => []PolicyOwnedOnce
<1>1. PolicyCallsInv => PolicyOwnedOnce
    BY BuilderOwnsOnce DEF PolicyCallsInv
<1> QED
    BY AlwaysCalls, <1>1, PTL

\* No callback of the library finds its policy or its order's payload gone, and
\* nothing outlives the request or the handle it was kept for.
THEOREM AlwaysCallbacksLive == PolicyCallsSpec => []CallbacksLive
<1>1. PolicyCallsInv => CallbacksLive
    BY DEF PolicyCallsInv, CallsInv, CallInv, MutationInv, CallbacksLive
<1> QED
    BY AlwaysCalls, <1>1, PTL

\* A call a hook panicked on, with a value or with nil, is never accepted, and
\* what the other policies applied for it is not kept.
THEOREM AlwaysFailuresBlock == PolicyCallsSpec => []FailuresBlock
<1>1. PolicyCallsInv => FailuresBlock
    BY DEF PolicyCallsInv, CallsInv, CallType, CallInv, OutcomeInv, FailedInv, FailuresBlock
<1> QED
    BY AlwaysCalls, <1>1, PTL

\* An order that asks for pre-trade after a finalizer failed is rejected, until an
\* operator calls UnblockAll, and it leaves no request.
THEOREM AlwaysKillSwitchHolds == PolicyCallsSpec => []KillSwitchHolds
<1>1. PolicyCallsInv => KillSwitchHolds
    BY DEF PolicyCallsInv, OutcomeInv, LateInv, KillSwitchHolds
<1> QED
    BY AlwaysCalls, <1>1, PTL

-----------------------------------------------------------------------------
(***************************************************************************)
(* LoadedWhole for any number of processes and of embedded libraries.       *)
(*                                                                         *)
(* The property looks at running processes only; it holds because of what    *)
(* the cache never contains.  A target is absent or whole and of the         *)
(* artifact in its path, which needs that what is renamed is a whole file of *)
(* the renaming process's own artifact; and a process opens a cache path     *)
(* only when something is there, which needs that nothing leaves the cache.  *)
(***************************************************************************)

Places == {"start", "stat", "create", "write", "rename", "open", "init", "running",
           "panicked"}

Types ==
    /\ lpc \in [Processes -> Places]
    /\ override \in [Processes -> Overrides]
    /\ embedded \in [Processes -> Artifacts]
    /\ files \in [Artifacts -> Files \cup {NoFile}]
    /\ temp \in [Processes -> Files \cup {NoFile}]
    /\ loaded \in [Processes -> Files \cup {NoFile}]

\* What is in the cache is whole and where its digest says.
CacheWhole == \A a \in Artifacts : files[a] \in {NoFile, File(a, TRUE)}

\* What is about to be renamed is whole and the process's own.
TempWhole ==
    \A p \in Processes : lpc[p] = "rename" => temp[p] = File(embedded[p], TRUE)

\* The path that was resolved names a file.
PathExists ==
    \A p \in Processes : lpc[p] = "open" /\ override[p] = "none" =>
        files[embedded[p]] # NoFile

\* An override is never extracted to the cache.
ExtractsOwn ==
    \A p \in Processes : lpc[p] \in {"stat", "create", "write", "rename"} =>
        override[p] = "none"

\* What was opened is whole, and what is running has the right version.
OpenedWhole ==
    \A p \in Processes : lpc[p] \in {"init", "running"} =>
        /\ override[p] \in {"none", "otherVersion", "library"}
        /\ loaded[p] = IF override[p] = "none" THEN File(embedded[p], TRUE)
                       ELSE File(Foreign, TRUE)
        /\ lpc[p] = "running" => override[p] # "otherVersion"

\* An override that reaches the loader exists.
OverrideOpens ==
    \A p \in Processes : lpc[p] = "open" =>
        override[p] \in {"none", "notLibrary", "otherVersion", "library"}

LoaderInv ==
    /\ Types /\ CacheWhole /\ TempWhole /\ PathExists
    /\ ExtractsOwn /\ OpenedWhole /\ OverrideOpens

\* A file of an artifact is a file, and no file is NoFile.
LEMMA FileFacts ==
    ASSUME NEW a \in Artifacts \cup {Foreign}, NEW w \in BOOLEAN
    PROVE  /\ File(a, w) \in Files
           /\ File(a, w) # NoFile
BY LoaderAssumption DEF File, Files

\* An empty cache satisfies the invariant.
LEMMA LoaderInitial == LoaderInit => LoaderInv
BY DEF LoaderInit, LoaderInv, Types, CacheWhole, TempWhole, PathExists, ExtractsOwn,
       OpenedWhole, OverrideOpens, Places

\* Every step of every process keeps it.
LEMMA LoaderInductive == LoaderInv /\ [LoaderNext]_loaderVars => LoaderInv'
<1> SUFFICES ASSUME LoaderInv, [LoaderNext]_loaderVars
             PROVE  LoaderInv'
    OBVIOUS
<1> USE DEF LoaderInv, Types, Places, Goes, Panics, TargetPath
<1>1. CASE UNCHANGED loaderVars
    BY <1>1 DEF loaderVars, CacheWhole, TempWhole, PathExists, ExtractsOwn, OpenedWhole,
                OverrideOpens
<1>2. ASSUME NEW p \in Processes, ResolveOverride(p)
      PROVE  LoaderInv'
    BY <1>2 DEF ResolveOverride, CacheWhole, TempWhole, PathExists, ExtractsOwn,
                OpenedWhole, OverrideOpens, Overrides
<1>3. ASSUME NEW p \in Processes, StatTarget(p)
      PROVE  LoaderInv'
    BY <1>3 DEF StatTarget, CacheWhole, TempWhole, PathExists, ExtractsOwn,
                OpenedWhole, OverrideOpens
<1>4. ASSUME NEW p \in Processes, CreateTemp(p)
      PROVE  LoaderInv'
    <2>1. File(embedded[p], FALSE) \in Files
        BY FileFacts
    <2>2. Types'
        BY <1>4, <2>1 DEF CreateTemp
    <2>3. CacheWhole' /\ TempWhole' /\ PathExists'
        BY <1>4 DEF CreateTemp, CacheWhole, TempWhole, PathExists
    <2>4. ExtractsOwn' /\ OpenedWhole' /\ OverrideOpens'
        BY <1>4 DEF CreateTemp, ExtractsOwn, OpenedWhole, OverrideOpens
    <2> QED
        BY <2>2, <2>3, <2>4
<1>5. ASSUME NEW p \in Processes, WriteTemp(p)
      PROVE  LoaderInv'
    <2>1. File(embedded[p], TRUE) \in Files
        BY FileFacts
    <2> QED
        <3>1. Types'
            BY <1>5, <2>1 DEF WriteTemp
        <3>2. TempWhole'
            BY <1>5 DEF WriteTemp, TempWhole
        <3>3. CacheWhole' /\ PathExists' /\ ExtractsOwn' /\ OpenedWhole' /\ OverrideOpens'
            BY <1>5 DEF WriteTemp, CacheWhole, PathExists, ExtractsOwn, OpenedWhole,
                        OverrideOpens
        <3> QED
            BY <3>1, <3>2, <3>3
<1>6. ASSUME NEW p \in Processes, RenameTemp(p)
      PROVE  LoaderInv'
    <2>1. /\ File(embedded[p], TRUE) \in Files
          /\ File(embedded[p], TRUE) # NoFile
        BY FileFacts
    <2>2. /\ lpc[p] = "rename"
          /\ temp[p] = File(embedded[p], TRUE)
          /\ override[p] = "none"
        BY <1>6 DEF RenameTemp, TempWhole, ExtractsOwn
    <2>3. UNCHANGED <<override, embedded, loaded>>
          /\ temp' = [temp EXCEPT ![p] = NoFile]
        BY <1>6 DEF RenameTemp
    <2>4. /\ files' \in [Artifacts -> Files \cup {NoFile}]
          /\ \A a \in Artifacts : files'[a] \in {files[a], File(a, TRUE)}
          /\ \/ lpc' = [lpc EXCEPT ![p] = "open"] /\ files'[embedded[p]] # NoFile
             \/ lpc' = [lpc EXCEPT ![p] = "panicked"]
        BY <1>6, <2>1, <2>2 DEF RenameTemp, Publish
    <2>5. CacheWhole'
        BY <2>4 DEF CacheWhole
    <2>6. \A a \in Artifacts : files[a] # NoFile => files'[a] # NoFile
        BY <2>4, FileFacts
    <2>7. Types'
        BY <2>3, <2>4
    <2>8. TempWhole' /\ ExtractsOwn' /\ OpenedWhole' /\ OverrideOpens'
        BY <2>2, <2>3, <2>4 DEF TempWhole, ExtractsOwn, OpenedWhole, OverrideOpens
    <2>9. PathExists'
        BY <2>2, <2>3, <2>4, <2>6 DEF PathExists
    <2> QED
        BY <2>5, <2>7, <2>8, <2>9
<1>7. ASSUME NEW p \in Processes, OpenLibrary(p)
      PROVE  LoaderInv'
    <2>1. lpc[p] = "open"
        BY <1>7 DEF OpenLibrary
    <2>2. override[p] = "none" => Resolved(p) = File(embedded[p], TRUE)
        BY <2>1 DEF Resolved, PathExists, CacheWhole
    <2>3. override[p] # "none" /\ HasMagic(p) => Resolved(p) = File(Foreign, TRUE)
        BY DEF Resolved, HasMagic
    <2>4. File(embedded[p], TRUE) \in Files /\ File(Foreign, TRUE) \in Files
        BY FileFacts
    <2>5. override[p] \in {"none", "notLibrary", "otherVersion", "library"}
        BY <2>1 DEF OverrideOpens
    <2> QED
        <3>0. HasMagic(p) => Resolved(p) \in Files
            BY <2>2, <2>3, <2>4
        <3>1. Types'
            <4>1. CASE HasMagic(p) /\ loaded' = [loaded EXCEPT ![p] = Resolved(p)]
                BY <1>7, <3>0, <4>1 DEF OpenLibrary
            <4>2. CASE UNCHANGED loaded
                BY <1>7, <4>2 DEF OpenLibrary
            <4> QED
                BY <1>7, <4>1, <4>2 DEF OpenLibrary
        <3>2. OpenedWhole'
            BY <1>7, <2>1, <2>2, <2>3, <2>5 DEF OpenLibrary, OpenedWhole, HasMagic
        <3>3. CacheWhole' /\ TempWhole' /\ PathExists' /\ ExtractsOwn' /\ OverrideOpens'
            BY <1>7 DEF OpenLibrary, CacheWhole, TempWhole, PathExists, ExtractsOwn,
                        OverrideOpens
        <3> QED
            BY <3>1, <3>2, <3>3
<1>8. ASSUME NEW p \in Processes, InitNative(p)
      PROVE  LoaderInv'
    BY <1>8 DEF InitNative, VersionOK, CacheWhole, TempWhole, PathExists, ExtractsOwn,
                OpenedWhole, OverrideOpens
<1>9. ASSUME NEW p \in Processes, Restart(p)
      PROVE  LoaderInv'
    BY <1>9 DEF Restart, CacheWhole, TempWhole, PathExists, ExtractsOwn,
                OpenedWhole, OverrideOpens
<1> QED
    BY <1>1, <1>2, <1>3, <1>4, <1>5, <1>6, <1>7, <1>8, <1>9 DEF LoaderNext

\* Whatever processes share the cache, fail or die, one that is running runs
\* the whole library it was built with, or the override of its version.
THEOREM AlwaysLoadedWhole == LoaderSpec => []LoadedWhole
<1>1. LoaderInv => LoadedWhole
    BY DEF LoaderInv, OpenedWhole, LoadedWhole
<1> QED
    BY LoaderInitial, LoaderInductive, <1>1, PTL DEF LoaderSpec

-----------------------------------------------------------------------------
(* The values of package model.  A pointer is kept by the owner beside it, or *)
(* by the owner in the same field of the report it is borrowed from, which    *)
(* nothing modifies while it lends; and what an owner keeps is not freed.     *)

OrNil(S) == S \cup {NoBlock}

\* What a group may hold.
Body(g) ==
    [plain : BOOLEAN, ptr : [Slots(g) -> OrNil(Blocks)], keep : [Slots(g) -> OrNil(Blocks)]]

AnyBody == UNION {Body(g) : g \in Groups}

\* An aggregate of the groups followed.
Shape ==
    {x \in [kind : sum \cup {Absent}, body : [sum -> AnyBody]] : \A g \in sum : x.body[g] \in Body(g)}

ValuesType ==
    /\ sum \in Sums
    /\ aggregate \in [Aggregates -> Shape]
    /\ \/ hand = NoHand
       \/ hand \in [group : sum, body : AnyBody] /\ hand.body \in Body(hand.group)
    /\ views \subseteq Aggregates \X (sum \ {"accountPnl"})
    /\ alive \subseteq Blocks
    /\ lender \in [Aggregates \cup {Hand} -> OrNil(Aggregates)]

\* The owner beside a pointer keeps it.
Kept(c, s) == c.ptr[s] \in {NoBlock, c.keep[s]}

\* There is none, and variable w keeps it in the same field of group g.
Lent(w, g, c, s) ==
    w # NoBlock /\ c.keep[s] = NoBlock /\ aggregate[w].body[g].keep[s] = c.ptr[s]

\* A value that was read carries nothing borrowed but a lock.
Backing ==
    /\ \A v \in Aggregates : \A g \in sum : \A s \in Slots(g) :
          Kept(aggregate[v].body[g], s) \/ Lent(lender[v], g, aggregate[v].body[g], s)
    /\ hand # NoHand => \A s \in Slots(hand.group) :
          Kept(hand.body, s) \/ (s = "lock" /\ Lent(lender[Hand], hand.group, hand.body, s))

\* Only reports borrow, and nobody from a borrower.
Lenders ==
    \A q \in Aggregates \cup {Hand} : lender[q] # NoBlock =>
        sum \subseteq ReportGroups /\ lender[lender[q]] = NoBlock

\* What is owned is not freed.
OwnedLive ==
    /\ \A v \in Aggregates : \A g \in sum : \A s \in Slots(g) :
          aggregate[v].body[g].keep[s] \in OrNil(alive)
    /\ hand # NoHand => \A s \in Slots(hand.group) : hand.body.keep[s] \in OrNil(alive)

ValuesInv == ValuesType /\ Backing /\ Lenders /\ OwnedLive

-----------------------------------------------------------------------------
(* What a method may do to a group.                                         *)

\* A field of what a group holds stays, is cleared, or is set to the fresh block.
Moved(c, d, g, fresh) ==
    /\ d \in Body(g)
    /\ \A s \in Slots(g) :
          \/ d.ptr[s] = c.ptr[s] /\ d.keep[s] = c.keep[s]
          \/ d.ptr[s] = NoBlock /\ d.keep[s] \in OrNil({c.keep[s]})
          \/ d.ptr[s] = fresh /\ d.keep[s] = fresh

\* The empty group.
LEMMA EmptyMoved ==
    ASSUME NEW g, NEW c, NEW fresh
    PROVE  Moved(c, Empty(g), g, fresh)
BY DEF Moved, Empty, Body, OrNil

\* The group as it is, and with its plain fields set or cleared.
LEMMA PlainMoved ==
    ASSUME NEW g, NEW c \in Body(g), NEW fresh, NEW d \in Plain(c) \cup {c}
    PROVE  Moved(c, d, g, fresh)
BY DEF Moved, Plain, Body

\* The group with one field stored, whichever it is.
LEMMA StoredMoved ==
    ASSUME NEW g, NEW c \in Body(g), NEW fresh \in OrNil(Blocks), NEW s,
           NEW b \in {NoBlock, fresh}
    PROVE  Moved(c, Stored(c, s, b), g, fresh)
BY DEF Moved, Stored, Body, OrNil

\* The methods of a group's value.
LEMMA EditedMoved ==
    ASSUME NEW g \in Groups, NEW c \in Body(g), NEW fresh \in OrNil(Blocks),
           NEW d \in Edited(g, c, fresh)
    PROVE  Moved(c, d, g, fresh)
<1>1. ASSUME NEW s PROVE \A e \in Strings(c, s, fresh) : Moved(c, e, g, fresh)
  BY StoredMoved DEF Strings
<1>2. \A e \in LockBytes(c, fresh) : Moved(c, e, g, fresh)
  BY StoredMoved, PlainMoved DEF LockBytes
<1>3. \A e \in Plain(c) \cup {Empty(g), c} : Moved(c, e, g, fresh)
  BY EmptyMoved, PlainMoved
<1> USE DEF OrderFields, ReportFields, FillFields, ImpactFields, BalanceFields,
            PositionFields, AmountFields, BoundsFields
<1>4. CASE g \in OrderGroups
  BY <1>1, <1>3, <1>4 DEF Edited, OrderGroups, OrderOperation, OrderPosition, OrderMargin
<1>5. CASE g \in ReportGroups
  BY <1>1, <1>2, <1>3, <1>5 DEF Edited, ReportGroups, ReportOperation, FinancialImpact,
     Trade, Fill, PositionImpact
<1>6. CASE g \in AdjustmentGroups
  BY <1>1, <1>3, <1>6 DEF Edited, AdjustmentGroups, AdjustmentOperations, BalanceOperation,
     PositionOperation, Amount, Bounds
<1> QED BY <1>4, <1>5, <1>6 DEF Groups

\* The methods of a view change the group it points at, in the same way.
LEMMA ViewMoved ==
    ASSUME NEW g \in Groups \ {"accountPnl"}, NEW x, NEW fresh,
           NEW y \in EditedThrough(g, x, fresh)
    PROVE  \E d \in Edited(g, x.body[g], fresh) : y = [x EXCEPT !.body[g] = d]
<1>1. EditedThrough(g, x, fresh) = Through(x, g, Edited(g, x.body[g], fresh))
  <2>1. CASE g \in OrderGroups
    BY <2>1 DEF EditedThrough, Edited, OrderGroups, OrderOperationView, OrderPositionView,
       OrderMarginView
  <2>2. CASE g \in ReportGroups
    BY <2>2 DEF EditedThrough, Edited, ReportGroups, ReportOperationView,
       FinancialImpactView, FillView, PositionImpactView
  <2>3. CASE g \in AdjustmentGroups
    BY <2>3 DEF EditedThrough, Edited, AdjustmentGroups, AdjustmentOperations,
       BalanceOperationView, PositionOperationView, AmountView, BoundsView
  <2> QED BY <2>1, <2>2, <2>3 DEF Groups
<1> QED BY <1>1 DEF Through

-----------------------------------------------------------------------------
(* What a step leaves in a variable.                                        *)

\* What a variable that borrows from w may hold in group g, after a step that
\* allocates fresh.
Sound(d, w, g, fresh) ==
    /\ d \in Body(g)
    /\ \A s \in Slots(g) :
          /\ Kept(d, s) \/ Lent(w, g, d, s)
          /\ d.keep[s] \in OrNil(alive) \/ (d.keep[s] = fresh /\ d.ptr[s] = fresh)

SoundAggregate(x, w, fresh) == x \in Shape /\ \A g \in sum : Sound(x.body[g], w, g, fresh)

\* The groups of a behaviour.
LEMMA SumGroups ==
    ASSUME sum \in Sums
    PROVE  sum \subseteq Groups /\ sum # {}
<1>1. CASE sum = AdjustmentOperations
  BY <1>1 DEF Groups, AdjustmentGroups, AdjustmentOperations
<1>2. CASE \E g \in Groups : sum = {g}
  BY <1>2
<1> QED BY <1>1, <1>2 DEF Sums

\* What a method leaves is sound.
LEMMA MovedSound ==
    ASSUME ValuesInv, NEW v \in Aggregates, NEW g \in sum, NEW fresh, NEW d,
           Moved(aggregate[v].body[g], d, g, fresh)
    PROVE  Sound(d, lender[v], g, fresh)
BY DEF ValuesInv, Backing, OwnedLive, Moved, Sound, Kept, Lent, OrNil

\* So is what has nothing.
LEMMA NewSound ==
    ASSUME ValuesType, NEW w, NEW fresh
    PROVE  SoundAggregate(NewAggregate(sum), w, fresh)
<1>1. \A g \in sum : Empty(g) \in Body(g) /\ g \in Groups
  BY SumGroups DEF Empty, Body, OrNil, ValuesType
<1> QED BY <1>1 DEF SoundAggregate, Shape, NewAggregate, Sound, Kept, Empty, AnyBody, OrNil

\* An aggregate with one group replaced.
LEMMA GroupSound ==
    ASSUME ValuesInv, NEW w, NEW g \in sum, NEW fresh, NEW d, Sound(d, w, g, fresh),
           NEW k \in sum \cup {Absent}, NEW x, SoundAggregate(x, w, fresh)
    PROVE  SoundAggregate([kind |-> k, body |-> [x.body EXCEPT ![g] = d]], w, fresh)
<1>1. d \in AnyBody
  BY SumGroups DEF Sound, AnyBody, ValuesInv, ValuesType
<1> QED BY <1>1 DEF SoundAggregate, Shape, Sound

\* An aggregate as it is.
LEMMA SameSound ==
    ASSUME ValuesInv, NEW v \in Aggregates, NEW fresh
    PROVE  SoundAggregate(aggregate[v], lender[v], fresh)
BY DEF ValuesInv, ValuesType, Shape, Backing, OwnedLive, SoundAggregate, Sound

\* The memory a step allocates.
Allocated(fresh) ==
    /\ alive \subseteq alive' /\ alive' \subseteq Blocks
    /\ \A v \in Aggregates : \A g \in sum : \A s \in Slots(g) :
          aggregate'[v].body[g].ptr[s] = fresh => fresh \in OrNil(alive')
    /\ hand' # NoHand => \A s \in Slots(hand'.group) : hand'.body.ptr[s] = fresh => fresh \in OrNil(alive')

\* Nothing, or what is pointed at.
LEMMA AllocateAllocates ==
    ASSUME ValuesType, sum' = sum, aggregate' \in [Aggregates -> Shape],
           hand' = NoHand \/ (hand'.group \in sum /\ hand'.body \in Body(hand'.group)),
           NEW fresh \in OrNil(Blocks),
           Allocate({fresh}) \/ (alive' = alive /\ fresh = NoBlock)
    PROVE  Allocated(fresh)
<1>1. CASE alive' = alive /\ fresh = NoBlock
  BY <1>1 DEF Allocated, ValuesType, OrNil
<1>2. CASE Allocate({fresh})
  <2> DEFINE P == Pointers(hand'.body)
                  \cup UNION {Pointers(aggregate'[v].body[g]) : v \in Variables, g \in sum}
  <2>1. alive' = alive \cup ({fresh} \cap P)
    BY <1>2 DEF Allocate
  <2>2. Variables = Aggregates
    BY DEF Variables, ValuesType
  <2>3. ASSUME NEW v \in Aggregates, NEW g \in sum, NEW s \in Slots(g),
               aggregate'[v].body[g].ptr[s] = fresh, fresh # NoBlock
        PROVE  fresh \in P
    <3>1. aggregate'[v].body[g] \in Body(g)
      BY DEF Shape
    <3>2. fresh \in Pointers(aggregate'[v].body[g])
      BY <2>3, <3>1 DEF Pointers, Values, Body
    <3> QED BY <2>2, <3>2
  <2>4. ASSUME hand' # NoHand, NEW s \in Slots(hand'.group), hand'.body.ptr[s] = fresh,
               fresh # NoBlock
        PROVE  fresh \in P
    BY <2>4 DEF Pointers, Values, Body
  <2>5. ASSUME fresh \in P PROVE fresh \in Blocks
    BY <2>5 DEF Pointers, OrNil
  <2> HIDE DEF P
  <2> QED BY <2>1, <2>3, <2>4, <2>5 DEF Allocated, ValuesType, OrNil
<1> QED BY <1>1, <1>2

\* Variable v is replaced by x, which borrows from b; what borrowed from v is
\* not used any more.
Replaces(v, x, b) ==
    /\ aggregate' = [w \in Aggregates |-> IF w = v THEN x ELSE
                        IF lender[w] = v THEN NewAggregate(sum) ELSE aggregate[w]]
    /\ hand' = IF lender[Hand] = v THEN NoHand ELSE hand
    /\ lender' = [q \in Aggregates \cup {Hand} |->
                     IF q = v THEN b ELSE IF lender[q] = v THEN NoBlock ELSE lender[q]]

\* The invariant is kept when x is sound and b does not borrow.
LEMMA ReplaceKeeps ==
    ASSUME ValuesInv, NEW v \in Aggregates, NEW fresh \in OrNil(Blocks), NEW x,
           NEW b \in OrNil(Aggregates), SoundAggregate(x, b, fresh), Replaces(v, x, b),
           b # NoBlock => b # v /\ lender[b] = NoBlock /\ sum \subseteq ReportGroups,
           sum' = sum, views' \subseteq Aggregates \X (sum \ {"accountPnl"}),
           Allocate({fresh}) \/ (alive' = alive /\ fresh = NoBlock)
    PROVE  ValuesInv'
<1> USE ValuesAssumption DEF ValuesInv
<1>2. /\ aggregate' = [w \in Aggregates |-> IF w = v THEN x ELSE
                          IF lender[w] = v THEN NewAggregate(sum) ELSE aggregate[w]]
      /\ hand' = IF lender[Hand] = v THEN NoHand ELSE hand
      /\ lender' = [q \in Aggregates \cup {Hand} |->
                       IF q = v THEN b ELSE IF lender[q] = v THEN NoBlock ELSE lender[q]]
  BY DEF Replaces
<1>3. /\ NewAggregate(sum) \in Shape /\ x \in Shape
      /\ Shape' = Shape /\ \A g : Body(g)' = Body(g)
  BY NewSound DEF SoundAggregate, Shape, AnyBody, Body
<1>4. aggregate' \in [Aggregates -> Shape]
  BY <1>2, <1>3 DEF ValuesType
<1>5. Allocated(fresh)
  <2>1. hand' = NoHand \/ (hand'.group \in sum /\ hand'.body \in Body(hand'.group))
    BY <1>2 DEF ValuesType
  <2> QED BY <1>4, <2>1, AllocateAllocates
<1>6. ValuesType'
  BY <1>2, <1>3, <1>4, <1>5 DEF ValuesType, Allocated, AnyBody, NoHand, OrNil
<1>7. \A g \in sum : \A s \in Slots(g) :
        /\ NewAggregate(sum).body[g].ptr[s] = NoBlock
        /\ NewAggregate(sum).body[g].keep[s] = NoBlock
  BY DEF NewAggregate, Empty
<1>8. \A q \in Aggregates \cup {Hand} : lender'[q] # NoBlock =>
        /\ lender'[q] \in Aggregates \ {v}
        /\ lender[lender'[q]] = NoBlock
        /\ aggregate'[lender'[q]] = aggregate[lender'[q]]
        /\ q # v => lender'[q] = lender[q]
  BY <1>2 DEF Lenders, ValuesType, OrNil
<1>10. Backing'
  <2>1. ASSUME NEW w \in Aggregates, NEW g \in sum, NEW s \in Slots(g)
        PROVE  Kept(aggregate[w].body[g], s)' \/ Lent(lender[w], g, aggregate[w].body[g], s)'
    <3>1. CASE w = v
      <4>1. aggregate'[w].body[g] = x.body[g]
        BY <3>1, <1>2
      <4>2. Kept(x.body[g], s) \/ Lent(b, g, x.body[g], s)
        BY <3>1 DEF SoundAggregate, Sound
      <4>3. CASE Kept(x.body[g], s)
        BY <4>1, <4>3 DEF Kept
      <4>4. CASE Lent(b, g, x.body[g], s)
        <5>1. lender'[w] = b /\ aggregate'[b] = aggregate[b]
          BY <3>1, <4>4, <1>2, <1>8 DEF Lent
        <5> QED BY <4>1, <4>4, <5>1 DEF Lent
      <4> QED BY <4>2, <4>3, <4>4
    <3>2. CASE w # v /\ lender[w] = v
      BY <3>2, <1>2, <1>7 DEF Kept
    <3>3. CASE w # v /\ lender[w] # v
      <4>1. aggregate'[w] = aggregate[w]
        BY <3>3, <1>2
      <4>2. CASE Kept(aggregate[w].body[g], s)
        BY <4>1, <4>2 DEF Kept
      <4>3. CASE Lent(lender[w], g, aggregate[w].body[g], s)
        <5>1. lender'[w] = lender[w] /\ aggregate'[lender[w]] = aggregate[lender[w]]
          BY <3>3, <4>3, <1>2, <1>8 DEF Lent
        <5> QED BY <4>1, <4>3, <5>1 DEF Lent
      <4> QED BY <4>2, <4>3 DEF Backing
    <3> QED BY <3>1, <3>2, <3>3
  <2>2. ASSUME hand' # NoHand, NEW s \in Slots(hand'.group)
        PROVE  \/ Kept(hand.body, s)'
               \/ s = "lock" /\ Lent(lender[Hand], hand.group, hand.body, s)'
    <3>1. hand' = hand
      BY <2>2, <1>2
    <3>2. CASE Kept(hand.body, s)
      BY <3>1, <3>2 DEF Kept
    <3>3. CASE s = "lock" /\ Lent(lender[Hand], hand.group, hand.body, s)
      <4>1. lender'[Hand] = lender[Hand] /\ aggregate'[lender[Hand]] = aggregate[lender[Hand]]
        BY <2>2, <3>3, <1>2, <1>8 DEF Lent
      <4> QED BY <3>1, <3>3, <4>1 DEF Lent
    <3> QED BY <2>2, <3>1, <3>2, <3>3 DEF Backing
  <2> QED BY <2>1, <2>2 DEF Backing
<1>11. Lenders'
  BY <1>2, <1>8 DEF Lenders, ValuesType, OrNil
<1>12. OwnedLive'
  <2>1. ASSUME NEW w \in Aggregates, NEW g \in sum, NEW s \in Slots(g)
        PROVE  aggregate'[w].body[g].keep[s] \in OrNil(alive')
    <3>1. CASE w = v
      BY <3>1, <1>2, <1>5 DEF SoundAggregate, Sound, Allocated, OrNil
    <3>2. CASE w # v /\ lender[w] = v
      BY <3>2, <1>2, <1>7 DEF OrNil
    <3>3. CASE w # v /\ lender[w] # v
      BY <3>3, <1>2, <1>5 DEF OwnedLive, Allocated, OrNil
    <3> QED BY <3>1, <3>2, <3>3
  <2>2. ASSUME hand' # NoHand, NEW s \in Slots(hand'.group)
        PROVE  hand'.body.keep[s] \in OrNil(alive')
    BY <2>2, <1>2, <1>5 DEF OwnedLive, Allocated, OrNil
  <2> QED BY <2>1, <2>2 DEF OwnedLive, OrNil
<1> QED BY <1>6, <1>10, <1>11, <1>12

\* Modify.
LEMMA ModifyKeeps ==
    ASSUME ValuesInv, NEW v \in Aggregates, NEW fresh \in OrNil(Blocks), NEW x,
           SoundAggregate(x, lender[v], fresh), Modify(v, x),
           sum' = sum, views' \subseteq Aggregates \X (sum \ {"accountPnl"}),
           Allocate({fresh}) \/ (alive' = alive /\ fresh = NoBlock)
    PROVE  ValuesInv'
<1>1. Replaces(v, x, lender[v])
  BY ValuesAssumption
     DEF ValuesInv, Modify, Borrowers, Variables, ValuesType, Lenders, OrNil, Replaces
<1>2. /\ lender[v] \in OrNil(Aggregates)
      /\ lender[v] # NoBlock =>
           lender[v] # v /\ lender[lender[v]] = NoBlock /\ sum \subseteq ReportGroups
  BY DEF ValuesInv, ValuesType, Lenders
<1> QED BY <1>1, <1>2, ReplaceKeeps


-----------------------------------------------------------------------------
(* The steps of the program.                                                *)

\* New values satisfy the invariant.
LEMMA ValuesInitial == ValuesInit => ValuesInv
<1> SUFFICES ASSUME NEW gs \in Sums, ValuesStart(gs, Aggregates) PROVE ValuesInv
  BY DEF ValuesInit
<1>1. sum \in Sums /\ sum \subseteq Groups
  BY SumGroups DEF ValuesStart
<1>2. \A g : Empty(g) \in Body(g)
  BY DEF Empty, Body, OrNil
<1>3. NewAggregate(sum) \in Shape
  BY <1>1, <1>2 DEF NewAggregate, Shape, AnyBody
<1>4. ValuesType
  BY <1>1, <1>3 DEF ValuesType, ValuesStart, OrNil
<1>5. Backing /\ OwnedLive
  BY DEF ValuesStart, Backing, OwnedLive, Kept, NewAggregate, Empty, OrNil
<1>6. Lenders
  BY DEF ValuesStart, Lenders
<1> QED BY <1>4, <1>5, <1>6 DEF ValuesInv

\* The block a step may allocate.
LEMMA FreshFacts ==
    ASSUME ValuesType
    PROVE  /\ FreshBlock \in OrNil(Blocks)
           /\ Unused # {} => FreshBlock \in Unused /\ FreshBlock # NoBlock
BY ValuesAssumption DEF FreshBlock, Unused, OrNil

\* The finalizer of an owner that nothing reaches.
LEMMA CollectKeeps ==
    ASSUME ValuesInv, NEW b \in Blocks, Collect(b)
    PROVE  ValuesInv'
<1> USE DEF ValuesInv
<1>1. /\ alive' = alive \ {b} /\ b \notin Reachable
      /\ UNCHANGED <<sum, aggregate, hand, views, lender>>
  BY DEF Collect
<1>2. ValuesType' /\ Backing' /\ Lenders'
  <2>1. Shape' = Shape
    BY <1>1 DEF Shape, AnyBody, Body
  <2>2. ValuesType'
    BY <1>1, <2>1 DEF ValuesType
  <2>3. Backing'
    BY <1>1 DEF Backing, Kept, Lent
  <2>4. Lenders'
    BY <1>1 DEF Lenders
  <2> QED BY <2>2, <2>3, <2>4
<1>3. ASSUME NEW v \in Aggregates, NEW g \in sum, NEW s \in Slots(g)
      PROVE  aggregate[v].body[g].keep[s] # b
  <2>1. aggregate[v].body[g] \in Body(g)
    BY DEF ValuesType, Shape
  <2>2. ASSUME aggregate[v].body[g].keep[s] = b PROVE b \in Owners(aggregate[v].body[g])
    BY <2>1, <2>2, ValuesAssumption DEF Owners, Values, Body
  <2> QED BY <1>1, <2>2 DEF Reachable, Variables, ValuesType
<1>4. ASSUME hand # NoHand, NEW s \in Slots(hand.group)
      PROVE  hand.body.keep[s] # b
  <2>1. hand.body \in Body(hand.group)
    BY <1>4 DEF ValuesType
  <2>2. ASSUME hand.body.keep[s] = b PROVE b \in Owners(hand.body)
    BY <2>1, <2>2, ValuesAssumption DEF Owners, Values, Body
  <2> QED BY <1>1, <2>2 DEF Reachable
<1>5. OwnedLive'
  BY <1>1, <1>3, <1>4 DEF OwnedLive, OrNil
<1> QED BY <1>2, <1>5

\* What a value in hand that borrows from w may hold, after a step that
\* allocates fresh.
HandSound(d, w, g, fresh) ==
    /\ d \in Body(g)
    /\ \A s \in Slots(g) :
          /\ Kept(d, s) \/ (s = "lock" /\ Lent(w, g, d, s))
          /\ d.keep[s] \in OrNil(alive) \/ (d.keep[s] = fresh /\ d.ptr[s] = fresh)

\* The value in hand is replaced by one of group g, which borrows from b.
LEMMA HandKeeps ==
    ASSUME ValuesInv, NEW g \in sum, NEW b \in OrNil(Aggregates), NEW d,
           NEW fresh \in OrNil(Blocks), HandSound(d, b, g, fresh),
           hand' = [group |-> g, body |-> d], lender' = [lender EXCEPT ![Hand] = b],
           UNCHANGED <<sum, aggregate, views>>,
           b # NoBlock => lender[b] = NoBlock /\ sum \subseteq ReportGroups,
           Allocate({fresh}) \/ (alive' = alive /\ fresh = NoBlock)
    PROVE  ValuesInv'
<1> USE ValuesAssumption DEF ValuesInv
<1>1. sum \subseteq Groups /\ NoGroup \notin Groups
  BY SumGroups DEF ValuesType, NoGroup, Groups, OrderGroups, ReportGroups, AdjustmentGroups,
     AdjustmentOperations
<1>2. hand' \in [group : sum, body : AnyBody]
  BY <1>1 DEF AnyBody, HandSound
<1>3. Allocated(fresh)
  BY <1>2, AllocateAllocates DEF ValuesType, HandSound
<1>4. ValuesType'
  BY <1>2, <1>3 DEF HandSound, ValuesType, Allocated, Shape, AnyBody, Body, OrNil
<1>5. /\ lender'[Hand] = b /\ \A v \in Aggregates : lender'[v] = lender[v]
  BY DEF ValuesType
<1>6. Backing'
  BY <1>5 DEF HandSound, Backing, Kept, Lent
<1>7. Lenders'
  BY <1>5 DEF Lenders, ValuesType, OrNil
<1>8. OwnedLive'
  BY <1>3 DEF HandSound, OwnedLive, Allocated, OrNil
<1> QED BY <1>4, <1>6, <1>7, <1>8
\* New group values, and their methods.
LEMMA HandStepKeeps ==
    ASSUME ValuesInv, (\E g \in Groups : NewHand(g)) \/ EditHand(FreshBlock)
    PROVE  ValuesInv'
<1> USE DEF ValuesInv
<1>1. ASSUME NEW g \in Groups, NewHand(g) PROVE ValuesInv'
  <2> DEFINE d == [Empty(g) EXCEPT !.plain = g = "accountPnl"]
  <2>1. d \in Body(g) /\ \A s \in Slots(g) : d.ptr[s] = NoBlock /\ d.keep[s] = NoBlock
    BY DEF Empty, Body, OrNil
  <2>2. /\ g \in sum /\ hand' = [group |-> g, body |-> d]
        /\ lender' = [lender EXCEPT ![Hand] = NoBlock]
        /\ UNCHANGED <<sum, aggregate, views, alive>>
    BY <1>1 DEF NewHand
  <2> HIDE DEF d
  <2>3. HandSound(d, NoBlock, g, NoBlock)
    BY <2>1 DEF HandSound, Kept, OrNil
  <2>4. NoBlock \in OrNil(Blocks) /\ NoBlock \in OrNil(Aggregates)
    BY DEF OrNil
  <2> QED BY <2>1, <2>2, <2>3, <2>4, HandKeeps
<1>2. ASSUME EditHand(FreshBlock) PROVE ValuesInv'
  <2>1. hand # NoHand /\ hand.group \in sum /\ hand.body \in Body(hand.group)
    BY <1>2 DEF EditHand, ValuesType, NoHand
  <2> PICK g \in sum : g = hand.group
    BY <2>1
  <2> PICK b \in OrNil(Aggregates) : b = lender[Hand]
    BY DEF ValuesType
  <2> PICK f \in OrNil(Blocks) : f = FreshBlock
    BY FreshFacts
  <2> DEFINE c == hand.body
  <2>2. PICK d \in Edited(g, c, f) : hand' = [hand EXCEPT !.body = d]
    BY <1>2 DEF EditHand
  <2>3. hand' = [group |-> g, body |-> d]
    BY <2>1, <2>2 DEF ValuesType
  <2>4. Moved(c, d, g, f)
    BY <2>1, <2>2, EditedMoved, SumGroups DEF ValuesType
  <2>5. /\ lender' = [lender EXCEPT ![Hand] = b]
        /\ b # NoBlock => lender[b] = NoBlock /\ sum \subseteq ReportGroups
        /\ UNCHANGED <<sum, aggregate, views>> /\ Allocate({f})
    BY <1>2 DEF EditHand, ValuesType, Lenders
  <2>6. ASSUME NEW s \in Slots(g)
        PROVE  /\ Kept(d, s) \/ (s = "lock" /\ Lent(b, g, d, s))
               /\ \/ d.keep[s] \in OrNil(alive)
                  \/ d.keep[s] = f /\ d.ptr[s] = f
    <3>1. /\ Kept(c, s) \/ (s = "lock" /\ Lent(b, g, c, s))
          /\ c.keep[s] \in OrNil(alive)
      BY <2>1 DEF Backing, OwnedLive
    <3> HIDE DEF c
    <3> QED BY <2>4, <3>1 DEF Moved, Kept, Lent, OrNil
  <2>7. HandSound(d, b, g, f)
    BY <2>4, <2>6 DEF HandSound, Moved
  <2> QED BY <2>3, <2>5, <2>7, HandKeeps
<1> QED BY <1>1, <1>2

\* The kinds of an aggregate: only a report borrows.
LEMMA OnlyReportsBorrow ==
    ASSUME ValuesInv, sum \subseteq OrderGroups \/ sum \subseteq AdjustmentGroups
    PROVE  \A q \in Aggregates \cup {Hand} : lender[q] = NoBlock
<1>1. PICK g : g \in sum
  BY SumGroups DEF ValuesInv, ValuesType
<1>2. g \notin ReportGroups
  BY <1>1 DEF OrderGroups, ReportGroups, AdjustmentGroups, AdjustmentOperations
<1> QED BY <1>1, <1>2 DEF ValuesInv, Lenders

\* Unset, Ensure...View and Reset.
LEMMA ResetSound ==
    ASSUME ValuesInv, NEW v \in Aggregates, NEW g \in sum, NEW x,
           x \in {OptionalReset(aggregate[v], g), OptionalEnsure(aggregate[v], g),
                  AdjustmentUnset(aggregate[v], g), AdjustmentEnsure(aggregate[v], g)}
    PROVE  SoundAggregate(x, lender[v], NoBlock)
<1> DEFINE y == aggregate[v]
<1>1. /\ y \in Shape /\ y.kind \in sum \cup {Absent} /\ y = [kind |-> y.kind, body |-> y.body]
      /\ \A h \in sum : y.body[h] \in Body(h) /\ DOMAIN y.body = sum
  BY DEF ValuesInv, ValuesType, Shape
<1>2. \A h \in sum : Sound(Empty(h), lender[v], h, NoBlock) /\ Sound(y.body[h], lender[v], h, NoBlock)
  BY EmptyMoved, MovedSound, SameSound DEF SoundAggregate
<1>3. Sound(Renewed(g, y.body[g]), lender[v], g, NoBlock)
  <2>1. Moved(y.body[g], Renewed(g, y.body[g]), g, NoBlock)
    BY <1>1 DEF Renewed, Moved, Empty, Body, OrNil
  <2> QED BY <2>1, MovedSound
<1>4. SoundAggregate(y, lender[v], NoBlock)
  BY SameSound
<1>5. SoundAggregate([kind |-> y.kind, body |-> Others(y, g)], lender[v], NoBlock)
  <2>1. Others(y, g) \in [sum -> AnyBody] /\ \A h \in sum : Others(y, g)[h] \in Body(h)
    BY <1>1, <1>2, SumGroups DEF Others, Sound, AnyBody, ValuesInv, ValuesType
  <2>2. \A h \in sum : Sound(Others(y, g)[h], lender[v], h, NoBlock)
    BY <1>1, <1>2 DEF Others
  <2> QED BY <1>1, <2>1, <2>2 DEF SoundAggregate, Shape
<1>6. g \in sum \cup {Absent} /\ Absent \in sum \cup {Absent}
  OBVIOUS
<1>7. CASE x = OptionalReset(y, g)
  BY <1>2, <1>4, <1>6, <1>7, GroupSound DEF OptionalReset
<1>8. CASE x = OptionalEnsure(y, g)
  BY <1>3, <1>4, <1>6, <1>8, GroupSound DEF OptionalEnsure, OptionalSet
<1>9. CASE x = AdjustmentUnset(y, g)
  BY <1>1, <1>2, <1>4, <1>6, <1>9, GroupSound DEF AdjustmentUnset
<1>10. CASE x = AdjustmentEnsure(y, g)
  <2>1. Others(y, g)[g] = y.body[g]
    BY <1>1 DEF Others
  <2>2. PICK d \in {y.body[g], Renewed(g, y.body[g])} :
          x = [kind |-> g, body |-> [Others(y, g) EXCEPT ![g] = d]]
    BY <1>10, <2>1 DEF AdjustmentEnsure
  <2>3. Sound(d, lender[v], g, NoBlock)
    BY <1>2, <1>3, <2>2
  <2> DEFINE z == [kind |-> y.kind, body |-> Others(y, g)]
  <2>4. SoundAggregate([kind |-> g, body |-> [z.body EXCEPT ![g] = d]], lender[v], NoBlock)
    BY <1>5, <1>6, <2>3, GroupSound
  <2> QED BY <2>2, <2>4
<1> QED BY <1>7, <1>8, <1>9, <1>10


\* Unset, Ensure...View and Reset.
LEMMA UnsetKeeps ==
    ASSUME ValuesInv, NEW v \in Aggregates, NEW g \in Groups,
           UnsetGroup(v, g) \/ EnsureView(v, g) \/ ResetAggregate(v)
    PROVE  ValuesInv'
<1>1. NoBlock \in OrNil(Blocks)
  BY DEF OrNil
<1>2. CASE UnsetGroup(v, g)
  <2>1. g \in sum /\ UNCHANGED <<sum, views, alive>>
    BY <1>2 DEF UnsetGroup
  <2>2. PICK x : Modify(v, x) /\ x \in {OptionalReset(aggregate[v], g), AdjustmentUnset(aggregate[v], g)}
    BY <1>2 DEF UnsetGroup, OrderUnset, ReportUnset
  <2>3. SoundAggregate(x, lender[v], NoBlock)
    BY <2>1, <2>2, ResetSound
  <2> QED BY <1>1, <2>1, <2>2, <2>3, ModifyKeeps DEF ValuesInv, ValuesType
<1>3. CASE EnsureView(v, g)
  <2>1. /\ g \in sum \ {"accountPnl"} /\ UNCHANGED <<sum, alive>>
        /\ views' = views \cup {<<v, g>>}
    BY <1>3 DEF EnsureView
  <2>2. PICK x : /\ Modify(v, x)
                 /\ x \in {OptionalEnsure(aggregate[v], g), AdjustmentEnsure(aggregate[v], g)}
    BY <1>3 DEF EnsureView, OrderEnsure, ReportEnsure
  <2>3. SoundAggregate(x, lender[v], NoBlock)
    BY <2>1, <2>2, ResetSound
  <2>4. views' \subseteq Aggregates \X (sum \ {"accountPnl"})
    BY <2>1 DEF ValuesInv, ValuesType
  <2> QED BY <1>1, <2>1, <2>2, <2>3, <2>4, ModifyKeeps
<1>4. CASE ResetAggregate(v)
  <2>1. Modify(v, NewAggregate(sum)) /\ UNCHANGED <<sum, views, alive>>
    BY <1>4 DEF ResetAggregate
  <2>2. SoundAggregate(NewAggregate(sum), lender[v], NoBlock)
    BY NewSound DEF ValuesInv
  <2> QED BY <1>1, <2>1, <2>2, ModifyKeeps DEF ValuesInv, ValuesType
<1> QED BY <1>2, <1>3, <1>4

\* The methods of a view.
LEMMA ViewKeeps ==
    ASSUME ValuesInv, NEW v \in Aggregates, NEW g \in sum, EditView(v, g, FreshBlock)
    PROVE  ValuesInv'
<1> PICK f \in OrNil(Blocks) : f = FreshBlock
  BY FreshFacts DEF ValuesInv
<1>1. /\ g \in Groups \ {"accountPnl"} /\ UNCHANGED <<sum, views>> /\ Allocate({f})
  BY SumGroups DEF EditView, ValuesInv, ValuesType
<1>2. PICK x \in EditedThrough(g, aggregate[v], f) : Modify(v, x)
  BY DEF EditView
<1>3. PICK d \in Edited(g, aggregate[v].body[g], f) : x = [aggregate[v] EXCEPT !.body[g] = d]
  BY <1>1, <1>2, ViewMoved
<1>4. /\ aggregate[v] = [kind |-> aggregate[v].kind, body |-> aggregate[v].body]
      /\ aggregate[v].kind \in sum \cup {Absent} /\ aggregate[v].body[g] \in Body(g)
  BY DEF ValuesInv, ValuesType, Shape
<1>5. Sound(d, lender[v], g, f)
  BY <1>1, <1>3, <1>4, EditedMoved, MovedSound
<1>6. x = [kind |-> aggregate[v].kind, body |-> [aggregate[v].body EXCEPT ![g] = d]]
  BY <1>3, <1>4
<1>7. SoundAggregate(x, lender[v], f)
  BY <1>4, <1>5, <1>6, SameSound, GroupSound
<1> QED BY <1>1, <1>2, <1>7, ModifyKeeps DEF ValuesInv, ValuesType

\* A group is set to the value in hand, in the aggregate or in a new one.
LEMMA SetKeeps ==
    ASSUME ValuesInv, NEW v \in Aggregates, Unused # {},
           SetGroup(v, aggregate[v], FreshBlock) \/ SetValues(v, FreshBlock)
    PROVE  ValuesInv'
<1> PICK f \in Blocks : f = FreshBlock
  BY FreshFacts DEF ValuesInv, Unused
<1>1. f \in OrNil(Blocks) /\ f # NoBlock
  BY ValuesAssumption DEF OrNil
<1>2. PICK y \in {aggregate[v], NewAggregate(sum)} : SetGroup(v, y, f)
  BY DEF SetValues
<1>3. SoundAggregate(y, lender[v], f)
  BY <1>2, SameSound, NewSound DEF ValuesInv
<1>4. /\ hand # NoHand /\ hand.group \in sum /\ hand.body \in Body(hand.group)
      /\ UNCHANGED <<sum, views>> /\ Allocate({f})
  BY <1>2 DEF SetGroup, ValuesInv, ValuesType, NoHand
<1> PICK g \in sum : g = hand.group
  BY <1>4
<1> PICK c \in Body(g) : c = hand.body
  BY <1>4
<1>5. \A s \in Slots(g) :
        /\ Kept(c, s) \/ (s = "lock" /\ Lent(lender[Hand], g, c, s))
        /\ c.keep[s] \in OrNil(alive)
  BY <1>4 DEF ValuesInv, Backing, OwnedLive
<1>6. Sound(Cloned(c, f), lender[v], g, f)
  <2>1. CASE "lock" \in DOMAIN c.ptr /\ c.ptr["lock"] # NoBlock /\ c.keep["lock"] = NoBlock
    BY <1>1, <1>5, <2>1 DEF Cloned, Stored, Sound, Body, Kept
  <2>2. CASE ~("lock" \in DOMAIN c.ptr /\ c.ptr["lock"] # NoBlock /\ c.keep["lock"] = NoBlock)
    BY <1>5, <2>2 DEF Cloned, Sound, Body, Kept, Lent
  <2> QED BY <2>1, <2>2
<1>7. PICK x : Modify(v, x) /\ SoundAggregate(x, lender[v], f)
  <2>1. CASE sum \subseteq ReportGroups /\ Modify(v, ReportSet(y, g, c, f))
    BY <1>3, <1>6, <2>1, GroupSound DEF ReportSet, OptionalSet
  <2>2. CASE sum \subseteq OrderGroups /\ Modify(v, OrderSet(y, g, c))
    <3>1. Sound(c, lender[v], g, f)
      BY <1>5, <2>2, OnlyReportsBorrow DEF Sound, Lent
    <3> QED BY <1>3, <2>2, <3>1, GroupSound DEF OrderSet, OptionalSet
  <2>3. CASE sum \subseteq AdjustmentGroups /\ Modify(v, AdjustmentSet(y, g, c))
    <3>1. Sound(c, lender[v], g, f)
      BY <1>5, <2>3, OnlyReportsBorrow DEF Sound, Lent
    <3> DEFINE z == [kind |-> g, body |-> Others(y, g)]
    <3>2. SoundAggregate(z, lender[v], f)
      <4>1. y.body \in [sum -> AnyBody] /\ \A h \in sum : Sound(y.body[h], lender[v], h, f)
        BY <1>3 DEF SoundAggregate, Shape
      <4>2. \A h \in sum : Sound(Empty(h), lender[v], h, f)
        BY EmptyMoved, MovedSound
      <4>3. \A h \in sum : Sound(Others(y, g)[h], lender[v], h, f)
        BY <4>1, <4>2 DEF Others
      <4>4. Others(y, g) \in [sum -> AnyBody] /\ \A h \in sum : Others(y, g)[h] \in Body(h)
        <5>1. \A h \in sum : Others(y, g)[h] \in Body(h)
          BY <4>3 DEF Sound
        <5>2. sum \subseteq Groups
          BY SumGroups DEF ValuesInv, ValuesType
        <5> QED BY <4>1, <5>1, <5>2 DEF Others, AnyBody
      <4> QED BY <4>3, <4>4 DEF SoundAggregate, Shape
    <3>3. SoundAggregate([kind |-> g, body |-> [z.body EXCEPT ![g] = c]], lender[v], f)
      BY <3>1, <3>2, GroupSound
    <3> QED BY <2>3, <3>3 DEF AdjustmentSet
  <2> QED BY <1>2, <2>1, <2>2, <2>3 DEF SetGroup
<1> QED BY <1>1, <1>4, <1>7, ModifyKeeps DEF ValuesInv, ValuesType
\* A group is read into the hand: what a report lends is a lock, the strings are
\* copied.
LEMMA GetKeeps ==
    ASSUME ValuesInv, NEW v \in Aggregates, Unused # {}, GetGroup(v, FreshBlock)
    PROVE  ValuesInv'
<1> PICK f \in Blocks : f = FreshBlock /\ f \notin Pointed
  BY FreshFacts DEF ValuesInv, Unused
<1>1. f \in OrNil(Blocks) /\ f # NoBlock
  BY ValuesAssumption DEF OrNil
<1>2. aggregate[v].kind \in sum
  BY DEF GetGroup, ValuesInv, ValuesType, Shape
<1> PICK g \in sum : g = aggregate[v].kind
  BY <1>2
<1> PICK c \in Body(g) : c = aggregate[v].body[g]
  BY DEF ValuesInv, ValuesType, Shape
<1> PICK b \in OrNil(Aggregates) : b = lender[v]
  BY DEF ValuesInv, ValuesType
<1>3. /\ b # NoBlock => lender[b] = NoBlock /\ sum \subseteq ReportGroups
      /\ \A s \in Slots(g) : /\ Kept(c, s) \/ Lent(b, g, c, s)
                             /\ c.keep[s] \in OrNil(alive)
  BY DEF ValuesInv, Lenders, Backing, OwnedLive
<1>4. PICK d : /\ hand' = [group |-> g, body |-> d]
               /\ \/ d = c /\ (sum \subseteq OrderGroups \/ sum \subseteq AdjustmentGroups)
                  \/ d = ReportGet(aggregate[v], g, f)
  BY DEF GetGroup, OrderGet, AdjustmentGet
<1>5. /\ lender' = [lender EXCEPT ![Hand] = IF Pointers(d) \subseteq Owners(d) THEN NoBlock ELSE b]
      /\ UNCHANGED <<sum, aggregate, views>> /\ Allocate({f})
  BY <1>4 DEF GetGroup
<1>6. CASE d = c /\ (sum \subseteq OrderGroups \/ sum \subseteq AdjustmentGroups)
  <2>1. b = NoBlock
    BY <1>6, OnlyReportsBorrow
  <2>2. HandSound(d, NoBlock, g, f)
    BY <1>3, <1>6, <2>1 DEF HandSound, Lent
  <2> QED BY <1>1, <1>4, <1>5, <2>1, <2>2, HandKeeps DEF OrNil
<1>7. CASE d = ReportGet(aggregate[v], g, f)
  <2>1. /\ d \in Body(g)
        /\ \A s \in Slots(g) :
             /\ s # "lock" => /\ d.ptr[s] = IF c.ptr[s] = NoBlock THEN NoBlock ELSE f
                              /\ d.keep[s] = d.ptr[s]
             /\ s = "lock" => d.ptr[s] = c.ptr[s] /\ d.keep[s] = c.keep[s]
    BY <1>1, <1>7 DEF ReportGet, Body
  <2>2. HandSound(d, b, g, f)
    BY <1>1, <1>3, <2>1 DEF HandSound, Kept, Lent, OrNil
  <2>3. ASSUME Pointers(d) \subseteq Owners(d) PROVE HandSound(d, NoBlock, g, f)
    <3>1. SUFFICES ASSUME "lock" \in Slots(g), ~Kept(d, "lock") PROVE FALSE
      BY <2>1, <2>2 DEF HandSound, Kept
    <3>2. d.ptr["lock"] \in Pointers(d) /\ d.ptr["lock"] # d.keep["lock"]
      BY <2>1, <3>1 DEF Pointers, Values, Body, Kept
    <3>3. PICK s \in Slots(g) : d.ptr["lock"] = d.keep[s]
      BY <2>1, <2>3, <3>2 DEF Owners, Values, Body
    <3>4. d.ptr["lock"] = f
      BY <2>1, <3>1, <3>2, <3>3 DEF Pointers
    <3>5. c.ptr["lock"] = f
      BY <2>1, <3>1, <3>4
    <3>6. f \in Pointers(c)
      BY <1>1, <3>1, <3>5 DEF Pointers, Values, Body
    <3>7. f \in Pointed
      BY <3>6 DEF Pointed, Variables, ValuesInv, ValuesType
    <3> QED BY <3>7
  <2>4. PICK e \in OrNil(Aggregates) :
          /\ lender' = [lender EXCEPT ![Hand] = e] /\ HandSound(d, e, g, f)
          /\ e # NoBlock => e = b
    BY <1>5, <2>2, <2>3 DEF OrNil
  <2> QED BY <1>1, <1>3, <1>4, <1>5, <2>4, HandKeeps
<1> QED BY <1>4, <1>6, <1>7

\* v := w, and a report rebuilt from the handle of w.
LEMMA CopyKeeps ==
    ASSUME ValuesInv, NEW v \in Aggregates, NEW w \in Aggregates, Assign(v, w) \/ Rebuild(v, w)
    PROVE  ValuesInv'
<1> USE ValuesAssumption
<1>1. /\ UNCHANGED <<sum, views, alive>> /\ v # w /\ NoBlock \in OrNil(Blocks)
      /\ views \subseteq Aggregates \X (sum \ {"accountPnl"})
  BY DEF Assign, Rebuild, OrNil, ValuesInv, ValuesType
<1>2. /\ Variables = Aggregates /\ aggregate[w] \in Shape
      /\ DOMAIN lender = Aggregates \cup {Hand}
      /\ \A q \in Aggregates \cup {Hand} : lender[q] \in OrNil(Aggregates)
  BY DEF Variables, ValuesInv, ValuesType
<1>3. CASE Assign(v, w)
  <2> PICK b \in OrNil(Aggregates) : b = lender[w]
    BY <1>2
  <2>1. Replaces(v, aggregate[w], b)
    BY <1>1, <1>2, <1>3 DEF Assign, Replaces, Borrowers, OrNil
  <2>2. b # NoBlock => b # v /\ lender[b] = NoBlock /\ sum \subseteq ReportGroups
    BY <1>3 DEF Assign, ValuesInv, Lenders
  <2>3. SoundAggregate(aggregate[w], b, NoBlock)
    BY SameSound
  <2> QED BY <1>1, <2>1, <2>2, <2>3, ReplaceKeeps
<1>4. CASE Rebuild(v, w)
  <2> DEFINE x == [aggregate[w] EXCEPT !.body =
                     [g \in sum |-> [@[g] EXCEPT !.keep = Empty(g).keep]]]
  <2>1. Replaces(v, x, w)
    BY <1>1, <1>2, <1>4 DEF Rebuild, Replaces, Borrowers, OrNil
  <2>2. v # w /\ lender[w] = NoBlock /\ sum \subseteq ReportGroups /\ w \in OrNil(Aggregates)
    BY <1>4 DEF Rebuild, OrNil
  <2>3. ASSUME NEW g \in sum PROVE Sound(x.body[g], w, g, NoBlock)
    <3>1. aggregate[w].body[g] \in Body(g)
      BY <1>2 DEF Shape
    <3>2. x.body[g] = [aggregate[w].body[g] EXCEPT !.keep = Empty(g).keep]
      BY <1>2 DEF Shape
    <3>3. /\ x.body[g] \in Body(g) /\ x.body[g].ptr = aggregate[w].body[g].ptr
          /\ \A s \in Slots(g) : x.body[g].keep[s] = NoBlock
      BY <3>1, <3>2 DEF Body, Empty, OrNil
    <3>4. \A s \in Slots(g) : Kept(aggregate[w].body[g], s)
      BY <2>2 DEF ValuesInv, Backing, Lent
    <3> HIDE DEF x
    <3> QED BY <3>3, <3>4 DEF Sound, Kept, Lent, OrNil
  <2>4. x \in Shape
    <3>1. /\ x = [kind |-> aggregate[w].kind, body |-> x.body] /\ DOMAIN x.body = sum
          /\ x.body = [g \in sum |-> x.body[g]] /\ aggregate[w].kind \in sum \cup {Absent}
      BY <1>2 DEF Shape
    <3>2. sum \subseteq Groups
      BY SumGroups DEF ValuesInv, ValuesType
    <3>3. \A g \in sum : x.body[g] \in Body(g) /\ x.body[g] \in AnyBody
      BY <2>3, <3>2 DEF Sound, AnyBody
    <3> HIDE DEF x
    <3> QED BY <3>1, <3>3 DEF Shape
  <2>5. SoundAggregate(x, w, NoBlock)
    BY <2>3, <2>4 DEF SoundAggregate
  <2> HIDE DEF x
  <2> QED BY <1>1, <2>1, <2>2, <2>5, ReplaceKeeps
<1> QED BY <1>3, <1>4

\* Every step keeps the invariant.
LEMMA ValuesInductive == ValuesInv /\ [ValuesNext]_valuesVars => ValuesInv'
<1> SUFFICES ASSUME ValuesInv, [ValuesNext]_valuesVars PROVE ValuesInv'
  OBVIOUS
<1>1. CASE UNCHANGED valuesVars
  <2>1. /\ UNCHANGED <<sum, aggregate, hand, views, alive, lender>>
        /\ Shape' = Shape
    BY <1>1 DEF valuesVars, Shape, AnyBody, Body
  <2>2. ValuesType' /\ Lenders'
    BY <2>1 DEF ValuesInv, ValuesType, Lenders
  <2>3. Backing' /\ OwnedLive'
    BY <2>1 DEF ValuesInv, Backing, Kept, Lent, OwnedLive
  <2> QED BY <2>2, <2>3 DEF ValuesInv
<1>2. Variables = Aggregates
  BY DEF Variables, ValuesInv, ValuesType
<1>3. CASE ValuesNext
  <2>1. ASSUME NEW v \in Aggregates, ResetAggregate(v) PROVE ValuesInv'
    BY <2>1, UnsetKeeps DEF Groups, OrderGroups
  <2>2. ASSUME NEW v \in Aggregates, NEW g \in Groups, UnsetGroup(v, g) \/ EnsureView(v, g)
        PROVE  ValuesInv'
    BY <2>2, UnsetKeeps
  <2>3. ASSUME Unused # {}, NEW v \in Aggregates,
               \/ SetGroup(v, aggregate[v], FreshBlock) \/ GetGroup(v, FreshBlock)
               \/ SetValues(v, FreshBlock)
        PROVE  ValuesInv'
    BY <2>3, SetKeeps, GetKeeps
  <2> QED BY <1>2, <1>3, <2>1, <2>2, <2>3, CollectKeeps, HandStepKeeps, ViewKeeps, CopyKeeps
          DEF ValuesNext
<1> QED BY <1>1, <1>3

\* The inductive invariant holds in every reachable state.
LEMMA AlwaysValues == ValuesSpec => []ValuesInv
BY ValuesInitial, ValuesInductive, PTL DEF ValuesSpec

\* Whatever was read, set, copied, rebuilt and collected, every pointer in a
\* value that the program may still use is to memory that is not freed.
THEOREM AlwaysMemoryLive == ValuesSpec => []MemoryLive
<1>1. ASSUME ValuesInv PROVE MemoryLive
  <2>1. ASSUME NEW v \in Aggregates, NEW g \in sum, NEW b \in Pointers(aggregate[v].body[g])
        PROVE  b \in alive
    <3> DEFINE c == aggregate[v].body[g]
    <3>1. c \in Body(g) /\ lender[v] \in OrNil(Aggregates)
      BY <1>1 DEF ValuesInv, ValuesType, Shape
    <3>2. PICK s \in Slots(g) : b = c.ptr[s] /\ b # NoBlock
      BY <2>1, <3>1 DEF Pointers, Values, Body
    <3>3. CASE Kept(c, s)
      BY <1>1, <3>2, <3>3 DEF Kept, ValuesInv, OwnedLive, OrNil
    <3>4. CASE Lent(lender[v], g, c, s)
      BY <1>1, <3>1, <3>2, <3>4 DEF Lent, ValuesInv, OwnedLive, OrNil
    <3> QED BY <1>1, <3>3, <3>4 DEF ValuesInv, Backing
  <2>2. ASSUME NEW b \in Pointers(hand.body) PROVE b \in alive
    <3>1. CASE hand = NoHand
      BY <2>2, <3>1 DEF NoHand, Pointers, Values, Empty
    <3>2. CASE hand # NoHand
      <4>1. /\ hand.group \in sum /\ hand.body \in Body(hand.group)
            /\ lender[Hand] \in OrNil(Aggregates)
        BY <1>1, <3>2 DEF ValuesInv, ValuesType
      <4>2. PICK s \in Slots(hand.group) : b = hand.body.ptr[s] /\ b # NoBlock
        BY <2>2, <4>1 DEF Pointers, Values, Body
      <4>3. CASE Kept(hand.body, s)
        BY <1>1, <3>2, <4>2, <4>3 DEF Kept, ValuesInv, OwnedLive, OrNil
      <4>4. CASE Lent(lender[Hand], hand.group, hand.body, s)
        BY <1>1, <4>1, <4>2, <4>4 DEF Lent, ValuesInv, OwnedLive, OrNil
      <4> QED BY <1>1, <3>2, <4>3, <4>4 DEF ValuesInv, Backing
    <3> QED BY <3>1, <3>2
  <2>3. Variables = Aggregates
    BY <1>1 DEF Variables, ValuesInv, ValuesType
  <2> QED BY <2>1, <2>2, <2>3 DEF MemoryLive, Pointed
<1> QED BY AlwaysValues, <1>1, PTL

\* A group that becomes set shows nothing, or what it was set to, or is part of
\* an aggregate assigned as a whole: nothing a view wrote into a group that was
\* not set ever appears.
THEOREM NeverResurfaces == ValuesSpec => NothingResurfaces
<1> DEFINE Fine(v, g) ==
      \/ Shows(aggregate'[v].body[g]) \in {Shows(Empty(g)), Shows(hand.body)}
      \/ \E w \in Variables \ {v} : Shows(aggregate'[v].body[g]) = Shows(aggregate[w].body[g])
<1>1. ASSUME ValuesInv, ValuesNext, NEW u \in Variables, NEW h \in sum,
             aggregate[u].kind # h, aggregate'[u].kind = h
      PROVE  Fine(u, h)
  <2> USE ValuesAssumption
  <2>1. Variables = Aggregates /\ u \in Aggregates /\ aggregate' # aggregate
    BY <1>1 DEF Variables, ValuesInv, ValuesType
  <2>2. /\ h # Absent /\ \A v \in Aggregates : aggregate[v] \in Shape
        /\ hand # NoHand => hand.group \in sum /\ hand.body \in Body(hand.group)
    <3>1. Absent \notin Groups
      BY DEF Absent, Groups, OrderGroups, ReportGroups, AdjustmentGroups, AdjustmentOperations
    <3> QED BY <1>1, <3>1, SumGroups DEF ValuesInv, ValuesType
  <2>3. NewAggregate(sum).kind # h
    BY <2>2 DEF NewAggregate
  <2>4. ASSUME NEW v \in Aggregates, NEW x, Modify(v, x) PROVE u = v /\ aggregate'[u] = x
    BY <1>1, <2>1, <2>3, <2>4 DEF Modify
  <2>5. ASSUME NEW g \in Groups, NewHand(g) PROVE FALSE
    BY <2>1, <2>5 DEF NewHand
  <2>6. CASE EditHand(FreshBlock)
    BY <2>1, <2>6 DEF EditHand
  <2>7. ASSUME NEW v \in Aggregates, NEW g \in Groups, UnsetGroup(v, g) PROVE FALSE
    <3>1. PICK x : Modify(v, x) /\ x.kind \in {Absent, aggregate[v].kind}
      BY <2>7 DEF UnsetGroup, OrderUnset, ReportUnset, OptionalReset, AdjustmentUnset
    <3> QED BY <1>1, <2>2, <2>4, <3>1
  <2>8. ASSUME NEW v \in Aggregates, NEW g \in Groups, EnsureView(v, g) PROVE Fine(u, h)
    <3>1. PICK x : /\ Modify(v, x)
                   /\ x \in {OptionalEnsure(aggregate[v], g), AdjustmentEnsure(aggregate[v], g)}
      BY <2>8 DEF EnsureView, OrderEnsure, ReportEnsure
    <3>2. g \in sum /\ u = v /\ aggregate'[u] = x
      BY <2>4, <2>8, <3>1 DEF EnsureView
    <3>3. /\ DOMAIN aggregate[v].body = sum
          /\ h = g /\ x.body[g] = Renewed(g, aggregate[v].body[g])
      BY <1>1, <2>1, <2>2, <3>1, <3>2
         DEF OptionalEnsure, OptionalSet, AdjustmentEnsure, Others, Shape
    <3>4. Shows(Renewed(g, aggregate[v].body[g])) = Shows(Empty(g))
      BY DEF Shows, Renewed, Empty
    <3> QED BY <3>2, <3>3, <3>4
  <2>9. ASSUME NEW v \in Aggregates, ResetAggregate(v) PROVE FALSE
    BY <1>1, <2>3, <2>4, <2>9 DEF ResetAggregate
  <2>10. ASSUME NEW v \in Aggregates, NEW w \in Aggregates, Assign(v, w) PROVE Fine(u, h)
    <3>1. u = v /\ v # w /\ aggregate'[u] = aggregate[w]
      BY <1>1, <2>1, <2>3, <2>10 DEF Assign
    <3> QED BY <2>1, <3>1
  <2>11. ASSUME NEW v \in Aggregates, NEW w \in Aggregates, Rebuild(v, w) PROVE Fine(u, h)
    <3>1. /\ u = v /\ v # w
          /\ aggregate'[u] = [aggregate[w] EXCEPT !.body =
                                [g \in sum |-> [@[g] EXCEPT !.keep = Empty(g).keep]]]
      BY <1>1, <2>1, <2>3, <2>11 DEF Rebuild
    <3>2. aggregate[w].body[h] \in Body(h)
      BY <1>1, <2>2 DEF Shape
    <3>3. aggregate'[u].body[h] = [aggregate[w].body[h] EXCEPT !.keep = Empty(h).keep]
      BY <1>1, <2>2, <3>1 DEF Shape
    <3>4. Shows(aggregate'[u].body[h]) = Shows(aggregate[w].body[h])
      BY <3>2, <3>3 DEF Shows, Body
    <3> QED BY <2>1, <3>1, <3>4
  <2>12. ASSUME NEW v \in Aggregates, NEW g \in sum, EditView(v, g, FreshBlock) PROVE FALSE
    <3>1. g \in Groups \ {"accountPnl"}
      BY <1>1, <2>12, SumGroups DEF EditView, ValuesInv, ValuesType
    <3>2. PICK x \in EditedThrough(g, aggregate[v], FreshBlock) : Modify(v, x)
      BY <2>12 DEF EditView
    <3>3. x.kind = aggregate[v].kind
      BY <2>2, <3>1, <3>2, ViewMoved DEF Shape
    <3> QED BY <1>1, <2>4, <3>2, <3>3
  <2>13. ASSUME NEW v \in Aggregates, Unused # {},
                SetGroup(v, aggregate[v], FreshBlock) \/ SetValues(v, FreshBlock)
         PROVE  Fine(u, h)
    <3> DEFINE g == hand.group
               c == hand.body
    <3>1. PICK y \in {aggregate[v], NewAggregate(sum)} : SetGroup(v, y, FreshBlock)
      BY <2>13 DEF SetValues
    <3>2. g \in sum /\ c \in Body(g) /\ DOMAIN y.body = sum
      BY <1>1, <2>2, <3>1 DEF SetGroup, NoHand, Shape, NewAggregate
    <3>3. PICK x : /\ Modify(v, x)
                   /\ x \in {OptionalSet(y, g, c), OptionalSet(y, g, Cloned(c, FreshBlock)),
                             AdjustmentSet(y, g, c)}
      BY <3>1 DEF SetGroup, OrderSet, ReportSet
    <3>4. x.kind = g /\ x.body[g] \in {c, Cloned(c, FreshBlock)}
      BY <3>2, <3>3 DEF OptionalSet, AdjustmentSet, Others
    <3>5. Shows(Cloned(c, FreshBlock)) = Shows(c)
      <4>1. FreshBlock # NoBlock
        BY <1>1, <2>13, FreshFacts DEF ValuesInv
      <4> HIDE DEF g, c
      <4> QED BY <3>2, <4>1 DEF Cloned, Stored, Shows, Body
    <3>6. u = v /\ aggregate'[u] = x /\ h = g
      BY <1>1, <2>4, <3>3, <3>4
    <3> QED BY <3>4, <3>5, <3>6
  <2>14. ASSUME NEW v \in Aggregates, GetGroup(v, FreshBlock) PROVE FALSE
    BY <2>1, <2>14 DEF GetGroup
  <2>15. ASSUME NEW b \in Blocks, Collect(b) PROVE FALSE
    BY <2>1, <2>15 DEF Collect
  <2> HIDE DEF Fine
  <2> QED BY <1>1, <2>1, <2>5, <2>6, <2>7, <2>8, <2>9, <2>10, <2>11, <2>12, <2>13, <2>14, <2>15
          DEF ValuesNext
<1>2. ValuesInv /\ [ValuesNext]_valuesVars =>
        [\A v \in Variables : \A g \in sum :
           aggregate[v].kind # g /\ aggregate'[v].kind = g => Fine(v, g)]_valuesVars
  BY <1>1
<1> QED BY AlwaysValues, <1>2, PTL DEF ValuesSpec, NothingResurfaces

=============================================================================
