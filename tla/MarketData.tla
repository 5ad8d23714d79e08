----------------------------- MODULE MarketData -----------------------------
(***************************************************************************)
(* The market-data service and the reference book: Go values that share one  *)
(* native registry behind a read-write mutex.  Every method holds the mutex  *)
(* for reading over its native call; Close takes it for writing, destroys    *)
(* the native handle and forgets it.  Services may be cloned: each clone has *)
(* a mutex and a native handle of its own.                                  *)
(*                                                                         *)
(* The native registry is external: what it holds for one instrument, and    *)
(* the statuses it can answer with in that state.  Lifetimes (QuoteTTL) are  *)
(* not numbers: a quote that is read may or may not have expired.            *)
(***************************************************************************)
EXTENDS Naturals

CONSTANTS
    Callers,   \* goroutines
    Services,  \* the Service values a program may come to have
    First,     \* the one that Build returned
    Book,      \* the ReferenceBook value
    Buckets    \* set below: where a quote may be stored

ASSUME MarketDataAssumption ==
    /\ First \in Services /\ Book \notin Services
    /\ {"none", "own"} \cap (Services \cup {Book}) = {}
    /\ Buckets = {"account", "group", "default"}

ServiceOps ==
    {"register", "push", "pushByInstrument", "pushFor", "instrumentTTL",
     "instrumentAccountTTL", "accountTTL", "groupTTL", "clear", "get",
     "getOptional", "resolve", "clone", "policyBuild", "close"}
BookOps == {"bookRegister", "bookResolve", "bookScheme", "bookClose"}

VARIABLES
    mpc,       \* where a caller is: idle, native, asking, building
    mop, mon,  \* its method and receiver
    got,       \* what its last method returned
    serviceHandles,   \* of a Go value: unused, open, or nil
    freed,     \* how often its native handle was destroyed
    clones,    \* the handle a policy's Build works with: none, its own, or a value's
    known,     \* external: the instrument is registered
    quotes     \* external: the buckets that hold a quote for it

marketVars == <<mpc, mop, mon, got, serviceHandles, freed, clones, known, quotes>>

MarketStart(values) ==
    /\ mpc = [c \in Callers |-> "idle"]
    /\ mop = [c \in Callers |-> "none"]
    /\ mon = [c \in Callers |-> First]
    /\ got = [c \in Callers |-> "nothing"]
    /\ serviceHandles = [h \in Services \cup {Book} |-> IF h \in values THEN "open" ELSE "unused"]
    /\ freed = [h \in Services \cup {Book} |-> 0]
    /\ clones = [c \in Callers |-> "none"]
    /\ known = FALSE
    /\ quotes = {}

\* A service and a reference book share nothing: one is followed at a time.
MarketInit == \E h \in {First, Book} : MarketStart({h})

\* While another part of the library is followed.
MarketOff == MarketStart({})

\* The method returns, and releases the mutex it holds.
Return(c, result) ==
    /\ mpc' = [mpc EXCEPT ![c] = IF mop[c] = "policyBuild" THEN "building" ELSE "idle"]
    /\ mop' = [mop EXCEPT ![c] = "none"] /\ mon' = [mon EXCEPT ![c] = First]
    /\ got' = [got EXCEPT ![c] = result]

-----------------------------------------------------------------------------
(* The mutex.                                                               *)

Closes(op) == op \in {"close", "bookClose"}
Inside(h) == {c \in Callers : mon[c] = h /\ mpc[c] \in {"native", "asking"}}
Writer(h) == {c \in Inside(h) : Closes(mop[c])}

\* Variant of ReadLock: the handle is read without the mutex.
ReadLockNot(h) == TRUE

\* mu.RLock.
ReadLock(h) == Writer(h) = {}

\* What a method does on a closed value: a method with an error result returns
\* it, but for those that set an account's or a group's lifetime; the others
\* return their zero value or do nothing.
ClosedResult(op) ==
    IF op \in {"accountTTL", "groupTTL", "clear", "getOptional", "resolve", "bookResolve"}
      THEN "nothing" ELSE "closed"

\* A method is called and has the mutex for reading.
EnterMethod(c, h, op) ==
    /\ mpc[c] = "idle" /\ serviceHandles[h] # "unused" /\ ~Closes(op) /\ ReadLock(h)
    /\ op \in IF h = Book THEN BookOps ELSE ServiceOps
    /\ IF serviceHandles[h] = "nil"
         THEN got' = [got EXCEPT ![c] = ClosedResult(op)] /\ UNCHANGED <<mpc, mop, mon>>
         ELSE /\ mpc' = [mpc EXCEPT ![c] = "native"]
              /\ mop' = [mop EXCEPT ![c] = op] /\ mon' = [mon EXCEPT ![c] = h]
              /\ got' = [got EXCEPT ![c] = "nothing"]
    /\ UNCHANGED <<serviceHandles, freed, clones, known, quotes>>

\* PushFor and the lifetimes of a group refuse an uninitialized group before
\* they take the mutex: the native service would take it as the default group.
RefuseGroup(c) ==
    /\ mpc[c] = "idle" /\ serviceHandles[First] # "unused" /\ got' = [got EXCEPT ![c] = "uninitialized"]
    /\ UNCHANGED <<mpc, mop, mon, serviceHandles, freed, clones, known, quotes>>

\* mu.Lock of Close.
EnterClose(c, h, op) ==
    /\ mpc[c] = "idle" /\ serviceHandles[h] # "unused" /\ Closes(op) /\ Inside(h) = {}
    /\ op \in IF h = Book THEN BookOps ELSE ServiceOps
    /\ mpc' = [mpc EXCEPT ![c] = "native"]
    /\ mop' = [mop EXCEPT ![c] = op] /\ mon' = [mon EXCEPT ![c] = h]
    /\ got' = [got EXCEPT ![c] = "nothing"]
    /\ UNCHANGED <<serviceHandles, freed, clones, known, quotes>>

\* Variant of CloseHandle: the handle is destroyed but not forgotten.
CloseHandleKeeps(c) ==
    /\ mpc[c] = "native" /\ Closes(mop[c]) /\ Return(c, "nothing")
    /\ IF serviceHandles[mon[c]] = "nil"
         THEN UNCHANGED freed
         ELSE freed' = [freed EXCEPT ![mon[c]] = @ + 1]
    /\ UNCHANGED <<serviceHandles, clones, known, quotes>>

CloseHandle(c) ==
    /\ mpc[c] = "native" /\ Closes(mop[c]) /\ Return(c, "nothing")
    /\ IF serviceHandles[mon[c]] = "nil"
         THEN UNCHANGED <<serviceHandles, freed>>
         ELSE /\ freed' = [freed EXCEPT ![mon[c]] = @ + 1]
              /\ serviceHandles' = [serviceHandles EXCEPT ![mon[c]] = "nil"]
    /\ UNCHANGED <<clones, known, quotes>>

-----------------------------------------------------------------------------
(* Registration and publication.                                            *)

Native(c, ops) == mop[c] \in ops /\ mpc[c] = "native"

\* What the native service answers, and what of it becomes an error here: an
\* instrument that has a name already, an id that another instrument has (when
\* the caller brings one), anything else that fails.
MarketDataServiceRegister == {IF known THEN "duplicate" ELSE "ok", "duplicateID", "error"}
MarketDataServicePush == {IF known THEN "ok" ELSE "unknown", "error"}
MarketDataServicePushByInstrument == {"ok", "error"}
MarketDataServicePushFor(bs) ==
    {IF known THEN IF bs = {} THEN "noTarget" ELSE "ok" ELSE "unknown", "error"}
        \cup IF bs = {} THEN {"noTarget"} ELSE {}
MarketDataServiceInstrumentTTL == {IF known THEN "ok" ELSE "unknown", "error"}
MarketDataServiceInstrumentAccountTTL == {IF known THEN "ok" ELSE "unknown", "error"}

\* Register, RegisterWithTTL, RegisterWithID, RegisterWithIDAndTTL.
RegisterCall(c) ==
    /\ Native(c, {"register"})
    /\ \E status \in MarketDataServiceRegister :
         Return(c, status) /\ known' = (known \/ status = "ok")
    /\ UNCHANGED <<serviceHandles, freed, clones, quotes>>

\* Push names an id, which must be registered; PushByInstrument registers the
\* instrument when it is not.
PushCall(c) ==
    /\ Native(c, {"push", "pushByInstrument"})
    /\ \E status \in IF mop[c] = "push" THEN MarketDataServicePush
                     ELSE MarketDataServicePushByInstrument :
         /\ Return(c, status)
         /\ known' = (known \/ status = "ok")
         /\ quotes' = IF status = "ok" THEN quotes \cup {"default"} ELSE quotes
    /\ UNCHANGED <<serviceHandles, freed, clones>>

\* PushFor names the buckets, and at least one.
PushForCall(c) ==
    /\ Native(c, {"pushFor"})
    /\ \E bs \in SUBSET Buckets : \E status \in MarketDataServicePushFor(bs) :
         /\ Return(c, status)
         /\ quotes' = IF status = "ok" THEN quotes \cup bs ELSE quotes
    /\ UNCHANGED <<serviceHandles, freed, clones, known>>

\* SetInstrumentTTL, ClearInstrumentTTL.
InstrumentTTLCall(c) ==
    /\ Native(c, {"instrumentTTL"})
    /\ \E status \in MarketDataServiceInstrumentTTL : Return(c, status)
    /\ UNCHANGED <<serviceHandles, freed, clones, known, quotes>>

\* Set and Clear of the lifetimes of an instrument and an account, and of an
\* instrument and a group.
InstrumentAccountTTLCall(c) ==
    /\ Native(c, {"instrumentAccountTTL"})
    /\ \E status \in MarketDataServiceInstrumentAccountTTL : Return(c, status)
    /\ UNCHANGED <<serviceHandles, freed, clones, known, quotes>>

\* Set and Clear of the lifetimes of an account and of a group, without a status.
AccountTTLCall(c) ==
    /\ Native(c, {"accountTTL", "groupTTL"})
    /\ Return(c, "ok")
    /\ UNCHANGED <<serviceHandles, freed, clones, known, quotes>>

ClearCall(c) ==
    /\ Native(c, {"clear"})
    /\ Return(c, "ok")
    /\ quotes' = {}
    /\ UNCHANGED <<serviceHandles, freed, clones, known>>

ResolveCall(c) ==
    /\ Native(c, {"resolve"})
    /\ Return(c, IF known THEN "ok" ELSE "nothing")
    /\ UNCHANGED <<serviceHandles, freed, clones, known, quotes>>

-----------------------------------------------------------------------------
(* Reading a quote.                                                         *)

\* Get and GetOptional by the status of the native read: only Get tells the
\* failures apart, and only Get hands out an expired quote, with its error.
ReadResult(op, read) ==
    IF op = "get" \/ read = "fresh" THEN read ELSE "nothing"

\* External: the buckets of a resolution are consulted in order, each only when
\* the one before it holds nothing; the quote found may have aged past its
\* lifetime.
Reads(bs) == IF bs \cap quotes = {} THEN {"unavailable"} ELSE {"fresh", "expired"}

\* The read is settled without the account's group, or the native service calls
\* pitMarketDataAccountGroupResolver, the lock still held.
GetCall(c) ==
    /\ Native(c, {"get", "getOptional"})
    /\ \/ ~known /\ Return(c, ReadResult(mop[c], "unknown"))
       \/ Return(c, ReadResult(mop[c], "invalidResolution"))
       \/ known /\ \E read \in Reads({"account"}) : Return(c, ReadResult(mop[c], read))
       \/ known /\ "account" \notin quotes
          /\ mpc' = [mpc EXCEPT ![c] = "asking"] /\ UNCHANGED <<mop, mon, got>>
    /\ UNCHANGED <<serviceHandles, freed, clones, known, quotes>>

\* The resolver's answer.  AccountInfo panics, or names no group, or one that is
\* not initialized: only the second is an answer.
Resolution(answer) ==
    CASE answer = "group" -> "Found"
      [] answer = "none"  -> "NoGroup"
      [] OTHER            -> "Failed"

AnswerGroup(c) ==
    /\ mpc[c] = "asking"
    /\ \E answer \in {"group", "none", "uninitialized", "panic"} :
         LET found == IF Resolution(answer) = "Found" THEN {"group"} ELSE {}
         IN  \E bs \in {found, found \cup {"default"}} :
               \E read \in IF Resolution(answer) = "Failed" THEN {"groupFailed"} ELSE Reads(bs) :
                 Return(c, ReadResult(mop[c], read))
    /\ UNCHANGED <<serviceHandles, freed, clones, known, quotes>>

-----------------------------------------------------------------------------
(* Handles to the same service.                                             *)

CloneCall(c) ==
    /\ Native(c, {"clone"})
    /\ \E h \in Services : serviceHandles[h] = "unused" /\ serviceHandles' = [serviceHandles EXCEPT ![h] = "open"]
    /\ Return(c, "ok")
    /\ UNCHANGED <<freed, clones, known, quotes>>

\* Variant of PolicyCloneCall: the handle is borrowed, not cloned.
PolicyCloneCallBorrows(c) ==
    /\ Native(c, {"policyBuild"}) /\ Return(c, "ok")
    /\ clones' = [clones EXCEPT ![c] = mon[c]]
    /\ UNCHANGED <<serviceHandles, freed, known, quotes>>

\* Build of a built-in policy that prices market orders: mdhandle.Clone, under
\* the service's lock.
PolicyCloneCall(c) ==
    /\ Native(c, {"policyBuild"}) /\ Return(c, "ok")
    /\ clones' = [clones EXCEPT ![c] = "own"]
    /\ UNCHANGED <<serviceHandles, freed, known, quotes>>

\* An override's target is of an unknown type, or nil, and Build ends; or all of
\* them are translated.
SpotFundsOverrides == BOOLEAN

\* The native builder clones the handle for itself, or refuses the policy.
AddBuiltinSpotFunds == {"ok", "error"}

\* The rest of Build, without the lock; the deferred destroy of the clone.
PolicyAdd(c) ==
    /\ mpc[c] = "building" /\ mpc' = [mpc EXCEPT ![c] = "idle"]
    /\ \E translated \in SpotFundsOverrides :
         \E result \in IF translated THEN AddBuiltinSpotFunds ELSE {"error"} :
           got' = [got EXCEPT ![c] = result]
    /\ clones' = [clones EXCEPT ![c] = "none"]
    /\ freed' = [h \in DOMAIN freed |-> IF clones[c] = h THEN freed[h] + 1 ELSE freed[h]]
    /\ UNCHANGED <<mop, mon, serviceHandles, known, quotes>>

-----------------------------------------------------------------------------
(* The reference book.                                                      *)

ReferenceBookRegister == {IF known THEN "duplicate" ELSE "ok", "duplicateID", "error"}
ReferenceBookScheme == {IF known THEN "ok" ELSE "unknown", "error"}

\* Register and RegisterWithID.
BookRegisterCall(c) ==
    /\ Native(c, {"bookRegister"})
    /\ \E status \in ReferenceBookRegister :
         Return(c, status) /\ known' = (known \/ status = "ok")
    /\ UNCHANGED <<serviceHandles, freed, clones, quotes>>

BookResolveCall(c) ==
    /\ Native(c, {"bookResolve"})
    /\ Return(c, IF known THEN "ok" ELSE "nothing")
    /\ UNCHANGED <<serviceHandles, freed, clones, known, quotes>>

\* SetSettlementScheme, which refuses a scheme with an unknown unit itself,
\* ClearSettlementScheme and SettlementScheme.
BookSchemeCall(c) ==
    /\ Native(c, {"bookScheme"})
    /\ \E result \in ReferenceBookScheme \cup {"invalidUnit"} : Return(c, result)
    /\ UNCHANGED <<serviceHandles, freed, clones, known, quotes>>

-----------------------------------------------------------------------------
MethodStep(c) ==
    \/ RefuseGroup(c) \/ CloseHandle(c)
    \/ RegisterCall(c) \/ PushCall(c) \/ PushForCall(c)
    \/ InstrumentTTLCall(c) \/ InstrumentAccountTTLCall(c) \/ AccountTTLCall(c)
    \/ ClearCall(c) \/ ResolveCall(c) \/ GetCall(c) \/ AnswerGroup(c)
    \/ CloneCall(c) \/ PolicyCloneCall(c) \/ PolicyAdd(c)
    \/ BookRegisterCall(c) \/ BookResolveCall(c) \/ BookSchemeCall(c)

MarketNext ==
    \E c \in Callers :
      \/ \E h \in DOMAIN serviceHandles, op \in ServiceOps \cup BookOps :
           EnterMethod(c, h, op) \/ EnterClose(c, h, op)
      \/ MethodStep(c)

MarketSpec == MarketInit /\ [][MarketNext]_marketVars

-----------------------------------------------------------------------------
(* Properties.                                                              *)

\* service.go: Close "may be called concurrently with itself and with any other
\* method on the same value", a handle from Clone "must be released
\* independently", and the one a policy builder works with "remains valid if
\* Service.Close runs concurrently".  No native call is made on a destroyed
\* handle, none is destroyed twice, and a value gives up its handle only when
\* it is destroyed.
ServiceLive ==
    /\ \A h \in DOMAIN serviceHandles : freed[h] = IF serviceHandles[h] = "nil" THEN 1 ELSE 0
    /\ \A c \in Callers :
         /\ mpc[c] \in {"native", "asking"} /\ ~Closes(mop[c]) => freed[mon[c]] = 0
         /\ mpc[c] = "building" /\ clones[c] \in DOMAIN freed => freed[clones[c]] = 0

=============================================================================
