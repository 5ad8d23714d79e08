------------------------------- MODULE Values -------------------------------
(***************************************************************************)
(* The values of package model (Order, ExecutionReport, AccountAdjustment)   *)
(* and the memory behind them.                                             *)
(*                                                                         *)
(* A value is a native struct that Go code copies by assignment.  Its string *)
(* and lock fields are raw pointers to native blocks, which the garbage      *)
(* collector does not see: a block is freed by the finalizer of a Go object  *)
(* (native.String, executionReportFillLockOwner), so the Go value keeps that *)
(* object beside the struct, in its retain fields.                           *)
(*                                                                         *)
(* The optional groups of an aggregate are independent of each other, so a   *)
(* behaviour follows one of them; the three operations of an adjustment      *)
(* exclude each other and are followed together.  What a group holds is      *)
(* [plain, ptr, keep]: whether a field without a pointer is set, the pointer *)
(* and the retained owner of every other field.  An instrument is its two    *)
(* assets, set and cleared together, and counts as one block.                *)
(***************************************************************************)
EXTENDS Naturals, FiniteSets

CONSTANTS
    Aggregates, \* the Go variables that hold a value of the aggregate
    Blocks,     \* native blocks
    NoBlock     \* a null pointer, or a nil owner

OrderGroups == {"orderOperation", "orderPosition", "orderMargin"}
ReportGroups == {"reportOperation", "financialImpact", "fill", "positionImpact"}
AdjustmentOperations == {"balance", "position", "accountPnl"}
AdjustmentGroups == AdjustmentOperations \cup {"amount", "bounds"}
Groups == OrderGroups \cup ReportGroups \cup AdjustmentGroups

\* The groups a behaviour may follow.
Sums ==
    {{g} : g \in Groups \ AdjustmentOperations} \cup {AdjustmentOperations}

\* The fields of a group that are pointers.
Slots(g) ==
    CASE g \in {"orderOperation", "reportOperation"} -> {"instrument"}
      [] g = "orderMargin" -> {"collateralAsset"}
      [] g = "fill" -> {"fee", "lock"}
      [] g = "balance" -> {"asset"}
      [] g = "position" -> {"instrument", "collateralAsset"}
      [] OTHER -> {}

Absent == "absent"
NoGroup == "none"
Hand == "hand"

ASSUME ValuesAssumption ==
    /\ NoBlock \notin Blocks \cup Aggregates
    /\ Hand \notin Aggregates

VARIABLES
    sum,        \* the groups followed
    aggregate,  \* of a variable: the group that is set, and what every group holds
    hand,       \* a value of a group in a Go variable of its own
    views,      \* the views that were handed out
    alive,      \* the blocks that are not freed
    lender      \* the variable whose memory a rebuilt report, or a fill read from it, borrows

valuesVars == <<sum, aggregate, hand, views, alive, lender>>

Empty(g) ==
    [plain |-> FALSE, ptr |-> [s \in Slots(g) |-> NoBlock], keep |-> [s \in Slots(g) |-> NoBlock]]

NoHand == [group |-> NoGroup, body |-> Empty("amount")]

\* NewOrder, NewExecutionReport, NewAccountAdjustment; what Reset leaves.
NewAggregate(gs) == [kind |-> Absent, body |-> [g \in gs |-> Empty(g)]]

\* The variables of the behaviour.
Variables == DOMAIN aggregate

ValuesStart(gs, vs) ==
    /\ sum = gs
    /\ aggregate = [v \in vs |-> NewAggregate(gs)]
    /\ hand = NoHand
    /\ views = {}
    /\ alive = {}
    /\ lender = [q \in vs \cup {Hand} |-> NoBlock]

ValuesInit == \E gs \in Sums : ValuesStart(gs, Aggregates)
ValuesOff == ValuesStart({"amount"}, Aggregates)

-----------------------------------------------------------------------------
(* Memory.                                                                  *)

Values(f) == {f[s] : s \in DOMAIN f}

Pointers(c) == Values(c.ptr) \ {NoBlock}
Owners(c) == Values(c.keep) \ {NoBlock}

Pointed == Pointers(hand.body) \cup UNION {Pointers(aggregate[v].body[g]) : v \in Variables, g \in sum}
Reachable == Owners(hand.body) \cup UNION {Owners(aggregate[v].body[g]) : v \in Variables, g \in sum}

\* A block that malloc returns: a new one, or one nothing knows any more.
Unused == Blocks \ (alive \cup Pointed \cup Reachable)

\* One of them, for nothing tells them apart; NoBlock when there is none.
FreshBlock == IF Unused = {} THEN NoBlock ELSE CHOOSE b \in Unused : TRUE

\* The finalizer of a block's owner, which nothing reaches any more.
Collect(b) ==
    /\ b \in alive \ Reachable
    /\ alive' = alive \ {b}
    /\ UNCHANGED <<sum, aggregate, hand, views, lender>>

Stored(c, s, b) == [c EXCEPT !.ptr[s] = b, !.keep[s] = b]

-----------------------------------------------------------------------------
(* The methods of a group's value and of its view: the results they may      *)
(* leave in what the group held.                                            *)

Plain(c) == {[c EXCEPT !.plain = set] : set \in BOOLEAN}

\* The native setters of the fields without a pointer.
OrderFields(c) == Plain(c)
ReportFields(c) == Plain(c)
FillFields(c) == Plain(c)
ImpactFields(c) == Plain(c)
BalanceFields(c) == Plain(c)
PositionFields(c) == Plain(c)
AmountFields(c) == Plain(c)
BoundsFields(c) == Plain(c)

\* Unset of a field that is a string, and Set to an asset the program does not
\* keep (one that it keeps is collected later, never earlier).  No fresh block
\* is NoBlock: then only what allocates nothing may happen.
Strings(c, s, fresh) == {Stored(c, s, NoBlock), Stored(c, s, fresh)}

\* Variant of LockBytes: the owner of the lock decoded is not kept.
LockBytesUnkept(c, fresh) == {c, Stored(c, "lock", NoBlock), [c EXCEPT !.ptr["lock"] = fresh]}

\* setExecutionReportFillLock and UnsetLock: no bytes clear the lock, bytes
\* that do not decode change nothing, others become a new lock.
LockBytes(c, fresh) == {c, Stored(c, "lock", NoBlock), Stored(c, "lock", fresh)}

\* The values of an order's groups.
OrderOperation(c, fresh) == {Empty("orderOperation")} \cup OrderFields(c) \cup Strings(c, "instrument", fresh)
OrderPosition(c) == {Empty("orderPosition")} \cup OrderFields(c)
OrderMargin(c, fresh) == {Empty("orderMargin")} \cup OrderFields(c) \cup Strings(c, "collateralAsset", fresh)

\* The values of a report's groups.  A trade is a field of a fill.
ReportOperation(c, fresh) == {Empty("reportOperation")} \cup ReportFields(c) \cup Strings(c, "instrument", fresh)
FinancialImpact(c) == {Empty("financialImpact")} \cup ReportFields(c)
Trade(c) == FillFields(c)
Fill(c, fresh) == {Empty("fill")} \cup Trade(c) \cup Strings(c, "fee", fresh) \cup LockBytes(c, fresh)
PositionImpact(c) == {Empty("positionImpact")} \cup ImpactFields(c)

\* The values of an adjustment's groups; the P&L operation has no setters.
BalanceOperation(c, fresh) == {Empty("balance")} \cup BalanceFields(c) \cup Strings(c, "asset", fresh)
PositionOperation(c, fresh) ==
    {Empty("position")} \cup PositionFields(c)
    \cup Strings(c, "instrument", fresh) \cup Strings(c, "collateralAsset", fresh)
Amount(c) == {Empty("amount")} \cup AmountFields(c)
Bounds(c) == {Empty("bounds")} \cup BoundsFields(c)

\* What a method of the group's value may leave in c.
Edited(g, c, fresh) ==
    CASE g = "orderOperation" -> OrderOperation(c, fresh)
      [] g = "orderPosition" -> OrderPosition(c)
      [] g = "orderMargin" -> OrderMargin(c, fresh)
      [] g = "reportOperation" -> ReportOperation(c, fresh)
      [] g = "financialImpact" -> FinancialImpact(c)
      [] g = "fill" -> Fill(c, fresh)
      [] g = "positionImpact" -> PositionImpact(c)
      [] g = "balance" -> BalanceOperation(c, fresh)
      [] g = "position" -> PositionOperation(c, fresh)
      [] g = "amount" -> Amount(c)
      [] g = "bounds" -> Bounds(c)
      [] g = "accountPnl" -> {c}

\* A view points into its aggregate, at a group's struct and at the retain
\* fields for it: what its methods may leave in the aggregate x.
Through(x, g, S) == {[x EXCEPT !.body[g] = c] : c \in S}

OrderOperationView(x, fresh) == Through(x, "orderOperation", OrderOperation(x.body["orderOperation"], fresh))
OrderPositionView(x) == Through(x, "orderPosition", OrderPosition(x.body["orderPosition"]))
OrderMarginView(x, fresh) == Through(x, "orderMargin", OrderMargin(x.body["orderMargin"], fresh))
ReportOperationView(x, fresh) == Through(x, "reportOperation", ReportOperation(x.body["reportOperation"], fresh))
FinancialImpactView(x) == Through(x, "financialImpact", FinancialImpact(x.body["financialImpact"]))
FillView(x, fresh) == Through(x, "fill", Fill(x.body["fill"], fresh))
PositionImpactView(x) == Through(x, "positionImpact", PositionImpact(x.body["positionImpact"]))
BalanceOperationView(x, fresh) == Through(x, "balance", BalanceOperation(x.body["balance"], fresh))
PositionOperationView(x, fresh) == Through(x, "position", PositionOperation(x.body["position"], fresh))
AmountView(x) == Through(x, "amount", Amount(x.body["amount"]))
BoundsView(x) == Through(x, "bounds", Bounds(x.body["bounds"]))

EditedThrough(g, x, fresh) ==
    CASE g = "orderOperation" -> OrderOperationView(x, fresh)
      [] g = "orderPosition" -> OrderPositionView(x)
      [] g = "orderMargin" -> OrderMarginView(x, fresh)
      [] g = "reportOperation" -> ReportOperationView(x, fresh)
      [] g = "financialImpact" -> FinancialImpactView(x)
      [] g = "fill" -> FillView(x, fresh)
      [] g = "positionImpact" -> PositionImpactView(x)
      [] g = "balance" -> BalanceOperationView(x, fresh)
      [] g = "position" -> PositionOperationView(x, fresh)
      [] g = "amount" -> AmountView(x)
      [] g = "bounds" -> BoundsView(x)

-----------------------------------------------------------------------------
(* The groups of an aggregate x.                                            *)

Others(x, g) == [h \in DOMAIN x.body |-> IF h = g THEN x.body[g] ELSE Empty(h)]

\* ...OptionalSet and ...OptionalReset of the native optional groups.
OptionalSet(x, g, c) == [kind |-> g, body |-> [x.body EXCEPT ![g] = c]]
OptionalReset(x, g) == [kind |-> Absent, body |-> [x.body EXCEPT ![g] = Empty(g)]]

\* What is fresh in the native struct of a group; the retain fields are the
\* aggregate's and stay.
Renewed(g, c) == [Empty(g) EXCEPT !.keep = c.keep]

\* Variant of OptionalEnsure: the group is marked set as it is.
OptionalEnsureAsIs(x, g) == [x EXCEPT !.kind = g]

\* Ensure...View: a group that is not set starts empty.
OptionalEnsure(x, g) == IF x.kind = g THEN x ELSE OptionalSet(x, g, Renewed(g, x.body[g]))

\* Variant of OrderSet: the retain fields of the group's value are not copied.
OrderSetUnkept(x, g, c) == OptionalSet(x, g, [c EXCEPT !.keep = x.body[g].keep])

OrderSet(x, g, c) == OptionalSet(x, g, c)
OrderUnset(x, g) == OptionalReset(x, g)
OrderEnsure(x, g) == OptionalEnsure(x, g)

\* Operation, Position and Margin hand the aggregate's owners to the value read.
OrderGet(x, g) == x.body[g]

\* Variant of Cloned: a lock that is only borrowed is stored as it is.
ClonedNot(c, fresh) == c

\* A lock without an owner belongs to somebody else: SetFill clones it.
Cloned(c, fresh) ==
    IF "lock" \in DOMAIN c.ptr /\ c.ptr["lock"] # NoBlock /\ c.keep["lock"] = NoBlock
      THEN Stored(c, "lock", fresh)
      ELSE c

ReportSet(x, g, c, fresh) == OptionalSet(x, g, Cloned(c, fresh))
ReportUnset(x, g) == OptionalReset(x, g)
ReportEnsure(x, g) == OptionalEnsure(x, g)

\* newExecutionReportOperation, newExecutionReportFill: the value read has a
\* copy of every string, and shares the owner of the lock, if there is one.
ReportGet(x, g, fresh) ==
    LET c == x.body[g]
        s == Slots(g) \ {"lock"}
    IN  [c EXCEPT !.ptr = [t \in Slots(g) |-> IF t \in s /\ @[t] # NoBlock THEN fresh ELSE @[t]],
                  !.keep = [t \in Slots(g) |->
                              IF t \in s THEN IF c.ptr[t] = NoBlock THEN NoBlock ELSE fresh
                                         ELSE @[t]]]

\* ...Set...AndUnsetOtherOperations; amount and bounds are optional groups.
AdjustmentSet(x, g, c) == [kind |-> g, body |-> [Others(x, g) EXCEPT ![g] = c]]

\* Unset...: only the operation that is selected leaves the adjustment without.
AdjustmentUnset(x, g) ==
    [kind |-> IF x.kind = g THEN Absent ELSE x.kind, body |-> [x.body EXCEPT ![g] = Empty(g)]]

\* Variant of AdjustmentEnsure: another operation's payload is taken over.
AdjustmentEnsureAsIs(x, g) == [kind |-> g, body |-> Others(x, g)]

\* ...Select...AndUnsetOtherOperations, and the retain fields of the others.
AdjustmentEnsure(x, g) ==
    [kind |-> g,
     body |-> [Others(x, g) EXCEPT ![g] = IF x.kind = g THEN @ ELSE Renewed(g, @)]]

AdjustmentGet(x, g) == x.body[g]

-----------------------------------------------------------------------------
(* The steps of the program that uses the values.                           *)

\* The bytes of a report are borrowed only while the report lent is not
\* modified: the program is done with what borrows from v.
Borrowers(v) == {q \in Variables \cup {Hand} : lender[q] = v}

Modify(v, x) ==
    /\ aggregate' = [w \in Variables |->
                       IF w = v THEN x ELSE IF w \in Borrowers(v) THEN NewAggregate(sum) ELSE aggregate[w]]
    /\ hand' = IF Hand \in Borrowers(v) THEN NoHand ELSE hand
    /\ lender' = [q \in DOMAIN lender |-> IF q \in Borrowers(v) THEN NoBlock ELSE lender[q]]

\* The blocks among bs that a step used are allocated.
Allocate(bs) == alive' = alive \cup (bs \cap (Pointers(hand'.body)
                                   \cup UNION {Pointers(aggregate'[v].body[g]) : v \in Variables, g \in sum}))

\* A value of a group: New..., New...FromValues.
NewHand(g) ==
    /\ g \in sum
    /\ hand' = [group |-> g, body |-> [Empty(g) EXCEPT !.plain = g = "accountPnl"]]
    /\ lender' = [lender EXCEPT ![Hand] = NoBlock]
    /\ UNCHANGED <<sum, aggregate, views, alive>>

\* A method of a group's value.
EditHand(fresh) ==
    /\ hand.group # NoGroup
    /\ \E c \in Edited(hand.group, hand.body, fresh) : hand' = [hand EXCEPT !.body = c]
    /\ UNCHANGED <<sum, aggregate, views, lender>>
    /\ Allocate({fresh})

\* A method of a view, which may be older than the last Unset or Reset.
EditView(v, g, fresh) ==
    /\ <<v, g>> \in views
    /\ \E x \in EditedThrough(g, aggregate[v], fresh) : Modify(v, x)
    /\ UNCHANGED <<sum, views>>
    /\ Allocate({fresh})

\* SetOperation, SetFill, SetBalanceOperationAndUnsetOtherOperations, ...
SetGroup(v, x, fresh) ==
    /\ hand.group # NoGroup
    /\ \/ sum \subseteq OrderGroups /\ Modify(v, OrderSet(x, hand.group, hand.body))
       \/ sum \subseteq ReportGroups /\ Modify(v, ReportSet(x, hand.group, hand.body, fresh))
       \/ sum \subseteq AdjustmentGroups /\ Modify(v, AdjustmentSet(x, hand.group, hand.body))
    /\ UNCHANGED <<sum, views>>
    /\ Allocate({fresh})

UnsetGroup(v, g) ==
    /\ g \in sum
    /\ \/ sum \subseteq OrderGroups /\ Modify(v, OrderUnset(aggregate[v], g))
       \/ sum \subseteq ReportGroups /\ Modify(v, ReportUnset(aggregate[v], g))
       \/ sum \subseteq AdjustmentGroups /\ Modify(v, AdjustmentUnset(aggregate[v], g))
    /\ UNCHANGED <<sum, views, alive>>

EnsureView(v, g) ==
    /\ g \in sum \ {"accountPnl"}
    /\ \/ sum \subseteq OrderGroups /\ Modify(v, OrderEnsure(aggregate[v], g))
       \/ sum \subseteq ReportGroups /\ Modify(v, ReportEnsure(aggregate[v], g))
       \/ sum \subseteq AdjustmentGroups /\ Modify(v, AdjustmentEnsure(aggregate[v], g))
    /\ views' = views \cup {<<v, g>>}
    /\ UNCHANGED <<sum, alive>>

\* Operation, Fill, BalanceOperation, ...: the value read lives in the hand.
\* It borrows what the report it is read from borrows, unless it was copied.
GetGroup(v, fresh) ==
    LET x == aggregate[v]
        g == x.kind
    IN  /\ g # Absent
        /\ \/ sum \subseteq OrderGroups /\ hand' = [group |-> g, body |-> OrderGet(x, g)]
           \/ sum \subseteq ReportGroups /\ hand' = [group |-> g, body |-> ReportGet(x, g, fresh)]
           \/ sum \subseteq AdjustmentGroups /\ hand' = [group |-> g, body |-> AdjustmentGet(x, g)]
        /\ lender' = [lender EXCEPT ![Hand] =
                         IF Pointers(hand'.body) \subseteq Owners(hand'.body) THEN NoBlock ELSE lender[v]]
        /\ UNCHANGED <<sum, aggregate, views>>
        /\ Allocate({fresh})

\* Reset, and SetValues or New...FromValues, which reset and set what is given,
\* of several adjustment operations the last.
ResetAggregate(v) ==
    /\ Modify(v, NewAggregate(sum))
    /\ UNCHANGED <<sum, views, alive>>

SetValues(v, fresh) == SetGroup(v, NewAggregate(sum), fresh)

\* v := w.
Assign(v, w) ==
    /\ v # w /\ lender[w] # v
    /\ aggregate' = [u \in Variables |->
                       IF u = v THEN aggregate[w]
                       ELSE IF u \in Borrowers(v) THEN NewAggregate(sum) ELSE aggregate[u]]
    /\ hand' = IF Hand \in Borrowers(v) THEN NoHand ELSE hand
    /\ lender' = [q \in DOMAIN lender |->
                    IF q = v THEN lender[w] ELSE IF q \in Borrowers(v) THEN NoBlock ELSE lender[q]]
    /\ UNCHANGED <<sum, views, alive>>

\* v := NewExecutionReportFromHandle(w.Handle()): pointers without owners.
Rebuild(v, w) ==
    /\ sum \subseteq ReportGroups
    /\ v # w /\ lender[w] = NoBlock
    /\ aggregate' = [u \in Variables |->
                       IF u = v THEN [aggregate[w] EXCEPT !.body =
                                        [g \in sum |-> [@[g] EXCEPT !.keep = Empty(g).keep]]]
                       ELSE IF u \in Borrowers(v) THEN NewAggregate(sum) ELSE aggregate[u]]
    /\ hand' = IF Hand \in Borrowers(v) THEN NoHand ELSE hand
    /\ lender' = [q \in DOMAIN lender |->
                    IF q = v THEN w ELSE IF q \in Borrowers(v) THEN NoBlock ELSE lender[q]]
    /\ UNCHANGED <<sum, views, alive>>

ValuesNext ==
    \/ \E b \in Blocks : Collect(b)
    \/ \E g \in Groups : NewHand(g)
    \/ \E v \in Variables, g \in Groups : UnsetGroup(v, g) \/ EnsureView(v, g)
    \/ \E v \in Variables : ResetAggregate(v)
    \/ \E v, w \in Variables : Assign(v, w) \/ Rebuild(v, w)
    \/ EditHand(FreshBlock)
    \/ \E v \in Variables, g \in sum : EditView(v, g, FreshBlock)
    \/ /\ Unused # {}
       /\ \E v \in Variables :
            SetGroup(v, aggregate[v], FreshBlock) \/ GetGroup(v, FreshBlock) \/ SetValues(v, FreshBlock)

ValuesSpec == ValuesInit /\ [][ValuesNext]_valuesVars

-----------------------------------------------------------------------------
(* Properties.                                                              *)

\* Every pointer in a value that the program may still use is to memory that
\* is not freed, whatever was read, set, copied and collected before: the
\* retain fields of model.Order, ExecutionReport, AccountAdjustment, of their
\* groups and of their views keep up with the native structs.
MemoryLive == Pointed \subseteq alive

\* What a group shows, by which of its fields are set.
Shows(c) == <<c.plain, {s \in DOMAIN c.ptr : c.ptr[s] # NoBlock}>>

\* A group that becomes set shows nothing, or what it was set to, or is part
\* of an aggregate that was assigned as a whole: what a view older than an
\* Unset wrote into a group that was not set never appears
\* (Ensure...View, Select...AndUnsetOtherOperations).
NothingResurfaces ==
    [][\A v \in Variables : \A g \in sum :
          aggregate[v].kind # g /\ aggregate'[v].kind = g =>
            \/ Shows(aggregate'[v].body[g]) \in {Shows(Empty(g)), Shows(hand.body)}
            \/ \E w \in Variables \ {v} : Shows(aggregate'[v].body[g]) = Shows(aggregate[w].body[g])]_valuesVars

=============================================================================
