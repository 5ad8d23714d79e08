------------------------------ MODULE MCHandles ------------------------------
(***************************************************************************)
(* The handles of the asynchronous engine for TLC: a behaviour is one of a   *)
(* reservation, of a drop-copy operation or of a chain, whichever 'part'     *)
(* says; the state of the others does not change.                           *)
(***************************************************************************)
EXTENDS DropCopy, Chain

CONSTANTS c1, c2, r1, r2

VARIABLE part

NoPlan == [source |-> "account", steps |-> <<>>, complete |-> TRUE, finally |-> FALSE]

Init ==
    /\ ReservationInit
    /\ \/ part \in {"reservation", "dropCopy"} /\ ChainInit({NoPlan}, "done")
       \/ part = "chain" /\ ChainInit(Plans, "built")

Next ==
    /\ UNCHANGED part
    /\ \/ part = "reservation" /\ ReservationNext /\ UNCHANGED chainVars
       \/ part = "dropCopy" /\ DropCopyNext({r1}) /\ UNCHANGED chainVars
       \/ part = "chain" /\ ChainNext /\ UNCHANGED reservationVars

FairSpec ==
    /\ Init /\ [][Next]_<<part, reservationVars, chainVars>>
    /\ ReservationFairness
    /\ ChainFairness

=============================================================================
