----------------------------- MODULE Settlement -----------------------------
(***************************************************************************)
(* What a reservation (pretrade/reservation.go) promises of its native      *)
(* handle: the reserved state is committed or rolled back once, the handle  *)
(* is freed once, a handle freed unresolved is rolled back, and a freed     *)
(* handle is left alone.                                                    *)
(***************************************************************************)
VARIABLES
    native,   \* what became of the reserved state
    freed     \* the native handle was destroyed

Init == native = "reserved" /\ freed = FALSE

Resolve(how) ==
    /\ ~freed /\ native = "reserved"
    /\ native' = how
    /\ UNCHANGED freed

Free ==
    /\ ~freed
    /\ freed' = TRUE
    /\ native' = IF native = "reserved" THEN "rolledBack" ELSE native

Next == Resolve("committed") \/ Resolve("rolledBack") \/ Free

Spec == Init /\ [][Next]_<<native, freed>>

=============================================================================
