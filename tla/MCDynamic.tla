----------------------------- MODULE MCDynamic -----------------------------
(* Small instances of Dynamic.                                              *)
EXTENDS Dynamic

CONSTANTS a, b, c, k1, k2, q1, q2, q3, x1

SameKey == [o \in Ops |-> k1]
TwoKeys == [o \in Ops |-> IF o = c THEN k2 ELSE k1]
=============================================================================
