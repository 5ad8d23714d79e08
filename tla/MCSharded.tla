----------------------------- MODULE MCSharded -----------------------------
(* Small instances of Sharded.                                              *)
EXTENDS Sharded

CONSTANTS a, b, c, k1, k2, s1, s2, x1

OneShard == [k \in Keys |-> s1]
TwoShards == [k \in Keys |-> IF k = k1 THEN s1 ELSE s2]
SameKey == [o \in Ops |-> k1]
TwoKeys == [o \in Ops |-> IF o = c THEN k2 ELSE k1]
=============================================================================
