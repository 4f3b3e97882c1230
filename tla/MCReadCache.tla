---------------------------- MODULE MCReadCache ----------------------------
(* Files of different lengths, for TLC. *)
EXTENDS ReadCacheInv, TLC

CONSTANTS f1, f2, f3

Lengths == [f \in Files |-> IF f = f1 THEN 2 ELSE 1]
Alike == Permutations({f2, f3})
=============================================================================
