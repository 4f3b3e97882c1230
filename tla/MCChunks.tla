------------------------------ MODULE MCChunks ------------------------------
(* Instances of Chunks for TLC. *)
EXTENDS ChunksInv, TLC

CONSTANTS c1, c2, n1, n2

Names == Permutations(Name)
=============================================================================
