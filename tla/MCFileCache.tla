---------------------------- MODULE MCFileCache -----------------------------
(* Instances of FileCache for TLC. *)
EXTENDS FileCacheInv, TLC

CONSTANTS a, b

Values == Permutations(Value)
=============================================================================
