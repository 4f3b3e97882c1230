--------------------------- MODULE MCStorageQueue ---------------------------
(* Files of different lengths, for TLC. *)
EXTENDS StorageQueue

CONSTANTS f1, f2, f3, f4, f5

SizeOf == [r \in Jobs |-> CASE r = f1 -> 1 [] r = f2 -> 3 [] OTHER -> 2]
=============================================================================
