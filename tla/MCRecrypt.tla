----------------------------- MODULE MCRecrypt -----------------------------
(* Archives that share blocks, for TLC. *)
EXTENDS RecryptInv

CONSTANTS c1, c2, c3

Both == {{c1, c2}, {c2, c3}}
One  == {{c1, c2}}
=============================================================================
