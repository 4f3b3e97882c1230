---------------------------- MODULE MCNetpacketOp ----------------------------
(* Instances of NetpacketOp for TLC. *)
EXTENDS NetpacketInv

CONSTANTS s1, s2, d1, d2
=============================================================================
