----------------------------- MODULE MCMultitape -----------------------------
(* Model values and symmetry for checking Multitape with TLC. *)
EXTENDS MultitapeInv, TLC

CONSTANTS p1, p2

OneProc == {p1}
TwoProcs == {p1, p2}

Symmetry == Permutations(TwoProcs)
=============================================================================
