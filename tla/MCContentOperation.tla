------------------------- MODULE MCContentOperation -------------------------
(* Model-checking instance of ContentOperation. *)
EXTENDS ContentOperation, TLC

CONSTANTS x1, x2

MCExt == {x1, x2}
MCSymmetry == Permutations(MCExt)
=============================================================================
