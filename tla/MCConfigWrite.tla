--------------------------- MODULE MCConfigWrite ---------------------------
(* Model-checking instance of ConfigWrite. *)
EXTENDS ConfigWrite, TLC

CONSTANTS x1, x2

MCExt == {x1, x2}
MCSymmetry == Permutations(MCExt)
=============================================================================
