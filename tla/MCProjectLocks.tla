--------------------------- MODULE MCProjectLocks ---------------------------
(* Model-checking instance of ProjectLocks. *)
EXTENDS ProjectLocks, TLC

CONSTANTS c1, c2, c3, i1

MCClient == {c1, c2, c3}
MCInspector == {i1}
=============================================================================
