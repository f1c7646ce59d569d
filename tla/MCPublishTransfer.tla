------------------------- MODULE MCPublishTransfer -------------------------
(* Model-checking instance of PublishTransfer. *)
EXTENDS PublishTransfer, TLC

CONSTANTS o1, o2, g1, g2

MCOp == {o1, o2}
MCGen == {g1, g2}
MCSymmetry == Permutations(MCOp) \cup Permutations(MCGen)
=============================================================================
