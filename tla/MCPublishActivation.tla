------------------------ MODULE MCPublishActivation ------------------------
(* Model-checking instance of PublishActivation. *)
EXTENDS PublishActivation, TLC

CONSTANTS o1, o2, g1, g2, g3

MCOp == {o1, o2}
MCGen == {g1, g2, g3}
MCSymmetry == Permutations(MCOp) \cup Permutations(MCGen)
=============================================================================
