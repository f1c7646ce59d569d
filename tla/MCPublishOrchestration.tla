----------------------- MODULE MCPublishOrchestration -----------------------
(* Model-checking instance of PublishOrchestration. *)
EXTENDS PublishOrchestration, TLC

CONSTANTS c1, c2

MCCaller == {c1, c2}
MCSymmetry == Permutations(MCCaller)
=============================================================================
