----------------------- MODULE MCTransactionLifecycle -----------------------
(* Model-checking instance of TransactionLifecycle. *)
EXTENDS TransactionLifecycle, TLC

CONSTANTS o1, o2

MCOp == {o1, o2}
MCOneOp == {o1}
MCSymmetry == Permutations(MCOp)
=============================================================================
