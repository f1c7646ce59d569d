SPECIFICATION TransferSpec
CONSTANTS
  o1 = o1
  o2 = o2
  g1 = g1
  g2 = g2
  Nothing = Nothing
  Op <- MCOp
  Gen <- MCGen
  MaxDiscards = 2
SYMMETRY MCSymmetry
INVARIANTS
  GenerationsAreWhole
  StageStaysUnderHelper
  DiscardedIsGone
CHECK_DEADLOCK FALSE
