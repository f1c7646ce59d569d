SPECIFICATION Spec
CONSTANTS
  o1 = o1
  o2 = o2
  g1 = g1
  g2 = g2
  g3 = g3
  None = None
  Torn = Torn
  Op <- MCOp
  Gen <- MCGen
  MaxRetries = 1
  MaxOutside = 1
SYMMETRY MCSymmetry
INVARIANTS
  DecidedIsFinal
  NoBlindSwitch
PROPERTIES
  ReceiptUntilDecided
CHECK_DEADLOCK FALSE
