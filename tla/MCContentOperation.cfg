SPECIFICATION Spec
CONSTANTS
  Orig = Orig
  Stage = Stage
  None = None
  x1 = x1
  x2 = x2
  Ext <- MCExt
  MaxStamp = 3
  MaxStops = 3
  MaxDiscards = 3
SYMMETRY MCSymmetry
INVARIANTS
  NothingLost
  ReplacedIsBaseline
  SettledWhenReleased
  RollbackIsExact
  RollbackCompletes
CHECK_DEADLOCK FALSE
