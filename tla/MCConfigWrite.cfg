SPECIFICATION WriteSpec
CONSTANTS
  Orig = Orig
  New = New
  Copy = Copy
  NoFile = NoFile
  x1 = x1
  x2 = x2
  Ext <- MCExt
  MaxStamp = 3
  MaxStops = 2
SYMMETRY MCSymmetry
INVARIANTS
  NothingLost
  AllOrNothing
CHECK_DEADLOCK FALSE
