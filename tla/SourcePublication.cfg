SPECIFICATION PublicationSpec
CONSTANTS
  Orig = Orig
  Stage = Stage
  None = None
  Ext = {x1, x2}
  MaxStamp = 3
  MaxStops = 2
INVARIANTS
  NothingLost
  ReplacedIsBaseline
  AllOrNothing
PROPERTIES
  RestoresOnlyTheOriginal
CHECK_DEADLOCK FALSE
