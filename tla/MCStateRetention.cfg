SPECIFICATION RetentionSpec
CONSTANTS
  p1 = p1
  named = named
  planned = planned
  unnamed = unnamed
  Nil = Nil
  Cleaner = Cleaner
  Project <- MCProject
  Dir <- MCDir
  Sort <- MCSort
  ProjectOf <- MCProjectOf
  MaxTrash = 2
INVARIANTS
  ProjectStays
PROPERTIES
  OnlyLeftoversGo
