SPECIFICATION Spec
CONSTANTS
  MaxId = 2
  MaxEdits = 1
  Null = Null
  Dangling = Dangling
  Absent = Absent
  None = None
CHECK_DEADLOCK FALSE
INVARIANTS
  ShownAsChosen
  ScaleAgrees
  PairsWellFormed
  CrashesKnown
