SPECIFICATION FairSpec
CONSTANTS
  MaxPackets = 2
CHECK_DEADLOCK FALSE
INVARIANTS
  TypeOK
  OnlyMissedOutlive
PROPERTIES
  ShutdownCompletes
