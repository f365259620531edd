SPECIFICATION FairSpec
CONSTANTS
  Values = {0, 1}
  FirstValue = 0
  PoolMax = 2
  MaxSends = 2
  MaxChanges = 1
CHECK_DEADLOCK FALSE
INVARIANTS
  ExactlyOnce
  InOrder
PROPERTIES
  RequestsHandled
  ChangesReported
