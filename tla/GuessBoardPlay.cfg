SPECIFICATION FairSpec
CONSTANTS
  Blocks = {b1, b2, b3}
  NoBlock = NoBlock
  NoData = NoData
  Windows = {even, uneven}
  Uneven = {uneven}
  Deltas = {1, 4}
CHECK_DEADLOCK FALSE
INVARIANTS
  OpenIsSelected
  ShownAsState
PROPERTIES
  EffectsEnd
