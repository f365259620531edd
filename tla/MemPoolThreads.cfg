SPECIFICATION FairSpec
CONSTANTS
  main = main
  r1 = r1
  r2 = r2
  x1 = x1
  x2 = x2
  NoThread = NoThread
  Consumer = main
  Threads <- ThreeThreads
  Packets <- TwoPackets
  MaxSize = 2
  MaxLoss = 2
INVARIANTS
  BatchIsWhole
  PoolAgrees
PROPERTIES
  PacketsLeave
  IsFifo
