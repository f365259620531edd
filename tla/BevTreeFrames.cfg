SPECIFICATION SpecBoth
CONSTANTS
  Trees <- FourTrees
  TaskTrees <- FourTaskTrees
INVARIANTS
  PreconditionsHold
  PathRemembered
  TasksPaired
