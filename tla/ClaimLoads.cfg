CONSTANTS
  N = 1
  KindOf <- AllCycle
  MaxDispatch = 1
  MaxCrashes = 3
  MaxRetries = 1
  Budget = 3
  Faults = {}
  LongRuns = FALSE
  EpochMoves = FALSE
SPECIFICATION Spec
INVARIANT StateFileLoads
CHECK_DEADLOCK FALSE
