CONSTANTS
  N = 1
  KindOf <- AllCycle
  MaxDispatch = 2
  MaxCrashes = 1
  MaxRetries = 1
  Budget = 3
  Faults = {}
  LongRuns = FALSE
  EpochMoves = FALSE
SPECIFICATION Spec
PROPERTY NetworkLossIsTransient
CHECK_DEADLOCK FALSE
