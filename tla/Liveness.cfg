CONSTANTS
  N = 2
  KindOf <- AllOpen
  MaxDispatch = 1
  MaxCrashes = 1
  MaxRetries = 0
  Budget = 2
  Faults = {}
  LongRuns = FALSE
  EpochMoves = FALSE
SPECIFICATION LiveSpec
CHECK_DEADLOCK FALSE
PROPERTY ProvenIsAcknowledged
