CONSTANTS
  N = 2
  KindOf <- AllOpen
  MaxDispatch = 1
  MaxCrashes = 1
  MaxRetries = 1
  Budget = 2
  Faults = {"refused", "error"}
  LongRuns = FALSE
  EpochMoves = FALSE
SPECIFICATION Spec
CHECK_DEADLOCK FALSE
INVARIANT EvidenceReach
PROPERTIES
  AckNeedsEvidence
  KeepsPromise
