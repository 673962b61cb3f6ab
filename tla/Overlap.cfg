CONSTANTS
  N = 1
  KindOf <- AllTurn
  MaxDispatch = 2
  MaxCrashes = 1
  MaxRetries = 1
  Budget = 1
  Faults = {}
  LongRuns = TRUE
  EpochMoves = FALSE
SPECIFICATION Spec
CHECK_DEADLOCK FALSE
INVARIANTS ReceiptTruth ReceiptCarriesDebt
PROPERTY NoDebtLost
