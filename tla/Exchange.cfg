CONSTANTS
  N = 1
  KindOf <- AllCycle
  MaxDispatch = 2
  MaxCrashes = 2
  MaxRetries = 1
  Budget = 2
  Faults = {"refused", "error"}
  LongRuns = FALSE
  EpochMoves = TRUE
SPECIFICATION Spec
CHECK_DEADLOCK FALSE
INVARIANTS
  TypeOK
  PostIsFrozen
  LifecycleBudget
  ReceiptCarriesDebt
PROPERTY
  NoDebtLost
