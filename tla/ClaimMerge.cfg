SPECIFICATION Spec
CONSTANTS
  N = 1
  MaxJoins = 1
  MaxStarts = 1
  MaxOrders = 1
  Neighbours = FALSE
  HotRecovery = TRUE
PROPERTY ClaimNoLostUpdate
CHECK_DEADLOCK FALSE
