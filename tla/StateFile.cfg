SPECIFICATION Spec
CONSTANTS
  N = 1
  MaxJoins = 2
  MaxStarts = 2
  MaxOrders = 2
  Neighbours = TRUE
  HotRecovery = TRUE
INVARIANTS TypeOK LoadableUnlessHot RuntimeOfThisMember
PROPERTIES OperatorsDecide RotationHonoured OneCopyLosesNothing
CHECK_DEADLOCK FALSE
