SPECIFICATION Spec
CONSTANTS
  N = 2
  MaxAttempts = 2
  MaxDispatch = 2
  MaxUpsets = 1
  Faults = {"refused", "error"}
CONSTRAINT SweepBound
INVARIANTS TypeOK LeaseIsReturned OneRunPerRoom CompletedFirst
PROPERTIES DenialStands OwnerSubmits NoEscape
CHECK_DEADLOCK FALSE
