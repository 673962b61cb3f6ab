SPECIFICATION FairSpec
CONSTANTS
  Callers = {c1, c2}
  MaxHead = 2
  MaxEpoch = 2
  MaxPolicies = 1
  MaxFailures = 1
INVARIANTS TypeOK SameContent AnswersTrue FinishedIsReleased
PROPERTIES TurnReleased
CHECK_DEADLOCK FALSE
