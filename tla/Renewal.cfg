SPECIFICATION FairSpec
CONSTANTS
  Runs = {r1}
  MaxKeys = 3
  MaxSeq = 1
  MaxLapses = 1
  MaxRenames = 1
  MaxDeaths = 2
  Again = TRUE
INVARIANTS TypeOK KeysKept
PROPERTIES NeverFalselyRevoked MarkerKept RenewalCompletes
CHECK_DEADLOCK FALSE
