SPECIFICATION FairSpec
CONSTANTS
  Runs = {r1}
  MaxKeys = 2
  MaxSeq = 1
  MaxLapses = 0
  MaxRenames = 0
  MaxDeaths = 0
  Again = FALSE
PROPERTY ClaimResumes
CHECK_DEADLOCK FALSE
