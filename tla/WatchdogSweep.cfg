SPECIFICATION FairSpec
CONSTANTS
  Mps = {m1}
  Starts = 1
  MaxReqs = 1
  MaxFaults = 0
PROPERTIES DeadSwept
CHECK_DEADLOCK FALSE
