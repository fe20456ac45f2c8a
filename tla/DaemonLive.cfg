SPECIFICATION FairSpec
CONSTANTS
  Mps = {m1}
  Starts = 2
  MaxReqs = 2
  MaxFaults = 0
PROPERTIES UmountReturns
CHECK_DEADLOCK FALSE
