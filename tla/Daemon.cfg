SPECIFICATION Spec
CONSTANTS
  Mps = {m1, m2}
  Starts = 2
  MaxReqs = 2
  MaxFaults = 1
INVARIANTS LiveRecorded StoppedStays
PROPERTIES NeverStacked
SYMMETRY Symmetry
CHECK_DEADLOCK FALSE
