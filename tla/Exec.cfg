SPECIFICATION FairSpec
CONSTANTS
  Sigs <- Ints
  OwnCodes <- Codes
  MaxSignals = 2
INVARIANTS Confined ExitCodeFaithful NoOrphan
PROPERTIES SignalArrives ExecReturns
CHECK_DEADLOCK FALSE
