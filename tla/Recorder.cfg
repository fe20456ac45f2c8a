SPECIFICATION FairSpec
CONSTANTS
  Handlers = {h1, h2}
  ChanCap = 2
  BatchMax = 2
  MaxEvents = 5
  MaxTicks = 2
INVARIANTS TypeOK PanicOnlyAfterGiveUp SessionCounts
PROPERTIES ImplementsLog StopReturns
CHECK_DEADLOCK FALSE
