SPECIFICATION Spec
CONSTANTS
  PatternSets <- MCPatternSets
  MaxLen = 7
  Requests <- MCRequests
  ChunkSize = 4
  CarryLen = 3
  MaxBuffer = 5
INVARIANTS SamePlaces BufferedExact ReadsMaskAll  BacklogBounded
CHECK_DEADLOCK FALSE
