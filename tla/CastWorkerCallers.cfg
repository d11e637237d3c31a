SPECIFICATION Spec
CONSTANTS
  MaxCalls = 2
  MaxMedia = 2
  MaxEnds = 1
  MaxThefts = 0
  MaxBreaks = 0
  MaxMoves = 1
 
INVARIANT StopIsFinal
CHECK_DEADLOCK FALSE
