SPECIFICATION FairSpec
CONSTANTS
  MaxCalls = 1
  MaxMedia = 2
  MaxEnds = 1
  MaxThefts = 1
  MaxBreaks = 1
  MaxMoves = 0
PROPERTIES LossNeedsTwoLooks StealNoticed
CHECK_DEADLOCK FALSE
