SPECIFICATION FairSpec
CONSTANTS
  MaxTasks = 2
  MaxCallbacks = 3
  MaxLongs = 1
  MaxStalls = 1
  MaxRolls = 1
  MaxFails = 1
  MaxTicks = 2
  MaxTotal = 4
INVARIANTS NothingLeftOwed PausedIsSilent FlushDoneIsCovered OneLoadAtATime
PROPERTIES HeardOrEnded
CHECK_DEADLOCK FALSE
