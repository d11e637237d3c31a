SPECIFICATION FairSpec
CONSTANTS
  Capacity = 2
  Chunk = 2
  Preroll = 2
  Header = 1
  FrameBytes = 2
  Limit = 6
  MaxGets = 2
  Budgets <- MCBudgets
INVARIANTS StaleTakesOneChunk EndsAtItsLength NoOldAudio NoLostSignal
PROPERTIES StallAnswered
CHECK_DEADLOCK FALSE
