CONSTANTS
  MaxStreams = 2
  MaxReloads = 0
  OffWorkerEnds = TRUE
  Timeouts = TRUE
SPECIFICATION FairSpec

  
PROPERTIES
  
  ShutdownEndsAll
CHECK_DEADLOCK FALSE
