CONSTANTS
  MaxStreams = 3
  MaxReloads = 1
  OffWorkerEnds = FALSE
  Timeouts = FALSE
SPECIFICATION Spec
INVARIANTS
  OneHolder
  
  SettledOnCurrentStream
  

  
CHECK_DEADLOCK FALSE
