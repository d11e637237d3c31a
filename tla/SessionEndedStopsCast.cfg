CONSTANTS
  MaxStreams = 2
  MaxReloads = 0
  OffWorkerEnds = FALSE
  Timeouts = FALSE
SPECIFICATION Spec
INVARIANTS
  EndedStopsCast
CHECK_DEADLOCK FALSE
