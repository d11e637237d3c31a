SPECIFICATION FairSpec
CONSTANTS
  Devices = {d1}
  Versions = {1, 2}
  Nobody = nobody
  RestartMax = 1
  MaxSightings = 2
  MaxSessions = 2
  MaxSteals = 1
  MaxFaults = 1
  Exits = TRUE
INVARIANTS OneWorkerThread
PROPERTIES TickKeepsSessions PresentIsAdvertised GoneIsWithdrawn
CHECK_DEADLOCK FALSE
