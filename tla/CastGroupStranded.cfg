CONSTANTS
  Devices = {a, b}
  Hosts = {h}
  Nobody = nobody
  MaxStreams = 3
  MaxSessions = 2
  MaxTasks = 1
  MaxFaults = 0
  Faults = {}
SPECIFICATION Spec
INVARIANT FollowersFed
CHECK_DEADLOCK FALSE
