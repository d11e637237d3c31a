CONSTANTS
  Devices = {a, b}
  Hosts = {h}
  Nobody = nobody
  MaxStreams = 3
  MaxSessions = 2
  MaxTasks = 1
  MaxFaults = 1
  Faults = {"refuse","error","move","steal","stall"}
SYMMETRY Symmetry
SPECIFICATION Spec
INVARIANTS    FollowersWait 
CHECK_DEADLOCK FALSE
