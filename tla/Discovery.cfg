SPECIFICATION FairSpec
CONSTANTS
  Devices = {d1, d2}
  MaxVersion = 2
  MaxChanges = 4
  MaxRestarts = 1
  MaxFails = 1
  Grace = 1
  Ttl = 2
INVARIANTS SettledIsTrue
PROPERTIES GoneLeaves RegistryPromise
CHECK_DEADLOCK FALSE
