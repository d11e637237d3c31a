SPECIFICATION FairSpec
CONSTANTS
  Levels = {1, 2, 3}
  Members = {m1, m2}
  Nothing = nothing
  MaxInputs = 3
  MaxLates = 1
  MaxFails = 1
INVARIANTS  NoVolumeLoop TurnReachesSender TapReachesSender LastSlideApplied
PROPERTIES ComesToRest
CHECK_DEADLOCK FALSE
