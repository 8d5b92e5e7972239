CONSTANTS
  Channel = {1}
  LevelMax = 1
  Settings <- MCSettings
  FullZone = "full"
  Repeats = FALSE
  Drift = 0
  Watchdog = 7
  Wrap = 16
  StartTime = 13
  Horizon = 15
SPECIFICATION Spec
INVARIANTS ProfileInForce
CHECK_DEADLOCK FALSE
