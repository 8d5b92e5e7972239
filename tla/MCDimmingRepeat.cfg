CONSTANTS
  Channel = {1}
  LevelMax = 2
  Settings <- MCSettings
  FullZone = "full"
  Repeats = TRUE
  Drift = 0
  Watchdog = 7
  Wrap = 16
  StartTime = 13
  Horizon = 20
SPECIFICATION Spec
INVARIANTS FadeTakesItsTime
CHECK_DEADLOCK FALSE
