CONSTANTS
  Channel = {1, 2}
  LevelMax = 2
  Settings <- MCSettings
  FullZone = "full"
  Repeats = TRUE
  Drift = 1
  Watchdog = 7
  Wrap = 16
  StartTime = 13
  Horizon = 17
SPECIFICATION Spec
INVARIANTS Between FadeIsDone
CHECK_DEADLOCK FALSE
