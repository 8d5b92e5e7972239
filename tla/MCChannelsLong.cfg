CONSTANTS
  LevelMax = 3
  PercentMax = 2
  Channel = {1}
  Settings <- MCSettings
  Wrap = 8
  StartTime = {0}
  Horizon = 12
SPECIFICATION ChannelsSpec
INVARIANTS QuietEnds
CHECK_DEADLOCK FALSE
