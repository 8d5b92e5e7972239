CONSTANTS
  LevelMax = 3
  PercentMax = 2
  Channel = {1, 2}
  Settings <- MCSettings
  Wrap = 16
  StartTime = {13}
  Horizon = 17
SPECIFICATION ChannelsSpec
INVARIANTS ChannelsTypeOK PercentMatchesLevel ManualWins
INVARIANTS QuietIsKept QuietEnds
PROPERTIES LastIsManual
CHECK_DEADLOCK FALSE
