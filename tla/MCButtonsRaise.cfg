CONSTANTS
  LevelMax = 3
  PercentMax = 2
  Channel = {1}
  Settings <- NoNight
  Wrap = 64
  StartTime = {0}
  Horizon = 8
  BindingLists <- RockerAlone
  PressLimits <- Raised
  LoopTime = {1, 2}
  MaxWrites = 1
SPECIFICATION Spec
PROPERTIES DimmedNeverToggles
CHECK_DEADLOCK FALSE
