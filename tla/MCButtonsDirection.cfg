CONSTANTS
  LevelMax = 3
  PercentMax = 2
  Channel = {1}
  Settings <- NoNight
  Wrap = 64
  StartTime = {0}
  Horizon = 10
  BindingLists <- RockerAlone
  PressLimits <- Usual
  LoopTime = {1, 2}
  MaxWrites = 2
SPECIFICATION Spec
PROPERTIES RockerDirection
CHECK_DEADLOCK FALSE
