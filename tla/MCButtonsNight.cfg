CONSTANTS
  LevelMax = 3
  PercentMax = 2
  Channel = {1}
  Settings <- OnlyNight
  Wrap = 64
  StartTime = {0}
  Horizon = 10
  BindingLists <- RockerAlone
  PressLimits <- Usual
  LoopTime = {1, 2}
  MaxWrites = 1
SPECIFICATION Spec
PROPERTIES OffRemembers
CHECK_DEADLOCK FALSE
