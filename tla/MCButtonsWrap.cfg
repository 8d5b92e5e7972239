CONSTANTS
  LevelMax = 3
  PercentMax = 2
  Channel = {1}
  Settings <- NoNight
  Wrap = 16
  StartTime = {9}
  Horizon = 18
  BindingLists <- RockerSlow
  PressLimits <- Usual
  LoopTime = {1}
  MaxWrites = 1
SPECIFICATION Spec
PROPERTIES RampIsPaced
CHECK_DEADLOCK FALSE
