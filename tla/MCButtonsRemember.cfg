CONSTANTS
  LevelMax = 3
  PercentMax = 2
  Channel = {1}
  Settings <- NoNight
  Wrap = 64
  StartTime = {0}
  Horizon = 8
  BindingLists <- RockerAlone
  PressLimits <- Usual
  LoopTime = {1, 2}
  MaxWrites = 5
SPECIFICATION Spec
PROPERTIES RememberedIsManual
CHECK_DEADLOCK FALSE
