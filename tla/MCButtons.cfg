CONSTANTS
  LevelMax = 3
  PercentMax = 2
  Channel = {1, 2}
  Settings <- NightOnOne
  Wrap = 64
  StartTime = {0}
  Horizon = 8
  BindingLists <- MCLists
  PressLimits <- Raised
  LoopTime = {1, 2}
  MaxWrites = 1
SPECIFICATION Spec
INVARIANTS RampNeedsPress
PROPERTIES RampAfterLong RampedPressNeverToggles RampKeepsLight RampIsPaced
CHECK_DEADLOCK FALSE
