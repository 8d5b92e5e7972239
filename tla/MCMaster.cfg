CONSTANTS
  Blocks = 1
  Image <- MCImage
  Factory <- Old
  Number = {0, 1, 2}
  Data <- MCData
SPECIFICATION MasterSpec
INVARIANTS DeviceTypeOK AppIsWhole ValidIsWhole
