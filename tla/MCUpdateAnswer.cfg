CONSTANTS
  Blocks = 2
  Image <- MCImage
  Factory <- Old
  Number <- MCNumber
  Data <- MCData
  Wanted <- OnlyNew
  Tries = 3
  Faults = {"answer"}
  MaxFaults = 1
SPECIFICATION FairSpec
PROPERTIES EventuallyDone
