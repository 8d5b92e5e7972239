CONSTANTS
  Blocks = 2
  Image <- MCImage
  Factory <- Old
  Number <- MCNumber
  Data <- MCData
  Wanted <- OnlyAlien
  Tries = 3
  Faults = {"power"}
  MaxFaults = 1
SPECIFICATION Spec
INVARIANTS AppIsOurs
