CONSTANTS
  Blocks = 2
  Image <- MCImage
  Factory <- Old
  Number <- MCNumber
  Data <- MCData
  Wanted <- Any
  Tries = 3
  Faults = {"request", "answer", "power"}
  MaxFaults = 3
SPECIFICATION FairSpec
INVARIANTS DoneMeansInstalled
PROPERTIES EndsUnlessAnswerLost
