CONSTANTS
  Gap = 2
  RxSize = 4
  Frame = 3
  Burst = 6
  Port = {"fast", "slow"}
  AnswerTime <- Times
  BootDelay = 4
  Stall = 2
  Pause = 5
  Timeout = 9
  Tries = 3
  Kinds = {"read", "save", "reload", "port", "boot"}
  MaxFaults = 2
SPECIFICATION FairSpec
INVARIANT NeverCollides
PROPERTY BootIsAnswered
