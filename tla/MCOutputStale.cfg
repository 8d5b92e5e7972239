CONSTANTS
  MaxLevel = 1023
  Wrap = 1048576
  Kinds = {"leading"}
  Profiles <- MCWrites
  Writes <- MCWrites
  Moving = {0, 500, 1023}
SPECIFICATION FairSpec
PROPERTIES ProfileIsShown
CHECK_DEADLOCK FALSE
