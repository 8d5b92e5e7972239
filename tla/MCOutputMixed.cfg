CONSTANTS
  MaxLevel = 1023
  Wrap = 1048576
  Kinds = {"triac"}
  Profiles <- MCWrites
  Writes <- MCWrites
  Moving = {0, 500, 1023}
SPECIFICATION FairSpec
PROPERTIES InOldOrNewRange
CHECK_DEADLOCK FALSE
