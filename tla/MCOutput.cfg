CONSTANTS
  MaxLevel = 1023
  Wrap = 1048576
  Kinds = {"triac", "leading", "trailing"}
  Profiles <- MCProfiles
  Writes <- MCWrites
  Moving = {0, 500, 1023}
SPECIFICATION FairSpec
INVARIANTS BrighterIsBrighter RootIsExact EqualDuty
PROPERTIES StaysInRange CrossShowsProfile
CHECK_DEADLOCK FALSE
