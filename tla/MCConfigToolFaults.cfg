CONSTANTS
  Channels = 3
  Slots = 3
  NoSaved = NoSaved
  Starts <- OnlyOld
  Targets <- OnlyNew
  Tries = 3
  Faults = {"flash", "power"}
  MaxFaults = 1
SPECIFICATION FairSpec
INVARIANTS SaveIsChecked OldOrNewSaved
