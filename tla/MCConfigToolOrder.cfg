CONSTANTS
  Channels = 3
  Slots = 3
  NoSaved = NoSaved
  Starts <- OnlyOld
  Targets <- OnlyHigh
  Tries = 3
  Faults = {}
  MaxFaults = 0
SPECIFICATION FairSpec
PROPERTY ValidIsWritten
