CONSTANTS
  Channels = 3
  Slots = 3
  NoSaved = NoSaved
  Starts <- MCStarts
  Targets <- MCTargets
  Tries = 3
  Faults = {"request", "answer", "power", "flash"}
  MaxFaults = 3
SPECIFICATION FairSpec
INVARIANTS TypeOK VerifiedMeansInstalled BindingsAreWhole SavedIsWhole
PROPERTIES InOrderIsWritten
