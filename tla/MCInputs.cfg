CONSTANTS
  DI = 3
  QLen = 5
  Debounces = {0, 1, 2}
  Horizon = 4
SPECIFICATION Spec
INVARIANTS HeldAgrees
PROPERTIES NothingLost PressesAlternate
CHECK_DEADLOCK FALSE
