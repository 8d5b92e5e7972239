CONSTANTS
  DI = 9
  QLen = 16
  Debounces = {0}
  Horizon = 0
SPECIFICATION Spec
INVARIANT NeverDisagree
CHECK_DEADLOCK FALSE
