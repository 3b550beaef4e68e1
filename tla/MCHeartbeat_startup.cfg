SPECIFICATION Spec
CONSTANTS
  Second = 2
  MaxDelay = 4
  MaxStartup = 18
  Window = 3
  Capacity = 1
INVARIANT StartupIsAwaited
CHECK_DEADLOCK FALSE
