SPECIFICATION Spec
CONSTANTS
  Second = 2
  MaxDelay = 4
  MaxStartup = 4
  Window = 3
  Capacity = 1
INVARIANTS TypeOK NoFalseAlarm SilenceIsNoticed
CHECK_DEADLOCK FALSE
