SPECIFICATION FairSpec
CONSTANTS
  Capacity = 1
  TotalChunks = 1
PROPERTY WaitEndsWithConnection
CHECK_DEADLOCK FALSE
