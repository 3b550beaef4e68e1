SPECIFICATION TransferSpec
CONSTANTS
  Chunk <- MCChunk
  Key <- MCKey
  NoObject = NoObject
  NoKey = NoKey
  Capacity = 1
  EventCapacity = 1
  MAX_CONCURRENCY = 1
  FaultPlans <- OneError
  MaxSessions = 1
INVARIANT NetworkErrorsAreHandled
