SPECIFICATION FairSpec
CONSTANTS
  Chunk <- MCChunk
  Key <- MCKey
  NoObject = NoObject
  NoKey = NoKey
  Capacity = 1
  EventCapacity = 1
  MAX_CONCURRENCY = 2
  FaultPlans <- TwoFaultsOrACut
  MaxSessions = 4
INVARIANTS TransferTypeOK NoChunkLost AnnouncedIsFetchable
  PanicOnlyAfterFailedUpload
PROPERTY Delivered
