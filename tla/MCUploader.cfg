SPECIFICATION UploadFairSpec
CONSTANTS
  k1 = k1
  Chunk <- MCChunk
  Key <- OneKey
  NoObject = NoObject
  MAX_CONCURRENCY = 2
  Capacity = 1
INVARIANTS UploadTypeOK AnnouncedIsStored AnnouncedOnce CompletedIsLast
  BoundedConcurrency EveryChunkTried
PROPERTIES StartCompletes ShutdownStopsUploads ShutdownEnds
CHECK_DEADLOCK FALSE
