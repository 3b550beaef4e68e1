SPECIFICATION UploadSpec
CONSTANTS
  k1 = k1
  Chunk <- LargeChunk
  Key <- OneKey
  NoObject = NoObject
  MAX_CONCURRENCY = 2
  Capacity = 100
INVARIANT StorageBounded
CONSTRAINT SmoothUpload
CHECK_DEADLOCK FALSE
