SPECIFICATION UploadSpec
CONSTANTS
  k1 = k1
  Chunk <- MCChunk
  Key <- OneKey
  NoObject = NoObject
  MAX_CONCURRENCY = 2
  Capacity = 1
INVARIANT AllUploaded
CHECK_DEADLOCK FALSE
