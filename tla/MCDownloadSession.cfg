SPECIFICATION Spec
CONSTANTS
  k1 = k1
  k2 = k2
  Chunk <- MCChunk
  Key <- MCKey
  NoObject = NoObject
  NoKey = NoKey
SYMMETRY KeySymmetry
INVARIANTS TypeOK FinalsIntact QuietSessionIsSaved
PROPERTIES SavedIsOnDisk ProgressIsKept IsResumableDownload
CHECK_DEADLOCK FALSE
