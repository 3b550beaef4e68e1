SPECIFICATION Spec
CONSTANTS
  Precision = 6
  WordBits = 2
  Geometries <- MCGeometries
  Capacity = 1
  MaxSessions = 2
  NotJson = NotJson
  None = None
INVARIANTS TypeOK ChunksTileFile PendingIsExact RemainingIsClose
  PanicsOnlyOverTheFile
PROPERTIES RequestsInOrder ResponsesInOrder
CHECK_DEADLOCK FALSE
