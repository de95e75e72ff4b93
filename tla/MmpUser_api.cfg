SPECIFICATION Spec
CONSTANTS
  Location <- TwoLocations
  Val = {v1, v2}
  NULL = NULL
  SIZE = 2
  HashAddr <- HashBeyond
  BYTE = 4
  QMAX = 3
  TXMAX = 1
INVARIANTS
  TypeOK
  IndexIsNewest
  NoLostWrite
  ReadExactOrBelow
PROPERTIES
  NvmStepsToSnapshot
  ImplementsPersistentMemory
CHECK_DEADLOCK FALSE
