SPECIFICATION XferSpec
CONSTANTS
  Location = {0, 1}
  Val = {v1, v2}
  NULL = NULL
  WORDS = 2
  SIZE = 2
  HashAddr <- HashInside
  BYTE = 4
  QMAX = 2
  TXMAX = 1
INVARIANTS
  NoUndefined
  CrashFindsBatchEnds
  TransferCanRestart
PROPERTIES
  ImplementsBuffer
  TransferReturns
CHECK_DEADLOCK FALSE
