SPECIFICATION SpsSpec
CONSTANTS
  Location <- ThreeLocations
  Val = {v1, v2, v3}
  NULL = NULL
  SIZE = 5
  HashAddr <- HashInside
  BYTE = 4
  QMAX = 5
  TXMAX = 0
INVARIANTS
  NothingInvented
  SwapWithRoomIsExact
CHECK_DEADLOCK FALSE
