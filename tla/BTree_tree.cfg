SPECIFICATION FairSpec
CONSTANTS
  Key <- FourKeys
  T = 2
  SIZE = 9
  OPS = 1
  NULL = NULL
  UNINIT = UNINIT
INVARIANTS
  TypeOK
  WellFormed
  Ordered
  RoomAndPlace
  ContentsKept
  PresentIsFound
PROPERTY
  InsertReturns
CHECK_DEADLOCK FALSE
