SPECIFICATION FairSpec
CONSTANTS
  Key = {0, 1, 2}
  SIZE = 7
  OPS = 3
INVARIANTS
  TypeOK
  HeapWhileBuilding
  KeptWhileBuilding
PROPERTY
  CallsReturn
CHECK_DEADLOCK FALSE
