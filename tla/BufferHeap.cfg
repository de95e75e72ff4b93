SPECIFICATION Spec
CONSTANTS
  Key = {0, 1, 2}
  SIZE = 6
  OPS = 3
  SLOTS = 4
INVARIANT
  ExactUntilTransfer
PROPERTIES
  LikeHeap
  CallsReturn
CHECK_DEADLOCK FALSE
