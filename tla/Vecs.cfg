SPECIFICATION Spec
CONSTANTS
  VEC_SZ = 3
  ROUNDS = 3
  SLOTS = 15
INVARIANT SumIsRight
CHECK_DEADLOCK FALSE
