SPECIFICATION Spec
CONSTANTS
  Key <- ThreeKeys
  T = 2
  SIZE = 3
  OPS = 1
  NULL = NULL
  UNINIT = UNINIT
INVARIANT
  AbsentIsNotFound
CHECK_DEADLOCK FALSE
