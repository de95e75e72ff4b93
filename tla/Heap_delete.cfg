SPECIFICATION Spec
CONSTANTS
  Key = {0, 1, 2}
  SIZE = 5
  OPS = 3
INVARIANT
  MinAtTop
CHECK_DEADLOCK FALSE
