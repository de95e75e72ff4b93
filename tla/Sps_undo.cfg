SPECIFICATION Spec
CONSTANTS
  Entry = {e1, e2}
  Val = {v1, v2}
  NULL = NULL
  LINES = 2
  STRIDE = 8
  LOGSIZE = 3
INVARIANTS
  TypeOK
  FlushedLinesUndoable
  FlushedLinesDurable
CHECK_DEADLOCK FALSE
