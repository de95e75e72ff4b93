SPECIFICATION Spec
CONSTANTS
  Key = {0, 1, 2}
  T = 2
  SIZE = 9
  OPS = 1
  NULL = NULL
  UNINIT = UNINIT
  SLOTS = 5
INVARIANTS
  ShapeWhateverIsRead
  ExactUntilTransfer
  SearchIsRight
PROPERTIES
  BuildsLikeBTree
  InsertGoesDown
