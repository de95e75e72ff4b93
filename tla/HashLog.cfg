SPECIFICATION LogSpec
CONSTANTS
  hashtable_size = 2
  Text = {"s", "t"}
  LOGSIZE = 3
  STRIDE = 8
INVARIANTS
  LogTypeOK
  HomeOnly
  FlushedTextDurable
  LogExplainsTexts
PROPERTY
  EachTurnToggles
