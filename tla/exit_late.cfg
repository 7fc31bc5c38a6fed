CONSTANTS
  MaxMessages = 1
  MaxSongs = 1
SPECIFICATION Spec
INVARIANTS
  UsedNotFreed
CHECK_DEADLOCK FALSE
