CONSTANTS
  MaxMessages = 1
  MaxSongs = 1
SPECIFICATION FairSpec
CHECK_DEADLOCK FALSE
INVARIANTS
  TypeOK
  KeptForCallbacks
  FreedOnce
PROPERTIES
  ExitEnds
