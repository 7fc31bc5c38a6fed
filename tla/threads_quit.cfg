CONSTANTS
  Room = 1
  MaxSem = 1
  MaxTalks = 0
  Wakes = FALSE
  Commands = {"q"}
SPECIFICATION FairSpec
PROPERTIES
  QuitEnds
CHECK_DEADLOCK FALSE
