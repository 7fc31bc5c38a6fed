CONSTANTS
  Room = 1
  MaxSem = 1
  MaxTalks = 1
  Wakes = TRUE
  Commands = {"real", "file", "text", "q"}
SPECIFICATION FlowSpec
INVARIANTS
  TypeOK
  QuitReachesFinish
PROPERTIES
  AudioFlowsOrWakes
CHECK_DEADLOCK FALSE
