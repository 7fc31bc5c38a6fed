CONSTANTS
  MaxItems = 2
  MaxTalks = 3
  PlayThreads = {p1, p2}
  NoThread = NoThread
SPECIFICATION Spec
SYMMETRY Symmetry
INVARIANTS
  TypeOK
  
  EndFollowsSong
  StopSticks
PROPERTIES
  ResumesPaused
CHECK_DEADLOCK FALSE
