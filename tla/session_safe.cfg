CONSTANTS
  c1 = c1
  c2 = c2
  Conn <- Two
  NoConn = NoConn
  Modes <- Live
  Faults <- Dropping
SPECIFICATION Spec
SYMMETRY SymTwo
INVARIANTS
  TypeOK
  QuietAfterDisconnect
  LoopOutlivesHandleOnlyIfRejected
  NoLeakNoDoubleFree
  ConnectedMeansAnswered
  SpeechXorResume
PROPERTIES
  LinkSpec
