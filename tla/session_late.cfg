CONSTANTS
  c1 = c1
  c2 = c2
  Conn <- Two
  NoConn = NoConn
  Modes <- Text
  Faults <- TimeoutOnly
SPECIFICATION Spec
PROPERTY
  StartOkMeansStarted
