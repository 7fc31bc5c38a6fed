CONSTANTS
  c1 = c1
  c2 = c2
  Conn <- One
  NoConn = NoConn
  Modes <- Text
  Faults <- AllFaults
SPECIFICATION FairSpec
PROPERTIES
  CallsReturn
  PeerCloseNoticed
