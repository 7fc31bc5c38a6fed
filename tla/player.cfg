CONSTANTS
  Songs = 2
  Pieces = 2
  MaxCalls = 2
  Null = Null
SPECIFICATION FairSpec
INVARIANTS
  TypeOK
  HeardInOrder
  QuietAfterStop
  WritesToOpenDevice
  StopNotStranded
PROPERTIES
  StopReturns
CHECK_DEADLOCK FALSE
