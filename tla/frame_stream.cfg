CONSTANTS
  Short = 1
  Base = 2
  Chunk = 3
  Opcodes <- Ping
  Lengths <- EachForm
  SendLens <- AcrossForms
  MaxSent = 2
  MaxControl = 1
  MaxParts = 3
SPECIFICATION Spec
INVARIANTS
  TypeOK
  EvenWhole
  InSync
  BoundaryKept
  RawFits
  SaidIsLen
