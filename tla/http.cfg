CONSTANTS
  BufSize = 10
  Callers = {"thread", "loop", "once"}
  LineWidths = {1, 2, 5}
  Counted = {0, 1, 9}
  HeaderRests = {0, 6}
  ChunkLists <- MCChunkLists
  Streams <- MCStreams
SPECIFICATION Spec
INVARIANTS
  TypeOK
  PassedInOrder
  OverMeansWhole
  NothingStuck
CHECK_DEADLOCK FALSE
