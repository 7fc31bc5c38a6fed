CONSTANTS
  Capacity = 4
  Byte = {0, 1}
  Zero = 0
  MaxLen = 4
SPECIFICATION Spec
INVARIANTS
  TypeOK
  PositionsAgree
PROPERTIES
  FifoSpec
