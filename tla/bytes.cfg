SPECIFICATION Spec
CONSTANTS
  Buffers = {b1, b2}
  Blocks = {p1, p2, p3}
  Null = Null
  Byte <- MCByte
  Junk = Junk
  Pieces <- MCPieces
  DEFAULT_SIZE = 1
  GROW_FACTOR = 2
  MaxSize = 3
INVARIANTS Ownership Initialised
PROPERTY KeepsBytes
SYMMETRY Symmetry
CHECK_DEADLOCK FALSE
