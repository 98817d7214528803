SPECIFICATION Spec
CONSTANTS
  Slots = {1, 2, 3}
  a = a
  b = b
  Names = {a, b, c}
  Unconvertible = {c}
  LateFailure = TRUE
  NoMemory = TRUE
  Inodes = {i1}
  None = None
  x = x
  y = y
  Buffers <- MCBuffers
  Zero = x
  MaxLen = 2
  SizeMod = 8
  MaxMounts = 2
INVARIANTS
  UnmountClosesFiles
  ListsMatch
PROPERTIES
  RenameLosesOnlyThen
  WriteWhole
  ReadCorrect
SYMMETRY NameSymmetry
CHECK_DEADLOCK FALSE
