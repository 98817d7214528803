SPECIFICATION MCSpec
CONSTANTS
  SectorSize = 3
  Hole <- MCHole
  Tables <- MCTables
  Offsets = {0, 1, 2, 3, 5, 7, 9, 11, 13}
  Lengths = {0, 1, 2, 3, 4, 6, 9, 14}
  CacheSize = 3
  Half = 32
  Sectors = {0, 1, 2, 3, 4, 5, 7}
  Counts = {0, 1, 2, 3, 4}
  RawSize = 8
  UserSize = 6
  HeaderSize = 1
  UserSectors = {0, 1, 3}
  UserCounts = {0, 1, 2, 4, 7, 8, 9}
INVARIANTS
  ReadCorrect
  RawReadCorrect
  NoWildCopy
  UserDataCorrect
PROPERTIES
  CallReturns
\* After HitInvalid, which may overwrite memory, CdCache says nothing more.
CHECK_DEADLOCK FALSE
