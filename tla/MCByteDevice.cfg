SPECIFICATION Spec
CONSTANTS
  SectorSize = 2
  SectorCount = 2
  Byte = {0, 1}
  Unknown = Unknown
  MaxCount = 3
INVARIANTS
  ReadExact
  WriteExact
  SyncHonest
