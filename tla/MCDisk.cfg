SPECIFICATION MCSpec
CONSTANTS
  Start = 1
  End = 4
  PerPage = 2
  NumPages = 1
  Data = {0, 1}
  Lost = Lost
  Calls <- MCCalls
  Stray = 6
  MaxPartitions = 4
  Drives <- MCDrives
INVARIANTS
  PartitionsFound
PROPERTIES
  ImplementsVolume
  CallReturns
  SearchEnds
CHECK_DEADLOCK FALSE
