SPECIFICATION Spec
CONSTANTS
  Client = {c1}
  MaxRest = 1
  MaxChunks = 2
PROPERTIES
  SentWhole
CHECK_DEADLOCK FALSE
