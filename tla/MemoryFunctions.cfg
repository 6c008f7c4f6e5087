SPECIFICATION MemSpec
CONSTANTS
  Size = 5
  ByteSize = 3
  Fills <- MCFills
INVARIANTS
  CopyExact
  SetExact
  CompareExact
CHECK_DEADLOCK FALSE
