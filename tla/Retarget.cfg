SPECIFICATION RetargetSpec
CONSTANTS
  Inputs <- MCInputs
  Pieces <- MCPieces
  Codes <- MCCodes
  Capacity = 3
  NotYet = NotYet
  Buffers = {b1, b2}
  NoBuffer = NoBuffer
  MaxPieces = 2
INVARIANTS
  RunsAgree
PROPERTIES
  CallsReturn
  LinuxImplementsHost
  BareImplementsHost
CHECK_DEADLOCK FALSE
