SPECIFICATION TraceSpec
CONSTANTS
  Pcs = {body, write, window, end}
  Snapshots = {body, write}
  WritePc = write
  WindowPc = window
  TerminalPc = end
  Addresses = {a1}
  MaxInsns = 3
  MaxAccesses = 2
INVARIANTS
  TraceIsFaithful
  OnlyBrokenLinesRefused
CHECK_DEADLOCK FALSE
