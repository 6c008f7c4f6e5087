SPECIFICATION ManifestSpec
CONSTANTS
  Functions <- MCFunctions
  Codes <- MCCodes
  Inlinings <- MCInlinings
  Levels = {1, 2}
  MaxStack = 3
INVARIANTS
  DepthsShortest
PROPERTIES
  ExitsCoverRuns
CHECK_DEADLOCK FALSE
