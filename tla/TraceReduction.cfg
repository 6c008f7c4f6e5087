SPECIFICATION EvidenceSpec
CONSTANTS
  Pcs <- MCPcs
  Writers <- MCWriters
  Instances <- MCInstances
  SnapshotPcs <- MCSnapshotPcs
  MaxLength = 5
  MaxIncomplete = 1
  Decode = 1
  WriteSuccess = 3
  WriteFailure = 4
  CapturePcs <- MCCapturePcs
  Slots = {0, 1}
INVARIANTS
  VisitsAreRight
  WritesAccounted
  DecodeRunIsMeasured
CHECK_DEADLOCK FALSE
