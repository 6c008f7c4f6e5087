SPECIFICATION StudySpec
CONSTANTS
  Runs <- MCRuns
  MAXIMUM_LENGTH = 4
  MAXIMUM_SLOTS = 3
  MAXIMUM_TEST_LENGTH = 2
  DAG_LENGTHS <- MCDagLengths
  leaf_budget = 3
  Trials = 1
  Inputs <- MCInputs
  CensusLengths <- MCLengths
  PrimedNames <- MCPrimed
  minimum_uses = 2
INVARIANTS
  MotifsExact
  SignificanceExact
  SchedulesExact
  RecoveryIsClosure
  ReadersAgree
  CoverIsDisjoint
PROPERTIES
  PlacesMost
CHECK_DEADLOCK FALSE
