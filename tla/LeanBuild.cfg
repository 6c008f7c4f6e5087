SPECIFICATION FairLeanSpec
CONSTANTS
  Modules <- MCModules
  Others <- MCOthers
  NoModule = NoModule
  Trees <- MCTrees
  Jobs = 2
  DependencyMaps <- NoDependencies
INVARIANTS
  NoOrphans
  CycleIsReal
  DependenciesExact
  TransitiveImportsBuilt
PROPERTIES
  LeanImplementsDagBuild
  BuildEnds
  StopReachesEveryone
  CanceledLeavesNoTrace
CHECK_DEADLOCK FALSE
