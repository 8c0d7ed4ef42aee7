SPECIFICATION FairSpec
CONSTANTS
  Unit <- MCUnit
  DepLists <- MCDepLists
  RootLists <- MCRootLists
INVARIANTS
  DependenciesFirst
  Complete
PROPERTIES
  ImplementsSchedule
  Terminates
CHECK_DEADLOCK FALSE
