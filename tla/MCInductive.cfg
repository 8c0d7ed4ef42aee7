CONSTANTS
  Environments <- MCEnvironments
  Blocks <- MCBlocks
  DeferFrom = 2
SPECIFICATION Spec
INVARIANTS
  AcceptsWellFormed
  RecursorsCompute
  EliminationSound
CHECK_DEADLOCK FALSE
