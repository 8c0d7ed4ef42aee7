SPECIFICATION Spec
CONSTANTS
  Name <- MCName
  Envs <- QuotEnvs
  Selections <- OnlyQuot
INVARIANT SelectionIsEnough
CHECK_DEADLOCK FALSE
