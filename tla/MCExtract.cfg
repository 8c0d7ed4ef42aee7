SPECIFICATION FairSpec
CONSTANTS
  Name <- MCName
  Envs <- MCEnvs
  Selections <- MCSelections
INVARIANTS
  SubmitsWhatIsNeeded
  BlocksInPlace
  PassMeansChecked
  BlameIsExact
PROPERTY Ends
CHECK_DEADLOCK FALSE
