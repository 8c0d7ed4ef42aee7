SPECIFICATION FairSpec
CONSTANTS
  NumDeclars = 4
  NumThreads = 3
INVARIANTS
  EachInOnePlace
  OthersAreChecked
  NothingLeftRunning
PROPERTIES
  ImplementsVerdict
  Ends
CHECK_DEADLOCK FALSE
