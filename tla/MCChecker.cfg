CONSTANTS
  Environment <- MCEnvironment
  Terms <- MCTerms
  Pairs <- MCPairs
  Candidates <- MCCandidates
  Walks <- MCWalks
  First <- MCFirst
  DeferFrom = 2
  MaxAsked = 2
SPECIFICATION Spec
INVARIANTS
  ChecksTyping
  ComparesRight
  ReducesRight
  AcceptsGood
  NothingLeftOpen
  WalksRight
CHECK_DEADLOCK FALSE
