SPECIFICATION Spec
CONSTANTS
  Param <- MCParam
  Pairs <- MCPairs
  Deep <- MCDeep
  Leaf <- MCLeaf
  MaxValue = 4
  Height = 5
  Depth = 20
INVARIANTS
  TypeOK
  LeqSound
  TestsExact
  SubstitutionKeepsMeaning
CHECK_DEADLOCK FALSE
