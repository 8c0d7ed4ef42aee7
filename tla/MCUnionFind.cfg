SPECIFICATION Spec
CONSTANT Elem = {e1, e2, e3, e4}
INVARIANTS
  Forest
  ForestIsPartition
  RankBound
PROPERTIES
  ImplementsEqCache
  CallReturns
