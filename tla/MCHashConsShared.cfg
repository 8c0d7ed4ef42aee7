SPECIFICATION Spec
CONSTANTS
  Ctx = {c1, c2}
  Atom = {x}
  FVar = {v}
  Cap = 2
  LocalCap = 1
INVARIANTS
  SharedAcrossContexts
