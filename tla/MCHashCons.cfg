SPECIFICATION Spec
CONSTANTS
  Ctx = {c1}
  Atom = {x, y}
  FVar = {v}
  Cap = 2
  LocalCap = 2
INVARIANTS
  NoShadow
  PointerEqualityIsTermEquality
PROPERTIES
  ImplementsInterner
