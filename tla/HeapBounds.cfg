SPECIFICATION Spec
CONSTANTS
  YGSize = 2
  MGSize = 6
  HeapInc = 2
  Limit = 8
  PermSize = 0
  RootCount = 2
  Objects = {a, b}
  Shapes <- Small
  NoObject = NoObject
  Forgotten = Forgotten
SYMMETRY Symmetry
INVARIANTS
  MatureInBounds
