SPECIFICATION Spec
CONSTANTS
  YGSize = 1
  MGSize = 3
  HeapInc = 2
  Limit = 5
  PermSize = 1
  RootCount = 2
  Objects = {a, b}
  Shapes <- Mixed
  NoObject = NoObject
  Forgotten = Forgotten
SYMMETRY Symmetry
INVARIANTS
  TypeOK
  LiveObjectsInPlace
  CardsComplete
  HeapInv
