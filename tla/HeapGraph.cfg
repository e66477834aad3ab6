SPECIFICATION Spec
CONSTANTS
  YGSize = 2
  MGSize = 5
  HeapInc = 1
  Limit = 6
  PermSize = 0
  RootCount = 2
  Objects = {a, b}
  Shapes <- Mixed
  NoObject = NoObject
  Forgotten = Forgotten
SYMMETRY Symmetry
PROPERTIES
  ImplementsObjectGraph
