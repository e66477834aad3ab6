SPECIFICATION Spec
CONSTANTS
  Capacity = 9
  PosSize = 1
  CharSize = 1
  Letters = {a, b}
  MaxText = 2
  Misfit = Misfit
INVARIANTS
  TypeOK
  CapacityKept
  OneOpenRecord
PROPERTIES
  ImplementsHistory
