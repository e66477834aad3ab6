SPECIFICATION Spec
CONSTANTS
  SlotCount = 3
  InitialThreads = 1
  Program <- OneCollectorServices
  JoinTarget <- NoJoins
  WaitLimit = 64
  HeapMayFail = FALSE
  MaxCollections = 2
INVARIANTS
  TypeOK
  LockDiscipline
  SlotTable
  ScanInTable
CHECK_DEADLOCK FALSE
