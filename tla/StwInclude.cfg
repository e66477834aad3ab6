SPECIFICATION Spec
CONSTANTS
  SlotCount = 2
  InitialThreads = 2
  Program <- OneExternalCaller
  JoinTarget <- NoJoins
  WaitLimit = 64
  HeapMayFail = FALSE
  MaxCollections = 1
INVARIANTS
  WorldStopped
CHECK_DEADLOCK FALSE
