SPECIFICATION Spec
CONSTANTS
  SlotCount = 3
  InitialThreads = 3
  Program <- LoopingPermAllocators
  JoinTarget <- NoJoins
  WaitLimit = 64
  HeapMayFail = FALSE
  MaxCollections = 3
INVARIANTS
  ClaimIsCurrent
  OneCollector
  WorldStopped
  RootsPublished
  ListComplete
PROPERTIES
  ImplementsSafepoint
CHECK_DEADLOCK FALSE
