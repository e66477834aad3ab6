SPECIFICATION FairSpec
CONSTANTS
  SlotCount = 3
  InitialThreads = 3
  Program <- LoopingAllocators
  JoinTarget <- NoJoins
  WaitLimit = 64
  HeapMayFail = TRUE
  MaxCollections = 3
PROPERTIES
  ResumesUnlessStuck
  EndsUnlessStuck
CHECK_DEADLOCK FALSE
