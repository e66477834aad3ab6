SPECIFICATION FairSpec
CONSTANTS
  Main = Main
  a = a
  b = b
  inner = inner
  w1 = w1
  w2 = w2
  All = All
  Async = Async
  NoTask = NoTask
  NoValue = NoValue
  Threads <- MCThreads
  Jobs <- MCJobs
  Values <- PoolActions
  Scenarios <- Programs
INVARIANTS
  TypeOK
  PopFindsElement
  SignalledIsCompleted
  WaiterIsRemembered
  ContinuedOnce
  AllAfterAll
  AsyncInOrder
  CompletedByOwner
PROPERTIES
  ImplementsFifo
  WaitEnds
CHECK_DEADLOCK FALSE
