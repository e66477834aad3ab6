SPECIFICATION Spec
CONSTANTS
  Main = Main
  a = a
  b = b
  inner = inner
  w1 = w1
  w2 = w2
  All = All
  Async = Async
  NoTask = NoTask
  NoValue = NoValue
  Threads <- MCThreads
  Jobs <- MCJobs
  Values <- PoolActions
  Scenarios <- WhenAll
INVARIANTS
  CompletedByOne
CHECK_DEADLOCK FALSE
