SPECIFICATION FairSpec
CONSTANT MaxSessions = 2
INVARIANTS
  TypeOK
  OneDebugger
  StoppedIsHeld
PROPERTIES
  CommandAnswered
  StopAnswered
CHECK_DEADLOCK FALSE
