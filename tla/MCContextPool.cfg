CONSTANTS
  PoolSize = 3
  MaxSessions = 5
SPECIFICATION FairSpec
CHECK_DEADLOCK FALSE
INVARIANTS
  Balanced
  RunsUntilStopped
  AcceptChainUnbroken
  OneLateSession
PROPERTIES
  ShutdownEndsRun
