CONSTANT MaxWaits = 3
SPECIFICATION FairSpec
CHECK_DEADLOCK FALSE
INVARIANTS
  HandlersFindSession
  ClientsAreHeard
  TargetsAreHeard
  ClosedIsQuiet
PROPERTIES
  SilentSessionCloses
