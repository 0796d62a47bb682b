CONSTANTS
  PoolSize = 2
  MaxSessions = 3
SPECIFICATION FairSpec
CHECK_DEADLOCK FALSE
INVARIANTS
  CountIsOpen
  RacesNeedFailedConnect
PROPERTIES
  LivesSpec
  ClientsAreAccepted
  DataIsRelayed
