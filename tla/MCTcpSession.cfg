CONSTANTS
  NumTargets = 2
  MaxWaits = 2
SPECIFICATION FairSpec
CHECK_DEADLOCK FALSE
INVARIANTS
  OpenSessionIsHeld
  BufferHasOneUser
  RelayOnlyWhileOpen
  CountExact
  RacesNeedTwoThreads
  ClosedReleasesAll
PROPERTIES
  LifeSpec
  SilentClientIsDropped
  ClosedSessionIsFreed
