CONSTANTS
  NumTargets = 2
  BufferSize = 2
  InWindow <- MCInWindow
  OutWindow = 1
  MayWriteFirst = {1}
  MaxBytes <- MCMaxBytes
  MaxFailures = 1
SPECIFICATION FairSpec
CHECK_DEADLOCK FALSE
INVARIANTS
  ReadIsWritten
PROPERTIES
  StallLasts
  StreamsSpec
  SentIsDelivered
