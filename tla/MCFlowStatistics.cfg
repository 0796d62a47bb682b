CONSTANTS
  Workers = {w1, w2, w3}
  MaxPackets = 3
SPECIFICATION FairSpec
INVARIANTS
  PacketsConserved
PROPERTIES
  ReportsSpec
  CountedIsReported
  CountingReturns
