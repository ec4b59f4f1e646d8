SPECIFICATION FairSpec
CONSTANTS
  Ttl = 24
  Interval = 6
  MaxFailures = 3
  MaxLatency = 2
  MaxStall = 1
INVARIANTS ExpiredMeansLost
PROPERTY LossIsNoticed
CHECK_DEADLOCK FALSE
