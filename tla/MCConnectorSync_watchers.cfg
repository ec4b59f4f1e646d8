SPECIFICATION FairSpec
CONSTANTS
  Runs = {r1}
  BeatingRuns = {r1}
  Disconnects = {d1}
  Reconnects = {c1}
  Monitors = {m1}
  NoHolder = NoHolder
  LeaseTtl = 1
  MaxItems = 1
 
PROPERTIES ImplementsFencedAccount LeaseIsFreed RunsEnd
CHECK_DEADLOCK FALSE
