SPECIFICATION Spec
CONSTANTS
  Runs = {r1, r2}
  BeatingRuns = {r1}
  Disconnects = {d1}
  Reconnects = {c1}
  Monitors = {}
  NoHolder = NoHolder
  LeaseTtl = 0
  MaxItems = 0
INVARIANTS TypeOK NewestHolderOnRow
PROPERTIES WritesInGenerationOrder NoWriteAfterDisconnect OnlyReconnectRevives
CHECK_DEADLOCK FALSE
