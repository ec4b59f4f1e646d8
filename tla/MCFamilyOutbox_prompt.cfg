SPECIFICATION Spec
CONSTANTS
  Events = {e1, e2}
  Critical = {}
  Expiring = {e2}
  Workers = {w1, w2, m1}
  Manual = {m1}
  MaxAttempts = 2
  ReadinessMax = 3
  BatchSize = 2
  SlowWorkers = FALSE
  MaxFaults = 1
  NoEvent = NoEvent
  NoWorker = NoWorker
INVARIANTS
  DisjointClaims
PROPERTIES
  TerminalIsFinal
