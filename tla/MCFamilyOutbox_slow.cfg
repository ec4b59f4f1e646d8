SPECIFICATION FairSpec
CONSTANTS
  Events = {e1}
  Critical = {e1}
  Expiring = {}
  Workers = {w1, w2}
  Manual = {}
  MaxAttempts = 2
  ReadinessMax = 2
  BatchSize = 1
  SlowWorkers = TRUE
  MaxFaults = 1
  NoEvent = NoEvent
  NoWorker = NoWorker
INVARIANTS
  DeliveredMeansSent
  ReadinessWindowIsKept
PROPERTIES
  LeaseOutlivesPredecessor
  EventsSettle
