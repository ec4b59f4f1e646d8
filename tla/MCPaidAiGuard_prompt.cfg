SPECIFICATION GuardSpec
CONSTANTS
  Calls = {c1, c2, c3}
  MinuteTicks = 2
  RpmLimit = 2
  MaxConcurrency = 2
  FailureThreshold = 2
  Cooldown = 2
  Prompt = TRUE
  MaxTime = 5
INVARIANTS
  SlotsMatchCalls
  
