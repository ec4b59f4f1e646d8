SPECIFICATION Spec
CONSTANTS
  Jobs = {j1, j2, r1}
  Refresh = {r1}
  Contents = {c1}
  MaxPeriod = 2
  BasicLimit = 1
  CallLimit = 1
  CostLimit = 3
  GlobalCallLimit = 2
  GlobalCostLimit = 5
  Est = 2
  Actuals = {1, 2}
  SlowCalls = FALSE
  MaxFaults = 1
INVARIANTS
  TypeOK
  TenantBooksBalance
  
  
