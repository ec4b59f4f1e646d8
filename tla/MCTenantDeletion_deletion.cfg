SPECIFICATION Spec
CONSTANTS
  Requests = {q1, q2}
  Resumers = {w1}
  Accounts = {a1}
  Logins = {l1}
  Hooks = {h1}
  None = None
  MaxFaults = 2
INVARIANTS ReceiptIsTrue  SessionsEnd NothingSurvives
PROPERTIES DeletionCompletes
CHECK_DEADLOCK FALSE
