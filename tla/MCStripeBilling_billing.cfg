SPECIFICATION Spec
CONSTANTS
  Requests = {r1, r2}
  Handlers = {h1, h2}
  Plans = {p1, bad}
  BadPlans = {bad}
  NoCustomer = NoCustomer
  MaxSecond = 2
  MaxChanges = 1
  Prompt = TRUE
INVARIANTS QuiescentRowIsTrue CancelledStaysCancelled PayingIsNotRestricted 
CHECK_DEADLOCK FALSE
SYMMETRY Symmetry
