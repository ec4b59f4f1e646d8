SPECIFICATION Spec
CONSTANTS
  Items = {i1}
  Workers = {w1}
  Clicks = {c1, c2}
  Rollbacks = {r1}
  None = None
  MaxFaults = 1
SYMMETRY Symmetry
INVARIANTS OneExecution ExecutedIsHidden HiddenIsAccounted 
CHECK_DEADLOCK FALSE
