SPECIFICATION Spec
CONSTANTS
  Users = {u1, u2}
  Founders = {u1, u2}
  Invites = {i1}
  Clerks = {c1, c2}
  Founding = Founding
  MaxSeats = 2
INVARIANT NeverOwnerless
CHECK_DEADLOCK FALSE
