SPECIFICATION Spec
CONSTANTS
  Users = {u1, u2, u3}
  Founders = {u1}
  Invites = {i1, i2}
  Clerks = {c1, c2}
  Founding = Founding
  MaxSeats = 2
INVARIANTS TypeOK SeatsAreKept
PROPERTIES ErasureLeavesAnOwner InviteIsUsedOnce
CHECK_DEADLOCK FALSE
SYMMETRY Symmetry
