SPECIFICATION Spec
CONSTANTS
  alice = alice
  User = {alice}
  Conn = {a1, a2}
  UserOf <- MCUserOf
  Call = {k1}
  Match = {m1}
  Access <- MCAccess
  None = None
  Absent = Absent
  MaxEvents = 2
  MaxExpiries = 1
SYMMETRY MCSymmetry
CHECK_DEADLOCK FALSE
INVARIANTS NoGhost
