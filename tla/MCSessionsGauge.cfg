SPECIFICATION Spec
CONSTANTS
  alice = alice
  User = {alice}
  Conn = {a1, a2}
  UserOf <- MCUserOf
  Call = {k1}
  Match = {m1}
  Access <- MCAccess
  None = None
  Absent = Absent
  MaxEvents = 0
  MaxExpiries = 0
SYMMETRY MCSymmetry
CHECK_DEADLOCK FALSE
INVARIANT GaugeExact
