SPECIFICATION Spec
CONSTANTS
  alice = alice
  bob = bob
  a1 = a1
  a2 = a2
  b1 = b1
  User = {alice, bob}
  Conn = {a1}
  UserOf <- MCUserOf
  Room = {r1}
  None = None
  MaxFailures = 0
CHECK_DEADLOCK FALSE
INVARIANT
  RecordedOnce
