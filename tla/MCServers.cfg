SPECIFICATION MCSpec
CONSTANTS
  Process = {p1, p2, p3}
  N = 3
  Free = Free
  Gone = Gone
  MaxFaults = 2
  alice = alice
  bob = bob
  a1 = a1
  a2 = a2
  b1 = b1
  User = {alice, bob}
  Conn = {a1, a2, b1}
  UserOf <- MCUserOf
  None = None
  MaxFailures = 1
  MaxNews = 1
CHECK_DEADLOCK FALSE
INVARIANTS OneMigrates RecordedIsApplied ServesMigrated RunsExplained MetricsExplained
PROPERTIES AllServe OnlySilentCut SilentIsCut
