SPECIFICATION MCSpec
CONSTANTS
  c1 = c1
  c2 = c2
  c3 = c3
  Caller = {c1, c2, c3}
  NoCaller = NoCaller
  NoKey = NoKey
  Pid <- MCPid
  TTL = 2
  Retries = 2
  RetryDelay = 1
  MaxLockTime = 4
  Req = {r1, r2, r3}
  Name = {ann}
  Key = {"signup", "login"}
  Nil = Nil
  MaxRequests = 1
  Window = 2
  MaxTime = 3
  MaxFaults = 1
SYMMETRY MCSymmetry
CHECK_DEADLOCK FALSE
INVARIANTS LeaseExclusive LimitIsExact SignupIsAtomic RotationBounded
PROPERTIES OnlyLateTwinsRob ImplementsLeaseLock
