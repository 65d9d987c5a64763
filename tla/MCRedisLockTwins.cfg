SPECIFICATION LockSpec
CONSTANTS
  Caller = {c1, c2}
  NoCaller = NoCaller
  NoKey = NoKey
  Pid <- MCPid
  TTL = 2
  Retries = 3
  RetryDelay = 1
  MaxLockTime = 4
PROPERTY ReleaseOnlyOwn
CHECK_DEADLOCK FALSE
