SPECIFICATION LiveSpec
CONSTANTS
  User = {1, 2, 3}
  Region = {us, eu}
  Match = {m1, m2}
  Job = {j1, j2}
  Limit = 2
  WinScore = 3
  LoseScore <- MCLoseScore
CHECK_DEADLOCK FALSE
INVARIANTS
  DriftBounded
  ResultsCounted
PROPERTIES
  NeverBack
  Converges
