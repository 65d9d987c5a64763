SPECIFICATION LiveSpec
CONSTANTS
  p1 = p1
  p2 = p2
  Player = {p1, p2}
  Rank <- MCRank
  ArenaSize = 3
  AttackRange = 1
  MaxMoveSpeed = 1
  FullHealth = 3
  AttackDamage = 2
  KillBonus = 2
  AttackCooldown = 2
  EventScore = 1
  MaxTick = 7
  Delta <- MCDelta
  Points <- MCPoints
  Text = Text
  MaxClaims = 2
CHECK_DEADLOCK FALSE
INVARIANTS
  DamageRate
  Survivor
  BlowsScored
  ResultUnlessEven
PROPERTIES
  MatchEnds
