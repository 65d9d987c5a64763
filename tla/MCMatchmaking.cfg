SPECIFICATION LiveSpec
CONSTANTS
  t1 = t1
  m1 = m1
  m2 = m2
  Players = 2
  Rating <- MCRatingApart
  Task = {t1}
  Matcher = {m1, m2}
  Nobody = Nobody
  NoEntry = NoEntry
  NoPair = NoPair
  RatingRange = 2
  RangeStep = 1
  KeyTTL = 1
  MaxTime = 1
  MaxJoins = 3
  MaxFaults = 1
INVARIANTS NoDoubleMatch NoLostEntry ScanComplete
PROPERTIES ImplementsMatchQueue Progress
CHECK_DEADLOCK FALSE
