SPECIFICATION FairSpec
CONSTANTS
  None = None
  NoSpan = NoSpan
  Turn = Turn
  Unkeyed = {}
  s1 = s1
  s2 = s2
  Sessions <- MCSessions
  Workers = {p1, p2}
  Scripts <- MCStarts
  SpoolLimit = 60
  Limits <- MCLimits
  MaxCheckouts = 1
  MaxPrices = 0
  MaxFaults = 1
PROPERTY
  HeldByItself
CHECK_DEADLOCK FALSE
