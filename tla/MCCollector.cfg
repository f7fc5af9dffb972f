SPECIFICATION Spec
CONSTANTS
  None = None
  NoSpan = NoSpan
  Turn = Turn
  Unkeyed = {}
  s1 = s1
  s2 = s2
  Sessions <- MCSessions
  Workers = {p1, p2}
  Scripts <- MCScripts
  SpoolLimit = 60
  Limits <- MCLimits
  MaxCheckouts = 1
  MaxPrices = 1
  MaxFaults = 1
INVARIANTS
  NothingLost
  ReplayInOrder
  NoOrphans
  
CHECK_DEADLOCK FALSE
