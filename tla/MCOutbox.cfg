SPECIFICATION FairSpec
CONSTANTS
  r1 = r1
  r2 = r2
  w1 = w1
  w2 = w2
  Receipts = {r1, r2}
  Workers = {w1, w2}
  Poison = {r2}
  BatchSize = 1
  MaxAttempts = 2
  MaxFaults = 1
INVARIANTS CommittedIsStored OneCopy NoneForgotten
PROPERTY Settles
CHECK_DEADLOCK FALSE
