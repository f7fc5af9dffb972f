SPECIFICATION VSpec
CONSTANTS
  t1 = t1
  t2 = t2
  w1 = w1
  w2 = w2
  v1 = v1
  v2 = v2
  a = a
  b = b
  c = c
  None = None
  GenesisHash = GenesisHash
  Tenants = {t1}
  Writers = {w1}
  Verifiers = {v1}
  EventIDs = {a, b, c}
  Times <- MCTimes
  Data <- MCData
  ValidData <- MCData
  Redact <- MCRedact
  Batches <- MCBatches
  MaxSeq = 3
  Windows <- MCWindows
  Modes = {"first", "deep", "one"}
  PageSize = 2
  PoolSize = 2
  MaxTampers = 1
INVARIANTS ReportsAreExact WalkIsComplete TamperIsReported
VIEW MCView
