SPECIFICATION FairSpec
CONSTANTS
  t1 = t1
  t2 = t2
  w1 = w1
  w2 = w2
  a = a
  b = b
  c = c
  None = None
  GenesisHash = GenesisHash
  Tenants = {t1, t2}
  Writers = {w1, w2}
  EventIDs = {a, b, c}
  Times <- MCTimes
  Data <- MCData
  ValidData <- MCValidData
  Redact <- MCRedact
  Batches <- MCBatches
  MaxSeq = 5
INVARIANTS TypeOK ChainIntact StoredOnce AckedIsStored SliceOrder
PROPERTIES RefinesChainedLog CallsReturn
