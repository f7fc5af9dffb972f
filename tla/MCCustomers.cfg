SPECIFICATION CustomersSpec
CONSTANTS
  NoOne = NoOne
  Callers = {c1, c2}
  Parts = {"accounts", "tabs", "billing", "grants", "quota", "alerts", "rate"}
  Servers = {s1}
  Orgs = {o1}
  TenantIDs = {t1, t2}
  KeyIDs = {k1, k2, k3}
  SpareKeys = {k2, k3}
  Deliveries = {d1}
  CacheTTL = 1
  ReplicaLag = 1
  MaxTime = 2
  MaxLost = 1
  Objects = {x1}
  MaxMonth = 1
  MaxGrants = 1
  MonthlyLimit = 3
  MaxBatch = 2
  MaxEvents = 6
  LastMonth = 1
  Buckets = {b1, b2, b3}
  Burst = 2
  Rate = 1
  MaxCost = 2
  IdleTTL = 2
  LastSecond = 5
  MaxErrors = 1
SYMMETRY MCSymmetry
CHECK_DEADLOCK FALSE
INVARIANTS RevokedStops OnceOnly NoFreeUpgrade QuotaHolds RateBounded
