SPECIFICATION CacheSpec
CONSTANTS
  k1 = k1
  k2 = k2
  k3 = k3
  d1 = d1
  d2 = d2
  Keys <- MCKeys
  Decisions <- MCDecisions
  MaxSize = 2
  TTL = 2
  MaxTime = 5
INVARIANTS
  CacheTypeOK
  Bounded
PROPERTY KeepsContract
