SPECIFICATION ServiceSpec
CONSTANTS
  c1 = c1
  c2 = c2
  b1 = b1
  b2 = b2
  a1 = a1
  a2 = a2
  NoOne = NoOne
  Backend = "memory"
  Products <- MCProducts
  Customers <- MCCustomers
  ContractPrices = {}
  InitialPromotions <- OnePromotion
  InitialConfig <- MCConfig
  Requests <- OneRequest
  Configs = {}
  Postings = {}
  CacheSize = 2
  CacheTTL = 1
  DayLength = 2
  HalfWord = 536870912
  FirstUuid = 10
  LastUuid = 11
  MaxTime = 0
  MaxChanges = 2
  MaxFaults = 0
  Quoters = {c1}
  Batchers = {}
  Admins = {a1, a2}
  Batches = {}
  Creations = {}
  Patches <- TwoPatches
PROPERTIES
  PatchSetsOnlyItsFields
