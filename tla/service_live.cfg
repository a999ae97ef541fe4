SPECIFICATION FairSeedingSpec
CONSTANTS
  c1 = c1
  c2 = c2
  b1 = b1
  b2 = b2
  a1 = a1
  a2 = a2
  s1 = s1
  NoOne = NoOne
  Backend = "memory"
  Products <- MCProducts
  Customers <- MCCustomers
  ContractPrices = {}
  InitialPromotions <- BeforeSeeding
  InitialConfig <- MCConfig
  Requests <- LiveRequests
  Configs = {}
  Postings = {}
  CacheSize = 2
  CacheTTL = 1
  DayLength = 2
  HalfWord = 536870912
  FirstUuid = 10
  LastUuid = 11
  MaxTime = 0
  MaxChanges = 2
  MaxFaults = 0
  Quoters = {c1, c2}
  Batchers = {}
  Admins = {a1}
  Batches = {}
  Creations <- OneCreation
  Patches <- OnePatch
  Seeders = {s1}
  Dataset <- MCDataset
INVARIANTS
  ChangesAreAudited
  SeedRestores
PROPERTIES
  QuoteAnswered
