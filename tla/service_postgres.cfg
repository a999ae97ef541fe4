SPECIFICATION PostgresSpec
CONSTANTS
  c1 = c1
  c2 = c2
  b1 = b1
  b2 = b2
  a1 = a1
  a2 = a2
  NoOne = NoOne
  Backend = "postgres"
  Products <- MCProducts
  Customers <- MCCustomers
  ContractPrices <- MCContracts
  InitialPromotions <- MCPromotions
  InitialConfig <- MCConfig
  Requests <- PairRequest
  Configs = {}
  Postings = {}
  CacheSize = 2
  CacheTTL = 1
  DayLength = 2
  HalfWord = 536870912
  FirstUuid = 10
  LastUuid = 11
  MaxTime = 0
  MaxChanges = 1
  MaxFaults = 1
  Quoters = {c1}
  Batchers = {b1}
  Admins = {a1}
  Batches <- RepeatedBatches
  Creations <- OneCreation
  Patches <- OnePatch
INVARIANTS
  ServiceTypeOK
  BatchAnswersEveryItem
  BatchLosesOnlyFailedRows
  BatchPricedByDefinition
  PathsAgreeWithoutTies
