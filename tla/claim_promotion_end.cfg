SPECIFICATION Spec
CONSTANTS
  c1 = c1
  c2 = c2
  NoOne = NoOne
  Quoters <- MCQuoters
  Backend = "memory"
  Products <- MCProducts
  Customers <- MCCustomers
  ContractPrices = {}
  InitialPromotions <- EndingPromotion
  InitialConfig <- MCConfig
  Requests <- EndingRequests
  Configs = {}
  Postings = {}
  CacheSize = 2
  CacheTTL = 1
  DayLength = 2
  HalfWord = 536870912
  FirstUuid = 10
  MaxTime = 1
  LastUuid = 13
  MaxChanges = 0
  MaxFaults = 0
INVARIANTS
  PromotionEndIsInclusive
