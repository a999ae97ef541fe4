SPECIFICATION Spec
CONSTANTS
  c1 = c1
  c2 = c2
  NoOne = NoOne
  Quoters <- MCQuoters
  Backend = "memory"
  Products <- MCProducts
  Customers <- MCCustomers
  ContractPrices = {}
  InitialPromotions <- OnePromotion
  InitialConfig <- MCConfig
  Requests <- TwoTenantsRequests
  Configs = {"cfg1", "cfg2"}
  Postings = {}
  CacheSize = 2
  CacheTTL = 1
  DayLength = 2
  HalfWord = 536870912
  FirstUuid = 10
  MaxTime = 0
  LastUuid = 13
  MaxChanges = 1
  MaxFaults = 0
INVARIANTS
  TenantAndConfigurationAwareCache
