SPECIFICATION EditsSpec
CONSTANTS
  c1 = c1
  c2 = c2
  NoOne = NoOne
  Quoters <- MCQuoters
  Backend = "memory"
  Products <- CachedProducts
  Customers <- CachedCustomers
  ContractPrices = {}
  InitialPromotions <- OnePromotion
  InitialConfig <- OnlyTenantA
  Requests <- CachedRequests
  Configs = {"cfg1", "cfg2"}
  Postings <- MCPostings
  CacheSize = 1
  CacheTTL = 1
  DayLength = 2
  HalfWord = 536870912
  FirstUuid = 10
  MaxTime = 2
  LastUuid = 14
  MaxChanges = 1
  MaxFaults = 0
INVARIANTS
  MutualExclusion
  AnswersArePersisted
  AnswersAreAudited
  AnswerMatchesRequest
  EditsTakeEffect
PROPERTIES
  KeepsQuoteContract
