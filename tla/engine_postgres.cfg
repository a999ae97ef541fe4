SPECIFICATION UndisturbedSpec
CONSTANTS
  c1 = c1
  c2 = c2
  NoOne = NoOne
  Quoters <- MCQuoters
  Backend = "postgres"
  Products <- MCProducts
  Customers <- MCCustomers
  ContractPrices <- MCContracts
  InitialPromotions <- MCPromotions
  InitialConfig <- OnlyTenantA
  Requests <- RepeatedRequests
  Configs = {"cfg1", "cfg2"}
  Postings = {}
  CacheSize = 1
  CacheTTL = 1
  DayLength = 2
  HalfWord = 536870912
  FirstUuid = 10
  MaxTime = 0
  LastUuid = 15
  MaxChanges = 0
  MaxFaults = 2
INVARIANTS
  TypeOK
  AnswersArePersisted
  DecisionHasRequest
  DecisionMatchesRequest
  OneDecisionPerRequest
  Balanced
  DiscountIsItemised
  NoPromotionTwice
  DecisionsPricedByDefinition
PROPERTIES
  KeepsQuoteContract
