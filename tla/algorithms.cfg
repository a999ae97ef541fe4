SPECIFICATION MCSpec
CONSTANTS
  HalfWord = 262144
  Amounts <- MCAmounts
  Percents <- MCPercents
  Candidates <- MCCandidates
  Rows <- MCRows
  Digits <- MCDigits
  Tokens <- MCTokens
  PageLimits <- MCPageLimits
  DefaultPage = 2
  MaxPage = 3
  MaxRows = 3
  Priorities = {1, 2, 3}
  MaxText = 5
  MaxDigits = 7
INVARIANTS
  RoundsDown
  LeavesAValidRest
  FallingPriority
  SamePromotions
  KeepsStoreOrder
  AgreesWithOrdered
  SplitLosesNothing
  ExpressionsMeanTheirFormula
  PageHoldsNewest
  LimitInRange
  ListingIsStable
