SPECIFICATION MCSpec
CONSTANTS
  HalfWord = 262144
  Amounts <- MCAmounts
  Percents <- MCPercents
  Candidates <- MCCandidates
  Rows <- MCRows
  Digits <- MCDigits
  Tokens = {}
  PageLimits <- MCPageLimits
  DefaultPage = 2
  MaxPage = 3
  MaxRows = 2
  Priorities = {1, 2, 3}
  MaxText = 0
  MaxDigits = 0
INVARIANTS
  OutcomeIsOrdered
