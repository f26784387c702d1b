SPECIFICATION MCSpec
CONSTANTS
  buy1 = buy1
  buy2 = buy2
  sell = sell
  m1 = m1
  yes = yes
  Intents = {buy1, buy2, sell}
  Terms <- MCTerms
  Markets = {m1}
  Outcomes = {yes}
  PayoutVectors <- MCPayouts
  None = None
  Unit = 2
  Precision = 1000
  Deposits = {4, 5}
  Fills <- MCFills
  Fees = {0, 1}
  LastDay = 2
  MaxLead = 1
  RequestMax = 2
  SweepMax = 2
  MaxRuns = 3
  MaxCrashes = 1
  Torn = Torn
INVARIANTS
  ReducersSuffice
  BooksBalance
  PositionIsFills
  Accounted
  Reproducible
PROPERTIES
  ClosedForGood
  RunsEnd
