SPECIFICATION MCSpec
CONSTANTS
  a1 = a1
  a2 = a2
  b1 = b1
  old = old
  da = da
  db = db
  dold = dold
  ma = ma
  mb = mb
  mold = mold
  yes = yes
  Intents = {a1, b1, old}
  Terms <- MCTerms
  Markets = {ma, mb, mold}
  Outcomes = {yes}
  PayoutVectors <- MCPayouts
  Payouts <- MCLoss
  None = None
  Unit = 2
  Precision = 10
  Decisions = {da, db, dold}
  Decision <- MCDecision
  Scopes <- MCScopes
  Plans <- MCPlans
  Policy <- MCPolicy
  DayLength = 1
  BidPrices = {1}
  Legacy = {old}
  Deposit = 10
  Processes = {p1, p2}
  MaxTime = 1
  MaxCrashes = 1
CHECK_DEADLOCK FALSE
INVARIANTS
  ExposureCapped
  PlanFollowed
PROPERTIES
  OrdersClose
