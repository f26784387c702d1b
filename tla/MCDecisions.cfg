SPECIFICATION MCSpec
CONSTANTS
  c1 = c1
  Cities = {c1}
  Leads = {0, 1}
  Offset <- MCOffset
  Day = 6
  DecisionTime = 1
  Window = 3
  ScanInterval = 1
  MaxForecastAge = 3
  MaxEventAge = 1
  MaxBookAge = 1
  KnownRuns = {"expected", "unknown"}
  MaxScan = 2
  MaxClock = 8
  MaxSignals = 1
  None = None
  Unit = 10
  Precision = 200
  Prices = {3, 4, 6}
  Sizes = {1, 3, 13}
  Fees = 1
  Margin = 2
  Books <- MCBooks
  Cash = {7, 14, 40}
  Probabilities = {7, 9}
  Costs <- MCCosts
  Sizing <- MCSizing
  MinimumSize = 1
  Units = {"F", "C"}
  Bounds <- MCBounds
  Halves <- MCHalves
  Expected = "F"
  MaxMarkets = 3
  k1 = k1
  k2 = k2
  Keys = {k1, k2}
  MarketOf <- TwoMarkets
  N = 3
  Times = {1, 2, 3}
  Orders <- TwoOrders
INVARIANTS
  SignalsAreGrounded
  SizedSoundly
  PlanIsLargest
  PlanAppliable
  AcceptedIffPartition
  ForecastChoosesOne
  DecisionsSeeThePast
  SettledInTimeOrder
PROPERTIES
  ShutdownEnds
