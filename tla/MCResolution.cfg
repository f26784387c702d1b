SPECIFICATION MCSpec
CONSTANTS
  i1 = i1
  i2 = i2
  i3 = i3
  i4 = i4
  m1 = m1
  m2 = m2
  m3 = m3
  yes = yes
  no = no
  u1 = u1
  d1 = d1
  d2 = d2
  Intents = {i1, i2, i3, i4}
  Terms <- MCTerms
  Markets = {m1, m2, m3}
  Outcomes = {yes, no}
  PayoutVectors <- MCPayouts
  None = None
  Unit = 2
  Precision = 10
  Decisions = {i1, i2, i3, i4}
  Decision <- MCDecision
  Hashes = {h1, h2, h3}
  Sources = {u1, u2}
  Stations = {s1}
  Days = {d1}
  NoHash = NoHash
  Workers = {w1, w2}
  Context <- MCContext
  Identity <- MCIdentity
  Deposit = 4
  Operators = 1
  MaxFaults = 1
CHECK_DEADLOCK FALSE
INVARIANTS
  SettledByOneAnswer
  RevisionsAreAChain
PROPERTIES
  PositionsSettle
  LearnableStays
