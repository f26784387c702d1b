SPECIFICATION Spec
CONSTANTS
  i1 = i1
  i2 = i2
  m1 = m1
  yes = yes
  d1 = d1
  Intents = {i1, i2}
  Terms <- MCTerms
  Markets = {m1}
  Outcomes = {yes}
  PayoutVectors = {}
  None = None
  Unit = 2
  Precision = 10
  Decisions = {d1}
  Decision <- MCDecision
  Processes = {p1, p2}
  Backends = {paper}
  Payloads = {x}
  Reports <- MCReports
  MaxLog = 4
  MaxCheckpoints = 1
SYMMETRY Perms
CHECK_DEADLOCK FALSE
INVARIANTS
  StoreVerifies
  OneIntentPerDecision
PROPERTIES
  Durable
  ImplementsAtomicStore
