SPECIFICATION Spec
CONSTANTS
  Signals = {s1}
  Producers = {p1}
  Reconcilers = {w1}
  None = None
  MaxOcc = 1
  MaxKey = 2
  MaxFaults = 0
  MaxCrashes = 0
  TornWrites = FALSE
  TakeTurns = FALSE
INVARIANTS
  ExactBytes
