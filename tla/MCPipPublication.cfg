SPECIFICATION Spec
CONSTANTS
  Signals = {s1, s2}
  Producers = {p1}
  Reconcilers = {w1}
  None = None
  MaxOcc = 3
  MaxKey = 2
  MaxFaults = 2
  MaxCrashes = 2
  TornWrites = TRUE
  TakeTurns = TRUE
SYMMETRY Symmetry
INVARIANTS
  CanonicalRow
  ExactBytes
PROPERTIES
  OrphansAreUncommitted
