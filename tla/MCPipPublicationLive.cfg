SPECIFICATION FairSpec
CONSTANTS
  Signals = {s1}
  Producers = {p1}
  Reconcilers = {w1}
  None = None
  MaxOcc = 2
  MaxKey = 2
  MaxFaults = 1
  MaxCrashes = 1
  TornWrites = FALSE
  TakeTurns = FALSE
PROPERTIES
  EventuallyPublished
  StagingRetired
