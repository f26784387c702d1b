SPECIFICATION Spec
CONSTANTS
  Events = {e1}
  Workers = {w1, w2}
  None = None
  Lease = 2
  Horizon = 4
  RetryBase = 2
  RetryMax = 2
  RetryExponentCap = 10
  MaxTime = 5
  MaxLag = 0
  MaxCrashes = 0
  MaxAudits = 1
SYMMETRY Symmetry
INVARIANTS
  TypeOK
  LeaseExclusion
  AcknowledgedIsAccepted
  LeaseWithinHorizon
  DeadLetterJustified
PROPERTIES
  AcknowledgedIsFinal
  ImplementsDelivery
