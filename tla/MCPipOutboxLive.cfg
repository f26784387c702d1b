SPECIFICATION FairSpec
CONSTANTS
  Events = {e1}
  Workers = {w1}
  None = None
  Lease = 1
  Horizon = 3
  RetryBase = 2
  RetryMax = 2
  RetryExponentCap = 10
  MaxTime = 4
  MaxLag = 1
  MaxCrashes = 1
  MaxAudits = 1
PROPERTIES
  EventuallySettled
