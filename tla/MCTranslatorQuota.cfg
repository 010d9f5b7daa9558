\* A quota failure of a flight that is cancelled at the same time.
CONSTANTS
  c1 = c1  c2 = c2  k1 = k1  k2 = k2
  Callers = {c1}
  Keys = {k1}
  NumModels = 2
  Interval = 1
  Cooldown = 3
  FailureThreshold = 2
  FailureTTL = 1
  MaxFailures = 1
  OperationTimeout = 4
  RetryAfters = {}
  MaxFlights = 2
  MaxCalls = 2
SPECIFICATION Spec
CHECK_DEADLOCK FALSE
PROPERTIES QuotaHeeded
