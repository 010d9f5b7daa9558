\* A cooldown that is shorter than the interval: a quota refusal cuts the pause short.
CONSTANTS
  c1 = c1  c2 = c2  k1 = k1  k2 = k2
  Callers = {c1, c2}
  Keys = {k1, k2}
  NumModels = 2
  Interval = 2
  Cooldown = 1
  FailureThreshold = 2
  FailureTTL = 1
  MaxFailures = 1
  OperationTimeout = 2
  RetryAfters = {2}
  MaxFlights = 2
  MaxCalls = 1
SPECIFICATION Spec
CHECK_DEADLOCK FALSE
PROPERTIES CallsPaced
