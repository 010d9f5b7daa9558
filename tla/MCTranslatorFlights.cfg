\* Two callers of two texts that share and leave flights, which take turns at two models.
CONSTANTS
  c1 = c1  c2 = c2  k1 = k1  k2 = k2
  Callers = {c1, c2}
  Keys = {k1, k2}
  NumModels = 2
  Interval = 1
  Cooldown = 2
  FailureThreshold = 2
  FailureTTL = 1
  MaxFailures = 1
  OperationTimeout = 1
  RetryAfters = {2}
  MaxFlights = 2
  MaxCalls = 1
SPECIFICATION FairSpec
CHECK_DEADLOCK FALSE
INVARIANTS FlightInv
PROPERTIES CallsPaced GateHandedOn
