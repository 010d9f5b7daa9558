\* Two callers, two keys and a table of one; a limiter whose bucket is full again
\* within a minute, and one whose bucket takes longer; two sweeps.
CONSTANTS
  k1 = k1  k2 = k2  c1 = c1  c2 = c2
  Keys = {k1, k2}
  Callers = {c1, c2}
  Cost = 1
  Fulls = {1, 4}
  Minute = 3
  TableSize = 1
  Lag = 1
  MaxTime = 6
SPECIFICATION LimiterSpec
SYMMETRY Symmetric
CHECK_DEADLOCK FALSE
INVARIANTS LimitKept
PROPERTIES RefusedWhenBusy
