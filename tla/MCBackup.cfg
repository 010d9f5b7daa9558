\* A server with an account, one place for a backup, two commands and one trouble.
CONSTANTS
  u1 = u1  c1 = c1  c2 = c2  kA = kA  kB = kB
  p1 = p1  p2 = p2  j1 = j1  j2 = j2  home = home  out1 = out1
  Home = home
  Outs = {out1}
  Accounts = {u1}
  Callers = {c1, c2}
  Keys = {kA, kB}
  Pools = {p1, p2}
  Nothing = Nothing
  Broken = Broken
  MaxFiles = 2
  Jobs = {j1, j2}
  MaxTroubles = 1
SPECIFICATION Spec
SYMMETRY Symmetric
CHECK_DEADLOCK FALSE
INVARIANTS BundleWhole KeptInPlace OnePool
