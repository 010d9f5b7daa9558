\* Two callers of an account whose identity changes, a warmup that may be in the way,
\* shutdown at any time.
CONSTANTS
  c1 = c1  c2 = c2  observer = observer  alice = alice  bob = bob
  home = home  spare = spare  reader = reader  other = other  away = away
  nick1 = nick1  nick2 = nick2  nick3 = nick3
  Clients = {c1, c2}
  Ids = {observer, alice}
  Observer = observer
  Addresses = {home, spare}
  Nicks = {nick1}
  Descriptors <- MCMoving
  MaxAccounts = 1
  PoolSize = 1
  PrewarmCapacity = 1
  Grace = 0
  MaxConns = 2
  MaxWarms = 1
  MaxCalls = 1
  MaxChannels = 1
SPECIFICATION FairSpec
CHECK_DEADLOCK FALSE
INVARIANTS OneEndpointPerIdentity HandedOver
PROPERTIES AcquireReturns UnleasedStops CloseCompletes
