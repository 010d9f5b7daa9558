\* Safety only: one caller of two accounts that need the same identity, one warmup.
CONSTANTS
  c1 = c1  c2 = c2  observer = observer  alice = alice  bob = bob
  home = home  spare = spare  reader = reader  other = other  away = away
  nick1 = nick1  nick2 = nick2  nick3 = nick3
  Clients = {c1}
  Ids = {observer, alice, bob}
  Observer = observer
  Addresses = {home, spare}
  Nicks = {nick1, nick2}
  Descriptors <- MCMovingShared
  MaxAccounts = 1
  PoolSize = 1
  PrewarmCapacity = 1
  Grace = 0
  MaxConns = 2
  MaxWarms = 1
  MaxCalls = 2
  MaxChannels = 1
SPECIFICATION Spec
CHECK_DEADLOCK FALSE
INVARIANTS OneEndpointPerIdentity HandedOver EndpointInv ChannelInv
