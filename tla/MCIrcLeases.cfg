\* Two callers, the reader and two accounts with room for one; a router that is lost once.
CONSTANTS
  c1 = c1  c2 = c2  observer = observer  alice = alice  bob = bob
  home = home  spare = spare  reader = reader  other = other  away = away
  nick1 = nick1  nick2 = nick2  nick3 = nick3
  Clients = {c1, c2}
  Ids = {observer, alice, bob}
  Observer = observer
  Addresses = {home, away, spare, other, reader}
  Nicks = {nick1, nick2, nick3}
  Descriptors <- MCSharing
  MaxAccounts = 1
  PoolSize = 2
  PrewarmCapacity = 0
  Grace = 1
  MaxConns = 2
  MaxWarms = 0
  MaxCalls = 1
  MaxChannels = 2
SPECIFICATION Spec
SYMMETRY Symmetric
CHECK_DEADLOCK FALSE
INVARIANTS ManagerInv ChannelsReachable
PROPERTIES StopsJustified StatusInOrder
