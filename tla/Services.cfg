\* A cache of three entries for four keys; a channel of two events for two clients.
SPECIFICATION Spec
CONSTANTS
  k1 = k1
  k2 = k2
  k3 = k3
  k4 = k4
  Keys = {k1, k2, k3, k4}
  Values = {v1, v2}
  Nothing = Nothing
  Ttls = {0}
  DefaultTtl = 0
  Prefixes <- MCPrefixes
  MaxEntries = 3
  MaxClock = 1
  Clients = {c1, c2}
  WsCapacity = 2
  MaxEvents = 3
CHECK_DEADLOCK FALSE
INVARIANTS SizeBounded RecentKeysKept NeverStale EventsInOrder
PROPERTIES EventsReachClients BrokenLoopsEnd
