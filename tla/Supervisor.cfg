\* Two clients for one place; three connections, two descriptors, two tokens and one
\* event a poll.
CONSTANTS
  Clients = {c1, c2}
  ClientLimit = 1
  UpstreamLimit = 1
  PoolCapacity = 1
  Grace = 2
  Lag = 1
  Steps = 2
  Conns = {"c1", "c2", "c3"}
  Fds = {"f1", "f2"}
  TokenLimit = 2
  Capacity = 1
SPECIFICATION PartsSpec
INVARIANT DrainIsOrderly
INVARIANT NothingIsLost
INVARIANT PeerCloseIsTrue
PROPERTY IsBoundedService
PROPERTY WaitsEnd
CHECK_DEADLOCK FALSE
