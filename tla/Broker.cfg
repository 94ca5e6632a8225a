SPECIFICATION Spec
CONSTANTS
  Clients = {c1, c2}
  Limit = 1
INVARIANT PermitsConserved
INVARIANT DrainCoversRelays
INVARIANT StopIsComplete
PROPERTY BrokerMoves
PROPERTY IsBoundedService
CHECK_DEADLOCK FALSE
