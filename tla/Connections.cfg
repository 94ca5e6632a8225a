\* Two calls for one permit, lists of up to two answers and one too many; one call to the
\* bounds of every block of both registries; a tunnel on both routes, two bytes each way.
CONSTANTS
  c1 = c1
  c2 = c2
  Calls = {c1, c2}
  Addresses <- AllAddresses
  MaxAnswers = 2
  Permits = 1
  Routes = {"public", "local"}
  ClientBytes = 2
  ServiceBytes = 2
  Window = 2
  ReadAhead = 2
  MaxPrefix = 1
  Buffer = 1
SPECIFICATION PartsSpec
INVARIANT DialIsJudged
INVARIANT TunnelIsFaithful
PROPERTY ConnectionsEnd
CHECK_DEADLOCK FALSE
