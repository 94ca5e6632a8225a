\* Tunnels to local services.
CONSTANTS
  Routes = {"local"}
  ClientBytes = 1
  ServiceBytes = 1
  Window = 2
  ReadAhead = 2
  MaxPrefix = 1
  Buffer = 2
SPECIFICATION Spec
INVARIANTS HalfCloseIsKept
CHECK_DEADLOCK FALSE
