\* Two clients that share one origin connection.
CONSTANTS
  Clients = {"c", "d"}
  Origins = {"o"}
  Requests <- SomeRequests
  Body <- SomeBody
  Expects <- SomeExpects
  Window = 1
SPECIFICATION FairSpec
INVARIANT KeepsBoundaries
INVARIANT OriginsAreClean
PROPERTY Answered
CHECK_DEADLOCK FALSE
