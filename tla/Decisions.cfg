\* Files of up to two lines and every target; a request that reads four layers while they
\* are replaced; two requests and a denial log that fails and recovers; one call of the
\* broker for two authorities; two projects, two harnesses and one run.
CONSTANTS
  Lower <- MCLower
  Value <- MCValue
  Padded <- MCPadded
  Long <- MCLong
  Address <- MCAddress
  MaxLines = 2
  Requests = {r1, r2}
  PublicPaths <- MCPublicPaths
  LocalPaths <- MCLocalPaths
  MaxEdits = 2
  MaxDisk = 2
  Authorities = {"a", "b"}
  Calls = {"c"}
  Projects = {p, q}
  Domains = {"d", "a.e"}
  Locals = {"l"}
  Base = {"d"}
  Harness <- MCHarness
  Runs = {"r"}
SPECIFICATION PartsSpec
INVARIANT ReadersAgree
INVARIANT DecisionIsTheFiles
INVARIANT GrantIsLive
PROPERTY DenialIsRecorded
PROPERTY ReportIsTrue
SYMMETRY Symmetry
CHECK_DEADLOCK FALSE
