\* Two runs and two commands of every kind, of which three processes ever begin.
CONSTANTS
  r1 = r1
  r2 = r2
  c1 = c1
  c2 = c2
  Runs = {r1, r2}
  Commands = {c1, c2}
  Entries = {e1, e2}
  Kinds = {"allow global", "allow project", "deny global", "deny project",
           "status", "guard", "open"}
SPECIFICATION GroupSpec
INVARIANT LiveRunsKept
INVARIANT SnapshotIsCurrent
INVARIANT ModesReachAll
INVARIANT ReapIsThorough
PROPERTY DenialsKept
PROPERTY IsPolicyTable
PROPERTY OperationsEnd
CHECK_DEADLOCK FALSE
