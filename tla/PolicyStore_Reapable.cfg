CONSTANTS
  Runs = {r1}
  Commands = {c1}
  Entries = {e1}
  Kinds = {"status"}
SPECIFICATION Safety
INVARIANT Reapable
CHECK_DEADLOCK FALSE
