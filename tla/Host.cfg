\* Two shells, one harness, one set of tools and two versions; two launches that seed two
\* files, one of them killed, and an agent that writes once; two launches of two
\* harnesses, one change by the user or an agent.
CONSTANTS
  Procs = {p, q}
  Harnesses = {"h"}
  Tags = {"latest", "local"}
  Profiles = {"t"}
  MaxVersion = 2
  Seeds <- MCSeeds
  Objects = {"settings"}
  Keys = {"secret"}
  RemoveKeys = {"secret"}
  Tries = 3
  Inodes = {1, 2, 3, 4, 5}
  MaxKills = 1
  MaxTouches = 1
  Agents = {"claude", "codex"}
  Projects = {"/home/u/a", "/home/u"}
  Blocked = {"/home/u"}
  SyncDirs <- MCDirs
  SyncFiles <- MCFiles
  InState = {"codex"}
  SystemConfig = {"codex"}
  MaxChanges = 1
SPECIFICATION PartsSpec
INVARIANT InstallationIsSound
PROPERTY SeedingIsSound
PROPERTY MirrorIsSound
SYMMETRY Symmetry
CHECK_DEADLOCK FALSE
