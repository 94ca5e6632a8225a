\* Bodies of up to two chunks and two trailer fields, each also with one byte damaged, in
\* every fragmentation; every head with up to two lengths and two codings; two users of a
\* pool of two entries whose counter wraps after four.
CONSTANTS
  Wires <- SomeWires
  LineLimit = 6
  TrailerLimit = 8
  ReadAhead = 4
  FrameLimit = 4
  SizeMax = 300
  Users = {u1, u2}
  Keys = {k1, k2, k3}
  Values = {v1, v2, v3}
  Capacity = 2
  Lifetime = 2
  Width = 4
  Horizon = 2
  MaxPuts = 5
SPECIFICATION PartsSpec
INVARIANT DecodesTheGrammar
INVARIANT FramingAgrees
PROPERTY PoolIsSound
SYMMETRY Symmetry
CHECK_DEADLOCK FALSE
