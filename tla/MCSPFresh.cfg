SPECIFICATION Spec
CONSTANTS
  Ids = {a, b, c, d}
  Vectors = {v1, v2}
  Parts = {p1, p2, p3, p4}
  Readers = {r1}
  MinSize = 2
  MaxSize = 3
  Probes = 4
  MaxOverlaps = 1
  None = None
SYMMETRY Symmetry
INVARIANTS
  Placed
  SizeBounded
  QuietSearchExact
  HitsWereStored
PROPERTY
  ImplementsMap
CHECK_DEADLOCK FALSE
