SPECIFICATION Spec
CONSTANTS
  Clients = {c1, c2}
  Namespaces = {n1, n2}
  Docs = {d1, d2}
  Copies = {v1, v2}
  MaxVectors = 3
  Policy = "lru"
  None = None
  Ops = {"write", "search", "warm"}
  MaxCalls = 4
  MaxFaults = 1
SYMMETRY Symmetry
INVARIANTS
  HotFresh
  CacheFresh
  QuietAnswersExact
CHECK_DEADLOCK FALSE
