SPECIFICATION Spec
CONSTANTS
  Clients = {c1, c2}
  Namespaces = {n1}
  Docs = {d1}
  Copies = {v1, v2}
  MaxVectors = 1
  Policy = "lru"
  None = None
  Ops = {"write", "warm"}
  MaxCalls = 2
  MaxFaults = 0
INVARIANT NeverWrong
CHECK_DEADLOCK FALSE
