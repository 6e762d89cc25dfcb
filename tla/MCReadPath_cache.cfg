SPECIFICATION Spec
CONSTANTS
  Clients = {c1, c2}
  Namespaces = {n1}
  Docs = {d1}
  Copies = {v1, v2}
  MaxVectors = 1
  Policy = "lru"
  None = None
  Ops = {"write", "search"}
  MaxCalls = 3
  MaxFaults = 0
INVARIANT NoStaleEntries
CHECK_DEADLOCK FALSE
