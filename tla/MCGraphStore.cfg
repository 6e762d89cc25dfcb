SPECIFICATION GraphSpec
CONSTANTS
  n1 = n1
  n2 = n2
  r1 = r1
  Clients = {c1, c2}
  Nodes = {n1, n2}
  Relations = {r1}
  Docs = {d1}
  Starts <- SmallStarts
  Imports <- SmallImports
  BatchSize = 1
  StaleReads = TRUE
  MaxAttempts = 2
  MaxCalls = 2
  MaxFaults = 1
  NoItem = NoItem
  None = None
INVARIANTS
  NoDangling
  AppendsAccounted
PROPERTIES
  OnlyMatchingEdgesLeave
  CallsReturn
CHECK_DEADLOCK FALSE
