\* Overlapping updates of one document; every store call succeeds.
SPECIFICATION Spec
CONSTANTS
  c1 = c1
  c2 = c2
  d1 = d1
  d2 = d2
  None = None
  Unsettled = Unsettled
  Clients = {c1, c2}
  Docs = {d1}
  Ops = {"update"}
  Batches <- OneDocBatches
  ParallelWrites = TRUE
  TTLs = {FALSE}
  MaxCalls = 3
  MaxFaults = 0
CHECK_DEADLOCK FALSE

INVARIANT UpdatesAgree
