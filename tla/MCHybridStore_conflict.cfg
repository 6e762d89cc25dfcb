\* An update between whose read and conditional write other
\* clients upsert and update the document; no failure, no expiry.
SPECIFICATION Spec
CONSTANTS
  c1 = c1
  c2 = c2
  d1 = d1
  d2 = d2
  None = None
  Unsettled = Unsettled
  Clients = {c1, c2}
  Docs = {d1}
  Ops = {"upsert", "update"}
  Batches <- OneDocBatches
  ParallelWrites = TRUE
  TTLs = {FALSE}
  MaxCalls = 3
  MaxFaults = 0
CHECK_DEADLOCK FALSE

PROPERTY ConflictOnAnyChange
