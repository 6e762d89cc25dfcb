\* Two clients, one document, every operation, two failing store calls and
\* expiry.  Clients need not start another call: the system may stop.
SPECIFICATION FairSpec
CONSTANTS
  c1 = c1
  c2 = c2
  d1 = d1
  d2 = d2
  None = None
  Unsettled = Unsettled
  Clients = {c1, c2}
  Docs = {d1}
  Ops = {"upsert", "update", "delete"}
  Batches <- OneDocBatches
  ParallelWrites = TRUE
  TTLs = {TRUE}
  MaxCalls = 3
  MaxFaults = 2
CHECK_DEADLOCK FALSE
INVARIANTS TypeOK RejectedWritesNothing QuietWritesAgree
PROPERTIES NoLostUpdate CallsReturn
