# Dynavec, in TLA+

Dynavec is a Python client that keeps documents in two AWS stores at once —
vectors and filterable metadata in S3 Vectors, canonical text and metadata in
DynamoDB — and puts an in-memory hot tier, a query cache, graph retrieval and
small agent runtimes on top of them. None of its operations is atomic: an upsert
is a handful of independent store calls on a thread pool, an update is a
read-modify-write over both stores, and a search may be answered by any of four
layers that the writes keep up to date one after the other. These modules model
that control, check it with TLC on small instances and prove what matters most
with TLAPS for every value of the constants.

## 1. Inventory

| part (under `src/src/dynavec/`) | state | operations | interacts with | hard behaviour | what makes it correct |
|---|---|---|---|---|---|
| write path: `client.py`, `client_common.py`, `stores/*` | S3 Vectors entry and DynamoDB item of each document, version attribute, TTL | `upsert`, `update`, `delete`, `_run_parallel` | executor, both stores, hot tier, cache | chunks of both stores in parallel, abandoned tasks after an exception, read-modify-write, expiry | no lost update; a refused update writes nothing; quiet writes leave the stores equal; calls end |
| hot tier: `hot.py` | indexes, authoritative set, access order | `insert_many`, `delete`, `load`, `search`, `clear`, `_evict_to_fit` | client, SPFresh index | shared by threads, bounded by `hot_tier_max_vectors` | budget kept; tables agree; only complete copies are served |
| search: `client.py`, `cache.py` | query cache, calls in progress | `search`, `warm`, `_invalidate_cache` | cache, hot tier, both stores | results cached or installed after the data changed | authoritative copies and cached results equal the stores |
| result paging: `stores/*`, `client.py`, `async_client.py` | pages, buffer, unprocessed keys | `query_pages`, `query`, `get_many`, streams | both stores | pages cut twice, retries of a page, partial batch answers | nothing lost, doubled or reordered |
| cache backends: `cache.py` | buckets, order of use, byte count; generations; Redis keys | `get`, `put`, `invalidate` | search | four tables kept by hand; several requests per call | accounting; nothing evicted returns |
| SPFresh: `spfresh.py` | partitions, id map, worker | `insert`, `delete`, `search`, `split_partition`, `merge_partition`, `rebalance` | hot tier, background thread | moves under per-partition locks during searches | every vector in exactly one partition and found |
| graph store: `graph.py`, `graph_import.py` | node items with edge lists | `add_node`, `add_edge`, `link_docs`, `delete_edge`, `delete_node`, import, `neighbors` | DynamoDB | conditional retries, lost answers, lagging reads, deletions racing insertions | nobody's edge lost, duplicates and dangling edges only where explained |
| agent graph: `agents/graph.py` | queue of ready nodes, barriers, merged state | `validate`, `run`, `_dispatch_outgoing`, `_execute_node` | thread pool | joins, loops, parallel branches, `max_steps` | a join waits for its branches and runs once; runs end |
| node graph: `nodes/graph.py` | run state, errors | `run`, `resume`, retries, error edges | nodes | failure routing, resume | no recorded work repeated, no failure passed over |
| checkpoints and ReAct: `checkpoint.py`, `agents/react.py` | checkpoint items, manifest, messages | `put`, `get`, `list`, `run` | DynamoDB, model, tools | crash between item and manifest, concurrent and repeated resumes | the manifest names what exists; tools repeat only after a cut |
| rate limit and retry: `utils.py` | tokens, clock | `acquire`, `retry` | model services, stores | contention, boundary capacities | never above the rate |
| embedding cache: `embeddings/cached.py`, `cache.py` | vectors by key, order of use | `embed_documents`, `embed_query`, `clear` | model services | misses are embedded in one batch while other calls run | each vector at the place of its text |
| ingestion: `ingest.py` | sources, chunks seen, namespace | `ingest`, `chunk_text` | client | partial runs, equal texts | a run completes what an earlier one left |
| retrievers, ranking: `retrievers.py`, `retrieval.py`, `fusion.py`, `bm25.py`, `metrics.py` | BM25 tables, executor | fan-out searches, RRF, MMR, rescoring | client, thread pool | a shared pool, results in any order, caches of the index | whole answers in the order of the plan; scores as defined |
| export and import: `client.py`, `cli.py` | a file of lines, batches | `iter_namespace`, `export_namespace`, `import_namespace` | both stores | documents that change meanwhile, a batch that fails | what was counted is stored, a repeated import completes |
| async client: `async_client.py`, `stores/async_*` | coroutines, chunk tasks, semaphore | `aupsert`, `aclose` | both stores, cache | cancellation, a coroutine left running | a write that returned stands |
| evaluation: `eval/` | scores, runs | retrieval and judged metrics, averages, trend | retrieval | boundary cases | scores as defined |
| other: `embeddings/` and `chat/` adapters, further `agents/` helpers, `integrations/`, `mcp/`, `cli.py`, `telemetry.py`, `logging.py`, `dashboard.py`, `provisioning.py`, `quantization.py`, `models.py`, `metadata.py` | mostly none | | | | |

`PROJECT.json` lists the same components with their status, and under "hazards"
every place of the code that is hard to test, with the property that covers it
or the reason why none does.

## 2. Modules

### HybridStore — the write path

One namespace. A *client* is a thread of one process or a process of its own; a
step is one call to a store, as the store sees it. Data is abstracted to
provenance: a text, a vector and a metadata dictionary are the identifier of the
call that wrote them, which is what the properties compare.

| variable | in the code |
|---|---|
| `s3`, `ddb` | the two stores' entries; `ddb[d].version` is `VERSION_ATTR`, 0 when absent |
| `call` | where each client is in `upsert`, `update` or `delete`, with the locals of `update` |
| `tasks` | what `_run_parallel` submitted to the executor; a task outlives a call that raised |
| `started`, `faults` | bounds; `started` also numbers the calls |
| `epoch`, `rejected`, `settled`, and the fields `seen`, `sets`, `solo` of a call | history, for the properties only |

`Upsert`/`Delete` submit the tasks, `TaskApply` lets one document of one task reach
its store, `TaskFail` is a store call that raises after its retries (whether or
not the store applied it), `AwaitOk`/`AwaitRaise` are the loop over `f.result()`
in submission order. `Update`, `UpdateRead`, `UpdateEmbed`/`UpdateFetch`,
`UpdateCommit`, `UpdatePut` and `UpdateFault` follow `update` line by line. The
caller gives a vector, a text, both or neither: with a new vector (its own or the
embedder's, `UpdateEmbed`) the text is the caller's or the one that was read; without
one (metadata only, or a text and no embedder) `UpdateFetch` reads the stored vector
back, so that a new text is committed beside the old vector. `settled` records what the two stores
should hold of each document after the calls that ran on it undisturbed, part by part;
`Expire` is DynamoDB's time-to-live. The code before the first store call
(validation, transforms, embedding) touches no shared state and is part of the
first step.

### HotTier — the RAM copy of namespaces

Every operation of `HotTier` runs under its lock and is one action: `InsertMany`,
`Remove` (`delete`), `Load`, `Touch` (the locked part of `search`), `Clear`.
`Evicted` is the loop of `_evict_to_fit`: the shortest prefix of the access order
that makes room, without the excluded namespace. The index is the map from
documents to the version it holds. `Demote` drops a set of namespaces from all three
tables.

### ReadPath — search, cache, hot tier and writes together

`ReadPath` EXTENDS `HotTier` and drives it the way `client.py` does. A write is
`WriteStore` (one document at a time), `WriteHot`, `WriteEvict`; a search is
`Search` (cache lookup), `SearchPin` and `SearchScan` (the hot tier: the index is
taken under the lock and searched after it, so a search may work on an index that
has been dropped: `held`), or `SearchQuery` and `SearchHydrate` (the stores), and
`SearchAnswer` (the cache is filled); a warm is `WarmList` per document and
`WarmLoad`. `WriteFault` raises before the hot tier and the cache are reached and
may leave writes in `late`, which land at any later time. The two stores are one
map here, because HybridStore has where they differ, documents have no TTL, and
the cache has one query per namespace with a `top_k` that covers it. `solo`,
`clean`, `hotTaint` and `cacheTaint` are history: they name exactly the races and failures under
which the code makes no promise. `cache_invalidate_on_write` is on, its default.

### VectorMap and SPFresh — the index under the hot tier

`VectorMap` is what the hot tier relies on: a map from ids to vectors whose calls
take effect at once, with work left behind that changes nothing (`busy`). `SPFresh` is
`SPFreshHotIndex`, shown to implement it.

| variable | in the code |
|---|---|
| `parts` | what each `Partition` object holds |
| `live`, `home` | `_partitions`, `_id_to_partition` |
| `op` | the operation of the thread that holds `_lock`, with its locals |
| `search` | where each search is in its loop over partitions; `overlaps` and `seen` are history |
| `auto` | `auto_rebalance` |

A writer holds `_lock` for its whole operation, but a search holds it only to choose partitions
(`SearchStart`) and to look one up (`SearchFetch`), and takes a snapshot under the partition's own lock
(`SearchRead`). Hence every change of a partition that a search can reach is a
step: `Insert` (the old vector leaves) and `Add`, `Split` (the children are built
privately, so it is one step), `Delete`, `Merge`, `MergeCopy` per vector and `MergeDrop`,
`Move` and `Land` per migrated vector. `Rebalance` goes through `SplitPhase`,
`MergePhase` and `MigratePhase`, each over the partitions that existed when it began. A partition
that was dropped keeps its vectors for the search that reads it (`Collected`). Distances are
abstracted: the nearest partition is any partition, 2-means any split into two
non-empty halves. The centroids and their anchors (phase 3) are left out: they
decide only which partition is nearest. `get` and the worker thread's start and stop are not modelled.

### GraphStore and GraphQuery — entities and edges in one table

A node is one DynamoDB item that holds its outbound edges, so every operation is a
series of single-item requests; each is one action, on behalf of a client.

| variable | in the code |
|---|---|
| `items` | the table; an item that `add_edge` created and `add_node` never filled is not `known` |
| `behind` | what a read without `ConsistentRead` may still answer |
| `call` | where a client is: the request, what it has read, the attempts used |
| `asked`, `redone`, `raced` | history: copies of an edge asked for, appends whose answer was lost, deletions that something overlapped |

`WrappedInRetry` says which operations carry the retry decorator, and `FromTheStart` that a
retry begins the operation again: that `add_edge` is repeated around an append that may have been
applied is what `AppendsAccounted` measures. The requests of an import (`ImportWrites`) are computed from its edges
with the list operators of `Sublists`. `GraphQuery` holds the walks (`neighbors`, `get_docs`,
subgraphs, paths) as operators over a graph, checked against definitions by sets of paths.

### AgentGraph, NodeGraph, AgentThread — the runtimes

`AgentGraph` is the engine of `agents/graph.py`. A batch is one step: its nodes work on copies and the pool is awaited
before anything is merged.

| variable | in the code |
|---|---|
| `graph`, `gstate` | the graph and its `GraphState`: keys that an update replaces, and a list with the append reducer |
| `ready`, `visits`, `steps` | `ready_queue`, `node_visit_counts`, `steps` of `run` |
| `arrived` | the lengths of the lists in `barrier_states` |
| `phase`, `failed` | how far the run is, and the error of its result |
| `batch` | history: what the nodes of the last batch did, unless an edge could not be evaluated and the run raised |

Edges are followed by their positions: `Active` are the outgoing edges that hold, `Opened` those whose targets are released
at them, and `Queue` appends the targets that do not wait yet. The loop over a batch's results is the recursive function of `Absorbed`.

`NodeGraph` is `SimpleGraph` of `nodes/graph.py`: `pipe` is the graph with its error edges and attempts, `cp` the
`GraphRunState`, `saved` a copy the caller kept, `at` and `tries` the place of the loop; `before`, `ran` and `handling`
are history. Each attempt of a node is a step, and a run can be resumed from what was saved.

`AgentThread` is one conversation of a ReAct agent: `saves` and `manifest` are the checkpoint table, `older` what a
lagging read of the manifest answers, `run` the state of each process's run. A save is a put of the item and then an update of the
manifest, with the read-modify-write fallback when `list_append` is not available; a process may die between any two requests. `setting` fixes
the circumstances of a behaviour.

### The services

| module | models | state |
|---|---|---|
| `SemanticCache` | the in-process cache of `cache.py`, one call per step | `buckets`, `lru`, `owner` (`_sig_ns`), `bytes` |
| `SharedCache` | `DynamoDBCache` and `RedisCache`, one request per step | `entries`, `gens` (every generation written), `older` and `reached` (what a lagging read may still answer), `request` |
| `TokenBucket` | the limiter of `utils.py` with sleeping callers | `tokens`, `lastTime`, `now`, `waiter` |
| `EmbedCache` | `CachedEmbedder` over `InMemoryCache` on an event loop | `store`, `embed` |
| `BM25Index` | the tables of `bm25.py` | as in the code, `ranked` is the last answer |
| `Ranking` | the arithmetic of fusion, rescoring, diversity | none: operators |
| `Retriever` | composed retrievers on the shared pool | `pool`, `threads`, `asked` |
| `Ingest` | sources, chunks, deduplication, batches | `corpus`, `run`, `stored` |
| `Evaluation` | metrics, averages, trends | none: operators |
| `ResultPages` | `query_pages`, `query`, `get_many`, streams and searches above them | `fetched`, `buffer`, `yielded`, `pending`, `got`, `out` |
| `Transfer` | export, listing, import, the import command | `source`, `target`, `listed`, `lines`, `batch`, `count` |
| `AsyncClient` | `aupsert` and the stores below it, searches that share the cache | `chunk`, `upload`, `saving`, `unsent`, `vecs`, `recs`, `late`, `finding` |

Decisions worth knowing. The token bucket counts time in ticks and rounds sleeps up; a bucket that holds less than one token
never grants, and its callers wait for ever. In `ResultPages` the service cuts its pages as it likes
and names the next one in the member `TokenField`, which is `"NextToken"`, what the code reads, except in the run that gives it the documented name;
`BatchGet` is taken to return current records. In `Transfer` exported lines carry no TTL, so that an imported document does not expire; a failed
export leaves a prefix of the file, the old content being gone; the import command takes the dimension from the first line, so
that a file of wrong dimension passes its validation. Equal keys in one S3 Vectors request are taken to keep the last.
In `AsyncClient` a cancelled request may or may not have been applied when it is cancelled, and the
coroutine that `gather` leaves running after the other one raised can overwrite a later `aupsert` (`late` records it: such documents are excluded from the claim).
A search of another client that shares the cache queries the vectors, reads the records and puts its answer in three steps
(`SearchFinds`, `SearchHydrates`, `SearchPuts`), and raises at any of them; `crossed` records that an invalidation came in between, and such an
answer is excluded, since it may be stale (the run `read_path_cache`).
In `SharedCache` the `get_item` of `DynamoDBCache` is not consistent: it returns any generation that some copy of the table may still have
(`Readable`: those from the last write that has reached every copy on) and any item that was under the key since then. A put may so stamp its
entry with a generation of before, and a get that begins after an invalidation has returned may still serve what was
invalidated, for as long as a copy of the table has the old generation. (The comment of `DynamoDBCache`, "bumping it makes older entries unreachable", is true only then;
`DynamoDBStore.get_versioned` does ask for a consistent read.) `EvictedStayOut` says what holds: once the invalidation has
reached every copy, no get that begins then serves it. Generations are compared for equality only, so that they are numbered; two invalidations of one namespace are taken not to
fall in the same nanosecond of `time_ns()`. Redis is one server, and answers with the last write.
In `BM25Index` a filter is a set of conditions on one key of the metadata, each decided as `_matches_filter` does: an operator it does not know is passed over,
while `$and` and `$or`, which stand in the place of a key, reject every document. `LexicalAnswersExact` does not use that definition, but a table of how a
value may stand to another and which standings each operator takes (`Standing`, `Takes`, `Selected`).
The hot tier of the asynchronous client is left out, because nothing ever loads a namespace into it. The lexical index and the metrics compute with whole numbers, with
logarithms given as tables.

### MCAgents, MCServices, MCGraphStore

`MCAgents` and `MCServices` hold the instances. Their parts share no state, so a behaviour is of one of them, chosen by `part` at the start: the state
space is a sum, not a product. The computations are initial states of `MCServices` (`case` ranges over the inputs) that `AnswersExact` compares with their definitions.

## 3. Runs

| run | instance | shows |
|---|---|---|
| `hybrid_store` | 2 clients, 1 document, 3 calls, 2 failures, TTL; liveness under `FairSpec`; 567,748 states | `NoLostUpdate`, `RejectedWritesNothing`, `QuietWritesAgree`, `CallsReturn`, `TypeOK` hold |
| `hybrid_store_conflict` | updates and upserts | `ConflictOnAnyChange` fails (finding) |
| `hybrid_store_diverge` | updates only, no failure | `UpdatesAgree` fails (finding) |
| `sp_fresh` | 4 ids, 2 vectors, 4 partition objects, sizes 2..3, a search that one writer may overlap; `auto_rebalance` on and off; 92,928 states | `Placed`, `SizeBounded`, `QuietSearchExact`, `HitsWereStored` and the refinement `ImplementsMap` hold |
| `read_path` | 2 threads, 2 namespaces, 2 documents, 2 versions, 4 calls, 1 failure, budget of 3; 1,047,726 states | `HotFresh`, `CacheFresh`, `QuietAnswersExact` hold |
| `read_path_warm` | a write and a warm | `NeverWrong` fails (finding) |
| `read_path_cache` | writes and a search | `NoStaleEntries` fails (finding) |
| `graph_store` | 2 clients, 2 nodes, 1 relation, 2 calls, 1 fault, lagging reads, 2 attempts, import batches of one; 77,257 states | `NoDangling`, `AppendsAccounted`, `OnlyMatchingEdgesLeave`, `CallsReturn` hold |
| `agents` | the graphs, chains and threads below; 101,453 states | `JoinsOnce`, `FreshKeysKept`, `CyclesJudged`, `RecordedWorkKept`, `FailuresHandled`, `CheckpointsExist`, `SavesCoherent`, `ToolsRepeatOnlyAfterCuts`, `HistoryComplete`, `EveryRunEnds` hold |
| `agents_merge` | a diamond whose branches set one key | `BranchUpdatesMerged` fails (finding) |
| `services` | the twelve services and the computations; 1,504,934 states | `PagesExact`, `TransferExact`, `AsyncWritesSettle`, `WithinBudget`, `TablesAgree`, `CacheAccounting`, `EvictedStayOut`, `RateBounded`, `EmbeddingsAligned`, `LexicalAnswersExact`, `FusionInOrder`, `IngestComplete`, `AnswersExact` hold |
| `services_pages` | pages that name the next one in `nextToken` | `WholeAnswer` fails (finding) |

*Why the bounds are enough.* The conflicts of the write path are per document:
two clients and three calls give a call that is abandoned, one that overlaps it and a later one that
must repair what they left, and two failures let the repair fail too. Larger
batches only add independent documents; instances with two documents and
every batch, and with `parallel_writes` off, were checked as well. In the hot tier three
namespaces make the eviction order matter, three documents exceed the budget on their own. In
the read path four calls are a write, the warm that copies it, a call that disturbs
them and the one that observes; two namespaces that do not both fit make a load of one
evict the other.

In the index four ids are the fewest that overflow a
partition of three, leave one below two to merge with copies, and migrate into one that has room; a
search keeps partition objects alive, and one writer between its steps is a
whole insert with its split, a delete with its merge, or a rebalance pass. Two
overlapping writers were checked with one vector. Searches do not affect one another, so one is enough.

In the graph store two nodes, one of which may list an edge twice or point at itself, have
every relation of an edge and a deletion; two calls are a deletion and what races it, and the one
fault loses the answer of an append that is then repeated. The calls of more clients compare with the
same list of the same item.

In the runtimes the graphs are all those of three nodes without conditions, and all ordered ones of four; a
diamond and a guarded loop whose nodes may set a key, log, fail, or fail after changing the state in place;
an edge that cannot be evaluated and one to an unknown node. Three iterations and six steps let a loop run into
either bound. Chains have three nodes, error edges to the next node, past it, backwards and two into one, and three
passes, so that a resume can fail and be resumed. A thread has two processes with two runs of two steps and one
failure, each in one of six circumstances: runs that overlap, that are cut, that travel back, that read a lagging manifest, a table without
`list_append`, and the memory of one process.

The services have two concurrent callers each, as many entries, texts or documents as overflow their limits by one, and one failure
for each way to fail. The shared cache has one key in each of two namespaces; the asynchronous client has two tasks, so that two chunks of a
call are in flight together, and one search beside it. Pages hold two of three matches, so that every cut by the client (none, two, unlimited) falls
across them.

`CHECK_DEADLOCK FALSE` is used where the bound on calls, runs, or partition objects stops the system (a split that would need a fifth object waits).

*Fairness.* `hybrid_store`: a call in progress takes its next step and
the executor runs a task that was submitted. boto3 calls return or time out and
`ThreadPoolExecutor` workers take work in order, so neither is suspended for
ever. `graph_store`: each client goes on with its operation (`WF` of `Progress(c)`); nothing is assumed about the replica, which may never
catch up, so that `CallsReturn` rests on the bounded retries alone. `agents`: the engine goes on with its own steps (`Goes`): the loops are
sequential code that nothing suspends. Starting a call, resuming a run, failing, dying and expiring are never forced.

### What the violated properties show

* `ConflictOnAnyChange`. `upsert` writes an item without a version, and an update that read
  no item passes `attribute_not_exists(version)`: with `upsert_if_missing=True` it overwrites a
  document that an upsert created after it looked.
* `UpdatesAgree`. U1 commits version 1, U2 commits version 2 and puts its vector, U1
  puts its vector: DynamoDB has U2, S3 Vectors has U1, and both calls returned.
* `NeverWrong`. A warm scans the namespace, a write passes the stores and the hot tier, the warm
  installs the scan as authoritative. Searches miss the write until the next warm.
* `NoStaleEntries`. A search reads the stores, a delete goes through and invalidates the cache, the search caches what it read.
* `BranchUpdatesMerged`. Of two parallel branches one updates a key; the other is merged after it as a whole state, and
  puts back the value the key had before the batch.
* `WholeAnswer`. `query_pages` follows `NextToken`; a page that names the next one in `nextToken`, as the documentation and
  the tests of `list_pages` have it, is taken for the last.

## 4. Proofs

`HybridStore_proofs` — for any clients, documents, batches and bounds:

* `TypeCorrect`: `Spec => []TypeOK`. `TypeOK` is inductive as it stands because it says that an
  update in progress has a document (`DocKnown`); one lemma per action.
* `UpdatesAreNotLost`: `Spec => NoLostUpdate`. The condition compares only
  versions, so equal versions must imply equal items. The strengthening follows each
  update in progress: as long as the item's epoch is the one it saw, the item's
  version is at least the version it read, and equal versions mean the same item. Only a conditional
  write changes an item without changing its epoch, and it raises the
  version by one.
* `RejectionsLeaveNoTrace`: `Spec => []RejectedWritesNothing`. That an update which was refused wrote nothing is
  not inductive: another call could still carry its identifier. `RejectInv` adds that every call's identifier is its own (`IdsOwned`) and
  that a *free* one (of a call not begun, rejected, or not yet at its commit) is in no
  store, in no task and in no other call (`FreeUnused`).
* `QuietWritesRepair`: `Spec => []QuietWritesAgree`. The promise is about the end of a call, the invariant `AgreeInv` about its whole
  length: in the documents that nothing has disturbed a call is alone (`Alone`: no other call names them and no task of another
  call touches them), and what it wrote is in each store or one of its tasks has still to write it (`Delivered`); an update has read what the record still
  holds, and from the moment it has its vector it carries the text and the vector that will be due (`UpdateFollows`); no task of a call
  that has raised touches a settled document (`Orphans`); and where the stores do not hold what is due of a settled document, the call that is
  midway through it is still there (`SettledTracked`).

`ReadPath_proofs`, first part — the hot tier, for any namespaces, documents, budget and policy:

* `BudgetKept`: `HotSpec => []WithinBudget`. The inductive invariant is `HotInv` (types, `Indexed`,
  `WithinBudget`). The argument does not depend on which namespaces are evicted: new vectors are
  stored only when they fit beside what is left (`FitsKeepsBudget`), every other
  step adds none (`NoNewKeepsBudget`).
* `AuthorityHasIndex`: `HotSpec => []Indexed`, from the same invariant.
* `TablesKept`: `HotSpec => []TablesAgree`, in particular that the access order lists each resident namespace once. What is left of an order
  when namespaces are dropped (`Dropping`, a recursive function) needs an induction on its length. The library's induction
  theorems take an operator; here induction is over a *set* of numbers that holds 0 and each successor (`InductionBySet`, from the
  least number of the complement, `WFMin`), which is first-order. With it the recursive function is shown to exist
  (`KeptExists`) and to keep what is listed (`DroppingKeepsListed`).

`ReadPath_proofs`, second part — for any namespaces, documents, versions, searches, writers and warm-ups:

* `ReadPathDrivesHotTier`: `Spec => HotSpec`. Each step of a search, write or warm-up is one operation of the hot tier, or leaves it
  alone: so what the first part shows of the component holds inside the client (`BudgetKeptByClients`).
* `HotTierTrusted`: `Spec => []HotFresh`. The inductive form, `CopiesFollow`, is per document: in an authoritative namespace that no race or
  failure has tainted, the copy differs from the store only in documents whose write is still on its way to the hot tier (`Unsettled`).
  That a writer may replace the copy by its own content rests on `WriterAlone`: when no other write has overlapped its documents, the store holds what it wrote.
* `CacheTrusted`: `Spec => []CacheFresh`, and `UndisturbedSearchExact`: `Spec => []QuietAnswersExact`. What a search or warm that no
  write overlapped has read, or will read from the index it was given, is at every stage what the store holds (`ReaderExact`),
  also when that index has been dropped meanwhile. A cached result is what the store holds while its namespace is `Untouched`.

`SPFresh_proofs` — for any ids, vectors, partition objects, sizes and searches:

* `OnePlacement`: `Spec => []Placed`. `Placed` holds only while the lock is free, so `PlacedThroughout`
  says what holds in between: a vector copied by a merge is still in the old
  partition and no longer counted there, and one that is migrating is in neither.
  `Working` says what the locals of an operation know (the source is in the
  index, the target is another one, what is still to move is in the source),
  and `Homeless` that a vector being inserted is nowhere. One lemma per action.
* `IsAMap`: `Spec => ImplementsMap`, from the same invariant. The vector of an id (`Held`) is in
  the hands of a writer or in its partition; every step but the first of an insert or a delete, and clear,
  leaves all of them as they were (`SameHeld`, `MapIdles`).
* `SearchesAreHonest`: `Spec => []HitsWereStored`. What a search has collected, and what is in any partition object it
  may still read, was stored at some time since it began.
* `PartitionsStaySmall`: `Spec => []SizeBounded`. `Room` says what each operation may leave in the partition it
  works on: one vector too many before the split that follows an insert, no more than the maximum in both partitions of a merge together, and
  a place in the target of a vector in flight.
* `UndisturbedSearchesComplete`: `Spec => []QuietSearchExact`. No writer is at work while such a search goes on; its hits are vectors where the
  index has them, and when it may probe every partition, what it has not found is in one it has still to read (`ExactInv`).

`ClientServices_proofs` — the services of the client that need no other (TokenBucket, AsyncClient, ResultPages, SharedCache,
SemanticCache):

* `RateKept`: `BucketSpec => []RateBounded`, for any rate, capacity and number of callers. The strengthening accounts for every token: what the bucket holds, with what was granted
  since the mark, is at most a full bucket and the inflow up to the last refill. `BucketTyped` comes from the same invariant.
* `AsyncUpsertsSettle`: `AsyncInit /\ [][AsyncNext]_acvars => []AsyncWritesSettle`, for any calls, batches and documents. `AsyncInv` follows a call through its
  concurrent batches: what a batch still running has yet to write (`InStep`), which documents an abandoned coroutine may still
  write (`Noted`), and that what was written stands until then (`Stands`). For the cache it says that while no call runs or has raised, what
  each search has read so far is what the stores hold, unless an invalidation has crossed it (`SearchesFresh`): the stores change only under a call,
  and a call that returns crosses every search under way.
* `HitsStayInOrder`, for any number of matches, pages and batches, *whatever* the name of the token: `PagesInv` says that what is with the caller,
  what is on its way and what is buffered follow one another in the ranking. `PagesLoseNothing`, that `PagesExact` always holds, has the hypothesis `TokenField = "NextToken"`,
  that the service names its continuation as the code reads it; without it the property is false, which is the finding `WholeAnswer`.
* `EvictionsAreFinal`: `SharedCacheSpec => []EvictedStayOut`, for any callers, keys and requests, and both backends. In DynamoDB a generation is written at most once for a namespace, and one that
  was taken and is not yet written is nobody's, so that an item put before an invalidation differs from the generation
  written then and from all later ones (`Gone`); a read answers with none of the generations before the one that every copy has. In Redis whatever had
  returned and is still stored is among the keys the invalidation has yet to delete.
* `SemanticCacheAccounts`: `SemanticCacheSpec => []CacheAccounting`, for any signatures, vectors, positive sizes and limits, `max_bytes=None` included. `CacheAccounting` speaks of positions, counts and a sum, and is hard to carry through a call as it stands. `SemanticInv` says the same of the lists: none
  repeats an element, the order of use lists the keys of the entries, and an entry that precedes another in its bucket precedes it in the order of use. A call takes elements out of
  these lists (`Lacks`) and puts at most one at the end (`AppendAfter`); `Dropped` and `Added` carry the invariant through the two. Bytes are counted as the size of a set
  of pairs of an entry and a number up to its size, so that `WeightsAdd` adds the weights of sets that do not meet without induction. `EnoughEvicted` shows that the
  evictions of `put` stop where both limits hold or nothing is left.

`AgentRuns_proofs`, first part — threads of checkpoints, for any processes, steps and circumstances:

* `ManifestNamesItems`: `ThreadSpec => []CheckpointsExist`. A run that is about to write the manifest, and a lagging or half-done copy
  of it, may name only checkpoints that are in the table, since items are put first and never deleted. `ThreadTyped` comes from the same invariant.
* `HistoryListsEveryCheckpoint`: `ThreadSpec => []HistoryComplete`. `HistoryInv`: an item that the manifest does not list is the one its run is about to
  list or was abandoned before that, and no id is in it twice, because the id a run puts is its own.
* `ToolsRunOncePerStep`: `ThreadSpec => []ToolsRepeatOnlyAfterCuts`. While runs follow one another, each step's tools were
  started at most once more often than a run was cut in it, and for a step past the latest checkpoint's only if they run now or
  their save is under way (`AllCounted`); for that a run must be ahead of the latest checkpoint (`AheadOf`).
* `CheckpointsContinue`: `ThreadSpec => []SavesCoherent`. `TalkInv` says of every stored conversation and of every run's, at each step between two
  saves, that its steps are numbered, its requests answered but for the tools still to run, and its tool calls counted (`InProgress`).

`AgentRuns_proofs`, second part — pipelines, for any graph, number of attempts and passes:

* `ResumesRepeatNothing`: `NodeGraphSpec => []RecordedWorkKept`, and `NoFailureIsSilent`: `NodeGraphSpec => []FailuresHandled`. The invariant `PassInv`
  follows the loop: what lies ahead of it is as the pass found it (`AheadUntouched`), and whatever it has left behind that
  a failed node points at was recorded, not attempted at all, or given the error (`BehindHandled`).

`AgentRuns_proofs`, third part — agent graphs, for any graphs, conditions, updates, iterations and steps:

* `AgentGraphTyped`: `AgentGraphSpec => []AgentGraphTypeOK`. That visits and steps stay within their limits needs a queue without repetitions
  (`QueueKeeps`): a batch visits a node once and is no longer than the graph has nodes.
* `NewKeysSurviveMerges`: `AgentGraphSpec => []FreshKeysKept`. Along the loop over a batch's results (`AbsorbedRuns`) the key is absent
  before its branch's turn and has the branch's value after it.
* `JoinsWaitForBranches`: `AgentGraphSpec => []JoinsOnce`. The invariant `JoinInv` places a run: after some number d of batches exactly the nodes of the
  layers before d have run, once each, the arrivals counted at a join are the edges from those, and what is ready is layer d (`Placed`). A
  batch leads to the next layer because a join's predecessors all lie in one layer (`LayerFacts`), so that its count is full exactly when the last of
  them is taken (`FollowedOpens`, `BatchQueues`). That the layers end is a counting argument: there are more of them than nodes, and behind an empty one only empty ones.

`Pipelines_proofs` — calls that pass a sequence through several hands (Transfer, Retriever, EmbedCache, Ingest) and the lexical index that rankings come from (BM25Index), for any
documents, files, batches, texts, filters, limits, calls and threads:

* `TransferLossless`: `TransferSpec => []TransferExact`. The invariant has three parts. `ExportInv`: as long as nobody interfered, the file and the page in hand
  together have each listed document once, as it is. `ImportInv`: the documents before the line being read are those
  counted and then those of the batch in hand. `TargetInv`: in a first import without a failed upsert the target is what storing the
  counted ones leaves, and in any import what was stored last stands. What makes them inductive is that storing two
  lists one after the other is storing their concatenation (`StoringInTwo`), and that an import that is run again over what a failed one left ends
  the same way, because what is stored under a name does not depend on what was there (`StoringForgets`).
* `AnswersFuseAll`: `RetrieverSpec => []FusionInOrder`. `CallInv` is about one call: its plan is sound from the moment it is made (distinct tasks, the
  query unless expansions replace it, no more than allowed: `PlanForSound`), and each place of its `lists` is empty or what its task finds.
  A pooled result is delivered by call and place, so that nothing about the order of the pool is needed, and a
  result of an abandoned call goes nowhere.
* `VectorsReturnInPlace`: `EmbedCacheSpec => []EmbeddingsAligned`. `EmbedInv` has the store as it should be (`StoreKept`: every vector
  under its own text, once, within the limit) and of each waiting call that what it has found is a vector of
  the text in that place. `embed_documents` changes the store once for each text, in two loops; they are recursive functions here, which
  exist (`LoopRuns`) and keep the store so at every turn (`LookedUpKeeps`, `StoredAllKeeps`).
* `RunsComplete`: `IngestSpec => []IngestComplete`. `IngestInv` follows a run through the chunks of its source: the texts seen are those of the chunks
  behind it, and the first chunk of each is stored or in the batch in hand; what is counted and what is in hand together are as many as the
  texts seen. That a run over unchanged documents changes nothing needs `SettledInv`: from a run's return to the next edit the store is complete and
  stays as it was, because a batch of the same chunks, written whole or in part, writes what is there (`WriteSettled`).
* `LexicalRankingFresh`: `BM25Spec => []LexicalAnswersExact`. `LexicalInv` says that the four tables count the documents that are there (`TablesSound`;
  that adding and removing a document keep them is one lemma read both ways, `OneDocument`) and that a cached frequency is the one that would be computed
  now (`CachedSound`), which is why every change must empty that cache. What is left is that the candidates of the postings that score above zero
  are the documents that share a term and have the metadata asked for (`FilterSelects`: what `_matches_filter` rejects is what the table of standings leaves out): a share of a term that a document has is positive (`SharesPositive`) and
  the loop over the question's terms adds none that is negative (`SumOfShares`, `ScorePositive`).

`GraphStore_proofs` — for any clients, nodes, relations, starting tables, imports, batch sizes and bounds:

* `NothingDangles`: `GraphSpec => []NoDangling`. `GraphInv` says what each call knows of the table at each of its requests: the nodes a writer has
  passed have items, and its list makes every node before it points at it (`Made`, `Prepared`); whatever still points at a node being deleted is among the
  sources `delete_node` has yet to see to (`Tracked`); and a delete and a writer that use one node have met (`Crossed`), so that node
  is in `raced`. A node outside `raced` that is gone is pointed at by nothing (`Clean`).
* `OnlyMatchesLeave`: `GraphSpec => OnlyMatchingEdgesLeave`, over the same invariant: a rewrite happens only when the list is still the one read, and what it
  leaves out are the edges that match (`KeptIs`, `RewriteEffect`).
* `AppendsStayAccounted`: `GraphSpec => []AppendsAccounted`. The strengthening `Accounted` counts, with the copies in the table, those that clients
  have still to append (`Owed`). When a call starts, it owes what its caller asked for: for an import, that the batches it makes of the grouped edges
  hold each edge of its input once and no other (`ImportOwes`).

`Sublists_proofs` — what the operations on lists that `GraphStore`, `Transfer`, `Retriever`, `EmbedCache`, `Ingest`, `AgentGraph`, `SemanticCache` and `BM25Index` use compute (a comprehension, the keys of a dictionary in the order they came, a
list of lists one after the other, pieces of a given size). `Sublists` states them by the *positions* their elements come from, in order,
instead of with `SelectSeq` or a fold, so that nothing is recursive. `InOrderNumbers` shows that the order exists and numbers every
position once, by induction on sets of numbers; the rest says which elements a list has, how often and in which places (`PickedCount`, `CountConcat`, `JoinedFrom`, `ChunkedFrom`, `IncreasingPlace`, `PickedNext`), and that
a loop written as a recursive function runs (`RunOf`, `LoopRuns`): its values are a function that begins and goes on as the loop does.

Assumptions are the named ones of the modules: finitely many namespaces and documents, natural bounds, batches that are
sequences of sets of documents, graphs that start with items for what their edges name and imports with at least one edge, sources of records in which two records with one id have the same texts (`ingest` stores a chunk under the id of its record: of two different texts only the later would be kept), a `None` (and in ReadPath a `NoContents`) that is no value.

*Only model-checked.*

* Liveness (`CallsReturn`, `EveryRunEnds`): it and `ENABLED` are beyond the prover.
* The computations of Ranking, GraphQuery, the sources of Ingest and Evaluation that `AnswersExact` compares: they are written with the library's folds, which the prover does not expand. Each use would have to be restated over positions, as in `Sublists`, or
  as a recursive function whose existence is proved first, as the loops of EmbedCache, HotTier and BM25Index are.
* `CyclesJudged` (AgentGraph): the depth-first walk is a recursion inside a fold, through states that only its own result limits; what it finds
  needs induction over that data.

## 5. Not modelled

* *Floating point*: quantization, centroids and anchors of the SPFresh index, real distances and scores. Rankings are modelled over
  whole numbers, and the nearest partition is any partition.
* *The SPFresh worker's start and stop, and `get`.* They are thread control around `rebalance`, whose passes are actions, and a read of what `search` reads.
* *Calls into an unlocked cache from several threads.* `SemanticCache` and `ReadPath` take a cache call as one step. What CPython does when an `OrderedDict` changes during an
  iteration is outside the source.
* *Reads of documents that lag*: `get_many` is a `BatchGetItem` without a consistent read. `ResultPages`, `ReadPath`, `Transfer` and `AsyncClient` take it to
  return what was written last; lagging reads are in `GraphStore`, `AgentThread` and `SharedCache`.
* *Model text*: prompts, the helpers of `agents/` that assemble and dispatch them (supervisor, handoff, planner, registry, connectors), what the built-in nodes of `nodes/builtin.py` compute, the
  cross-encoder. Each decision there is a text that a model returned; where control depends on one (the ReAct loop, the
  retrievers' expansions, the judge of an evaluation) it is a nondeterministic choice.
* *Data without control*: document classes, filters, namespaces, transforms, the parsing of import files, the formats of adapters. The other modules that search take a filter as the set of
  what it lets through; that of the lexical index is in `BM25Index`.
* *Thin I/O*: provisioning, credentials, configuration, integrations, the MCP server, the command line (its import is in `Transfer`), telemetry, logging, dashboards. They keep no
  state that another part reads.
* *Joins in graphs whose branches differ in length* run early or twice in the code (a join is released when its source has one active target, and its barrier is not
  emptied). The model has this; `JoinsOnce` claims only what holds, for layered graphs.
