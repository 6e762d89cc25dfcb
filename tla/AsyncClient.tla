---------------------------- MODULE AsyncClient ----------------------------
(***************************************************************************)
(* Writes of the asyncio client, src/dynavec/async_client.py, over         *)
(* AsyncS3VectorsStore and AsyncDynamoDBStore.  aupsert gathers one        *)
(* coroutine per store.  Inside put_vectors every chunk is a task, a       *)
(* semaphore lets some of them run, and the failure of one cancels and     *)
(* awaits the others; put_many sends its items by a batch writer, which    *)
(* sends again what the service left unprocessed.  gather raises the first *)
(* failure and leaves the other coroutine running, behind the back of the  *)
(* caller, who may go on to the next call.                                 *)
(*                                                                         *)
(* Calls are numbered as they begin, and a store holds the number of the   *)
(* call that wrote a document last.  A chunk is one document.  The hot     *)
(* tier of this client is left out: nothing ever loads a namespace into    *)
(* it, so that its insert_many does nothing.                               *)
(***************************************************************************)
EXTENDS Naturals, Sequences, FiniteSets

CONSTANTS
  AsyncDocs,        \* document ids
  Batches,      \* the documents each call names; as many calls (bound)
  MaxTasks,     \* max_workers
  Attempts,     \* of async_retry
  Searchers,    \* searches of a client that shares the cache
  NoAnswers     \* the cache has no answers of the namespace

ASSUME AsyncAssumption ==
  /\ MaxTasks \in Nat \ {0} /\ Attempts \in Nat \ {0}
  /\ Batches \in Seq(SUBSET AsyncDocs)

Writes == DOMAIN Batches
NoItem == [d \in AsyncDocs |-> 0]

VARIABLES
  client,     \* "closed", "entering", "open", "leaving": _exit_stack is set while it is open or leaving
  outcome,    \* of each call: "none", "running", "returned", "raised"
  names,      \* the documents of each call
  chunk,      \* of each call and document: "none", "waiting", "sent", "done"
  tried,      \* attempts at a chunk
  upload,     \* the coroutine put_vectors of each call: "none", "running", "returned", "raised"
  saving,     \* the coroutine put_many of each call
  unsent,     \* of each call, the items its batch writer has to send
  vecs,       \* what S3 Vectors holds
  recs,       \* what DynamoDB holds
  finding,    \* of each search, where it is and what it has read
  answers,    \* the cached answer, or NoAnswers
  late        \* of each call, the documents an earlier call was still writing when it began

acvars == <<client, outcome, names, chunk, tried, upload, saving, unsent, vecs, recs, finding, answers, late>>
uploading == <<chunk, tried, upload, vecs>>
recording == <<saving, unsent, recs>>

(* A search reads the vectors, then the records of what it found, then     *)
(* caches both.  crossed is history: an invalidation of the namespace came *)
(* after it had begun to read.                                             *)
NoFinding == [at |-> "idle", vec |-> NoItem, rec |-> NoItem, crossed |-> FALSE]

AsyncInit ==
  /\ client = "closed"
  /\ outcome = [n \in Writes |-> "none"]
  /\ names = [n \in Writes |-> {}]
  /\ chunk = [n \in Writes |-> [d \in AsyncDocs |-> "none"]]
  /\ tried = [n \in Writes |-> NoItem]
  /\ upload = [n \in Writes |-> "none"]
  /\ saving = [n \in Writes |-> "none"]
  /\ unsent = [n \in Writes |-> {}]
  /\ vecs = NoItem /\ recs = NoItem
  /\ finding = [s \in Searchers |-> NoFinding] /\ answers = NoAnswers
  /\ late = [n \in Writes |-> [vec |-> {}, rec |-> {}]]

Chunks(n, state) == {d \in AsyncDocs : chunk[n][d] = state}
Written(store, n, D) == [d \in AsyncDocs |-> IF d \in D THEN n ELSE store[d]]

----------------------------------------------------------------------------
(* The caller waits for a call before the next one, but not for what a     *)
(* call that raised has left running.                                      *)
Resting == \A n \in Writes : outcome[n] # "running"

(* The store of the vectors is entered first and left last. *)
VectorsUp == client # "closed"
RecordsUp == client = "open"

Become(state) ==
  /\ Resting
  /\ client' = state
  /\ UNCHANGED <<outcome, names, uploading, recording, finding, answers, late>>

(* __aenter__ enters the store of the vectors, *)
EnterVectors == client = "closed" /\ Become("entering")

(* then that of the records; *)
EnterRecords == client = "entering" /\ Become("open")

(* if that fails, the first is left again. *)
EnterFails == client = "entering" /\ Become("closed")

(* aclose, or the end of the async with, leaves them in reverse. *)
LeaveRecords == client = "open" /\ Become("leaving")
LeaveVectors == client = "leaving" /\ Become("closed")

(* aupsert: it raises on a closed client or when a document cannot be      *)
(* prepared; otherwise both coroutines start.                              *)
Aupsert(n) ==
  /\ Resting /\ client \in {"closed", "open"}
  /\ outcome[n] = "none" /\ \A m \in 1 .. (n - 1) : outcome[m] # "none"
  /\ \/ /\ outcome' = [outcome EXCEPT ![n] = "raised"]
        /\ UNCHANGED <<names, chunk, upload, saving, unsent, late>>
     \/ /\ client = "open"
        /\ outcome' = [outcome EXCEPT ![n] = "running"]
        /\ names' = [names EXCEPT ![n] = Batches[n]]
        /\ chunk' = [chunk EXCEPT ![n] = [d \in AsyncDocs |-> IF d \in Batches[n] THEN "waiting" ELSE "none"]]
        /\ upload' = [upload EXCEPT ![n] = "running"]
        /\ saving' = [saving EXCEPT ![n] = "running"]
        /\ unsent' = [unsent EXCEPT ![n] = Batches[n]]
        /\ late' = [late EXCEPT ![n] =
             [vec |-> UNION {names[m] : m \in {i \in Writes : upload[i] = "running"}},
              rec |-> UNION {names[m] : m \in {i \in Writes : saving[i] = "running"}}]]
  /\ UNCHANGED <<client, tried, vecs, recs, finding, answers>>

----------------------------------------------------------------------------
(* put_vectors: a task gets through the semaphore and sends its chunk. *)
SendChunk(n, d) ==
  /\ VectorsUp /\ chunk[n][d] = "waiting"
  /\ Cardinality(Chunks(n, "sent")) < MaxTasks
  /\ chunk' = [chunk EXCEPT ![n][d] = "sent"]
  /\ tried' = [tried EXCEPT ![n][d] = 1]
  /\ UNCHANGED <<client, outcome, names, upload, vecs, recording, finding, answers, late>>

ChunkStored(n, d) ==
  /\ VectorsUp /\ chunk[n][d] = "sent"
  /\ vecs' = Written(vecs, n, {d})
  /\ chunk' = [chunk EXCEPT ![n][d] = "done"]
  /\ tried' = [tried EXCEPT ![n][d] = 0]
  /\ UNCHANGED <<client, outcome, names, upload, recording, finding, answers, late>>

(* _put_batch is decorated: a chunk whose request failed, applied or not,  *)
(* is sent again after a while.                                            *)
ChunkRetried(n, d) ==
  /\ VectorsUp /\ chunk[n][d] = "sent" /\ tried[n][d] < Attempts
  /\ tried' = [tried EXCEPT ![n][d] = @ + 1]
  /\ vecs' \in {vecs, Written(vecs, n, {d})}
  /\ UNCHANGED <<client, outcome, names, chunk, upload, recording, finding, answers, late>>

(* Mutant: the tasks of the other chunks are left to themselves. *)
UploadFailsLeaves(n) ==
  /\ upload[n] = "running" /\ Chunks(n, "sent") # {}
  /\ \E d \in Chunks(n, "sent") : chunk' = [chunk EXCEPT ![n][d] = "none"]
  /\ upload' = [upload EXCEPT ![n] = "raised"]
  /\ UNCHANGED <<client, outcome, names, tried, vecs, recording, finding, answers, late>>

(* A chunk fails for good, or on a closed client: the other tasks are      *)
(* cancelled and awaited, their requests applied or not.                   *)
UploadFails(n) ==
  /\ upload[n] = "running"
  /\ \/ Chunks(n, "sent") # {}
     \/ ~VectorsUp /\ Chunks(n, "waiting") # {}
  /\ \E D \in SUBSET Chunks(n, "sent") : vecs' = Written(vecs, n, D)
  /\ chunk' = [chunk EXCEPT ![n] = [d \in AsyncDocs |-> IF chunk[n][d] = "done" THEN "done" ELSE "none"]]
  /\ tried' = [tried EXCEPT ![n] = NoItem]
  /\ upload' = [upload EXCEPT ![n] = "raised"]
  /\ UNCHANGED <<client, outcome, names, recording, finding, answers, late>>

UploadReturns(n) ==
  /\ upload[n] = "running" /\ Chunks(n, "done") = names[n]
  /\ upload' = [upload EXCEPT ![n] = "returned"]
  /\ UNCHANGED <<client, outcome, names, chunk, tried, vecs, recording, finding, answers, late>>

----------------------------------------------------------------------------
(* put_many: the service takes some of the items; the rest goes again. *)
SaveSome(n) ==
  /\ RecordsUp /\ saving[n] = "running"
  /\ \E D \in SUBSET unsent[n] \ {{}} :
       /\ recs' = Written(recs, n, D)
       /\ unsent' = [unsent EXCEPT ![n] = @ \ D]
  /\ UNCHANGED <<client, outcome, names, uploading, saving, finding, answers, late>>

(* An item is too large, before anything is sent, or a request of the      *)
(* batch writer fails, applied or not; it is not tried again.              *)
SaveFails(n) ==
  /\ saving[n] = "running" /\ unsent[n] # {}
  /\ \E D \in SUBSET unsent[n] : recs' = Written(recs, n, D)
  /\ unsent' = [unsent EXCEPT ![n] = {}]
  /\ saving' = [saving EXCEPT ![n] = "raised"]
  /\ UNCHANGED <<client, outcome, names, uploading, finding, answers, late>>

SaveReturns(n) ==
  /\ saving[n] = "running" /\ unsent[n] = {}
  /\ saving' = [saving EXCEPT ![n] = "returned"]
  /\ UNCHANGED <<client, outcome, names, uploading, unsent, recs, finding, answers, late>>

----------------------------------------------------------------------------
(* Both coroutines have returned: the namespace leaves the cache. *)
Gathered(n) ==
  /\ outcome[n] = "running" /\ upload[n] = "returned" /\ saving[n] = "returned"
  /\ outcome' = [outcome EXCEPT ![n] = "returned"]
  /\ answers' = NoAnswers
  /\ finding' = [s \in Searchers |->
                   IF finding[s].at = "idle" THEN finding[s] ELSE [finding[s] EXCEPT !.crossed = TRUE]]
  /\ UNCHANGED <<client, names, uploading, recording, late>>

(* gather raises what the first coroutine to fail has raised. *)
GatherRaises(n) ==
  /\ outcome[n] = "running" /\ (upload[n] = "raised" \/ saving[n] = "raised")
  /\ outcome' = [outcome EXCEPT ![n] = "raised"]
  /\ UNCHANGED <<client, names, uploading, recording, finding, answers, late>>

(* The task of the caller is cancelled, by a timeout say, and with it      *)
(* every task under the call; requests on their way are applied or not.    *)
Cancelled(n) ==
  /\ outcome[n] = "running"
  /\ outcome' = [outcome EXCEPT ![n] = "raised"]
  /\ \E D \in SUBSET Chunks(n, "sent") : vecs' = Written(vecs, n, D)
  /\ \E D \in SUBSET unsent[n] : recs' = Written(recs, n, D)
  /\ chunk' = [chunk EXCEPT ![n] = [d \in AsyncDocs |-> "none"]]
  /\ tried' = [tried EXCEPT ![n] = NoItem]
  /\ upload' = [upload EXCEPT ![n] = "raised"]
  /\ saving' = [saving EXCEPT ![n] = "raised"]
  /\ unsent' = [unsent EXCEPT ![n] = {}]
  /\ UNCHANGED <<client, names, finding, answers, late>>

----------------------------------------------------------------------------
(* The search of another client (Dynavec, without a hot tier) with the     *)
(* same cache.  Having missed the cache, it queries S3 Vectors,            *)
SearchFinds(s) ==
  /\ finding[s].at = "idle"
  /\ finding' = [finding EXCEPT ![s] = [NoFinding EXCEPT !.at = "found", !.vec = vecs]]
  /\ UNCHANGED <<client, outcome, names, uploading, recording, answers, late>>

(* reads the texts of what it found (as they are: a BatchGetItem that      *)
(* answers with older ones is left out),                                   *)
SearchHydrates(s) ==
  /\ finding[s].at = "found"
  /\ finding' = [finding EXCEPT ![s].at = "hydrated",
        ![s].rec = [d \in AsyncDocs |-> IF finding[s].vec[d] = 0 THEN 0 ELSE recs[d]]]
  /\ UNCHANGED <<client, outcome, names, uploading, recording, answers, late>>

(* and puts its answer, unless that is empty, whatever happened meanwhile; *)
SearchPuts(s) ==
  /\ finding[s].at = "hydrated"
  /\ answers' = IF finding[s].vec = NoItem THEN answers
                ELSE [vec |-> finding[s].vec, rec |-> finding[s].rec, crossed |-> finding[s].crossed]
  /\ finding' = [finding EXCEPT ![s] = NoFinding]
  /\ UNCHANGED <<client, outcome, names, uploading, recording, late>>

(* or it raises.                                                           *)
SearchFails(s) ==
  /\ finding[s].at # "idle"
  /\ finding' = [finding EXCEPT ![s] = NoFinding]
  /\ UNCHANGED <<client, outcome, names, uploading, recording, answers, late>>

AsyncNext ==
  \/ EnterVectors \/ EnterRecords \/ EnterFails \/ LeaveRecords \/ LeaveVectors
  \/ \E s \in Searchers : SearchFinds(s) \/ SearchHydrates(s) \/ SearchPuts(s) \/ SearchFails(s)
  \/ \E n \in Writes :
       \/ Aupsert(n)
       \/ \E d \in AsyncDocs : SendChunk(n, d) \/ ChunkStored(n, d) \/ ChunkRetried(n, d)
       \/ UploadFails(n) \/ UploadReturns(n)
       \/ SaveSome(n) \/ SaveFails(n) \/ SaveReturns(n)
       \/ Gathered(n) \/ GatherRaises(n) \/ Cancelled(n)

----------------------------------------------------------------------------
(* The last call that names d. *)
LastWrite(d, n) == d \in names[n] /\ \A m \in Writes : d \in names[m] => m <= n

(* A call that returned stands in both stores until the next one: nothing  *)
(* that a cancelled, failed or retried call leaves behind writes over it,  *)
(* except the one coroutine that gather did not wait for, when that was    *)
(* still writing the document.                                             *)
ReturnedWritesStand ==
  \A n \in Writes, d \in AsyncDocs :
    LastWrite(d, n) /\ outcome[n] = "returned" =>
      /\ vecs[d] = n \/ d \in late[n].vec
      /\ recs[d] = n \/ d \in late[n].rec

(* Of one call at most one coroutine outlives it, and none of its tasks    *)
(* outlives put_vectors.                                                   *)
NothingElseRuns ==
  \A n \in Writes :
    /\ outcome[n] = "raised" => ~(upload[n] = "running" /\ saving[n] = "running")
    /\ upload[n] # "running" => Chunks(n, "sent") \cup Chunks(n, "waiting") = {}

(* What an answer shows is what the stores hold.                           *)
Shown(vec, rec) == vec = vecs /\ \A d \in AsyncDocs : vec[d] # 0 => rec[d] = recs[d]

(* Once every call has returned, the cache shows nothing older than the    *)
(* stores, unless its search read before an invalidation and put after it. *)
AnswersFresh ==
  (\A n \in Writes : outcome[n] \in {"none", "returned"}) =>
    answers = NoAnswers \/ answers.crossed \/ Shown(answers.vec, answers.rec)

(* What the asynchronous client has written is there: see the three parts. *)
AsyncWritesSettle == ReturnedWritesStand /\ NothingElseRuns /\ AnswersFresh
============================================================================
