---------------------------- MODULE HybridStore ----------------------------
(***************************************************************************)
(* The write path of the Dynavec client: upsert, update and delete over    *)
(* two independent AWS stores, S3 Vectors (vectors and filterable          *)
(* metadata) and DynamoDB (canonical text and metadata, with the           *)
(* optimistic-concurrency version that update() relies on).                *)
(*                                                                         *)
(* One namespace is modelled.  A client is a thread calling one Dynavec    *)
(* object or a process with its own.  Every step is one call to a store as *)
(* the store sees it, so calls of different clients interleave at every    *)
(* store access.  Data is abstracted to its provenance: a text, a vector   *)
(* or a metadata dictionary is the identifier of the call that wrote it.   *)
(***************************************************************************)
EXTENDS Naturals, Sequences, FiniteSets

CONSTANTS
  Clients,        \* concurrent callers
  Docs,           \* document ids of the namespace
  Ops,            \* the operations clients use: subset of AllOps
  Batches,        \* the batches upsert and delete are called with: each is
                  \* the sequence of the chunks chunked() cuts it into
  ParallelWrites, \* config.parallel_writes
  TTLs,           \* whether documents are written with a time-to-live
  MaxCalls,       \* bound: calls started
  MaxFaults,      \* bound: store calls that fail
  None,           \* no item, no vector
  Unsettled       \* no content is due

AllOps == {"upsert", "update", "delete"}

ASSUME OpsAssumption == Ops \subseteq AllOps
ASSUME BatchesAssumption == \A b \in Batches : b \in Seq(SUBSET Docs)
ASSUME TTLsAssumption == TTLs \subseteq BOOLEAN
ASSUME BoundsAssumption == MaxCalls \in Nat /\ MaxFaults \in Nat

(* Call identifiers; 0 stands for "no text". *)
Ids == 0 .. MaxCalls

(* A DynamoDB item.  rev is the call whose metadata it carries; version is *)
(* the VERSION_ATTR counter, 0 when the attribute is absent.               *)
Item == [text : Ids, rev : Ids, version : Nat, ttl : BOOLEAN]

(* An S3 Vectors entry: the embedded text and the metadata's call. *)
Entry == [vec : Ids, rev : Ids]

(* What the two stores together hold of a document. *)
Content == [text : Ids, vec : Ids, rev : Ids]

ASSUME NoneAssumption == None \notin Item /\ None \notin Entry /\ None \notin Docs
ASSUME UnsettledAssumption == None \notin Content /\ Unsettled \notin Content \cup {None}

(* A unit of work on the executor: one put_vectors / put_many chunk, or    *)
(* one delete_vectors / delete_many call.  docs is what it has still to    *)
(* send; n is its place in the list given to _run_parallel.                *)
Task == [call : Ids, n : Nat, store : {"s3", "ddb"}, op : {"put", "del"},
         docs : SUBSET Docs, ttl : BOOLEAN, status : {"run", "ok", "err"}]

UpdatePcs == {"read", "vector", "commit", "put"}

(* A call in progress.  doc, read, text and vec belong to update: the      *)
(* document, the item it read and the text and vector it will write.       *)
(* sets, seen and solo are history: which of text and vector is new, the   *)
(* epoch of doc when it was read, and the documents no other writer has    *)
(* touched while the call ran.                                             *)
Call == [pc : {"idle", "await"} \cup UpdatePcs,
         id : Ids, op : AllOps, docs : SUBSET Docs, doc : Docs \cup {None},
         read : Item \cup {None}, text : Ids, vec : Ids,
         sets : SUBSET {"text", "vec"}, seen : Nat, solo : SUBSET Docs]

VARIABLES
  s3,       \* S3 Vectors: [Docs -> Entry or None]
  ddb,      \* DynamoDB: [Docs -> Item or None]
  call,     \* what each client is doing
  tasks,    \* work submitted to the executor and not yet collected
  started,  \* number of calls started; the last call's identifier
  faults,   \* number of store calls that failed
  epoch,    \* history: unversioned changes made to each DynamoDB item
  rejected, \* history: update calls that raised before committing
  settled   \* history: what each document should be, after the calls that
            \* wrote it undisturbed; Unsettled if the last one was not

vars == <<s3, ddb, call, tasks, started, faults, epoch, rejected, settled>>

----------------------------------------------------------------------------
(* Helpers *)

Version(item) == IF item = None THEN 0 ELSE item.version

Idle == [pc |-> "idle", id |-> 0, op |-> "upsert", docs |-> {}, doc |-> None,
         read |-> None, text |-> 0, vec |-> 0, sets |-> {}, seen |-> 0,
         solo |-> {}]

BatchCall(op, docs) == [Idle EXCEPT !.pc = "await", !.op = op, !.docs = docs]

UpdateCall(d) ==
  [Idle EXCEPT !.pc = "read", !.op = "update", !.docs = {d}, !.doc = d]

TasksOf(id) == {t \in tasks : t.call = id}

(* Some call or some abandoned task may still write d. *)
Busy(d) == \/ \E c \in Clients : call[c].pc # "idle" /\ d \in call[c].docs
           \/ \E t \in tasks : d \in t.docs

(* The stores hold w of d, or nothing if w is None. *)
Holds(d, w) == IF w = None
               THEN s3[d] = None /\ ddb[d] = None
               ELSE /\ s3[d] = [vec |-> w.vec, rev |-> w.rev]
                    /\ ddb[d] # None /\ ddb[d].text = w.text /\ ddb[d].rev = w.rev

(* c starts a call on D: it runs undisturbed on the documents nobody else  *)
(* may write, and disturbs every other call on D.                          *)
Enter(c, new) ==
  /\ started < MaxCalls
  /\ call[c].pc = "idle"
  /\ started' = started + 1
  /\ call' = [x \in Clients |->
                IF x = c
                THEN [new EXCEPT !.id = started + 1,
                                 !.solo = {d \in new.docs : ~Busy(d)}]
                ELSE [call[x] EXCEPT !.solo = @ \ new.docs]]

Unsettle(D) == [d \in Docs |-> IF d \in D THEN Unsettled ELSE settled[d]]

(* What an upsert or delete leaves of the documents it had for itself.     *)
Succeeded(c) ==
  LET id == call[c].id
      done == IF call[c].op = "upsert" THEN [text |-> id, vec |-> id, rev |-> id] ELSE None
  IN [d \in Docs |-> IF d \in call[c].solo THEN done ELSE Unsettle(call[c].docs)[d]]

(* What an update leaves of w: each part it does not set stays, and of a   *)
(* document that is unsettled it has to set both.                          *)
Amended(c, w) ==
  LET id == call[c].id
      old == IF w = None THEN [text |-> 0, vec |-> 0] ELSE w
  IN IF call[c].sets = {"text", "vec"}
     THEN [text |-> id, vec |-> id, rev |-> id]
     ELSE IF w = Unsettled THEN Unsettled
     ELSE [text |-> IF "text" \in call[c].sets THEN id ELSE old.text,
           vec |-> IF "vec" \in call[c].sets THEN id ELSE old.vec,
           rev |-> id]

(* c's call is over: it returns or raises. *)
Leave(c) == call' = [call EXCEPT ![c] = Idle]

----------------------------------------------------------------------------
(* The executor.  A task sends its documents one after another; it may     *)
(* fail at any point, and the store may have applied the call that failed. *)

(* Without parallel_writes the tasks run in order in the calling thread. *)
MayRun(t) ==
  /\ t.status = "run"
  /\ ParallelWrites \/ \A u \in TasksOf(t.call) : u.n < t.n => u.status = "ok"

(* put_vectors, put_many, delete_vectors or delete_many reaches document d.*)
(* put_many writes no version attribute.                                   *)
StoreWrite(t, d) ==
  \/ /\ t.store = "s3"
     /\ s3' = [s3 EXCEPT ![d] = IF t.op = "put"
                                THEN [vec |-> t.call, rev |-> t.call]
                                ELSE None]
     /\ UNCHANGED <<ddb, epoch>>
  \/ /\ t.store = "ddb"
     /\ ddb' = [ddb EXCEPT ![d] = IF t.op = "put"
                                  THEN [text |-> t.call, rev |-> t.call,
                                        version |-> 0, ttl |-> t.ttl]
                                  ELSE None]
     /\ epoch' = [epoch EXCEPT ![d] = @ + 1]
     /\ UNCHANGED s3

(* A task that ends leaves its result for the call that waits for it; the  *)
(* result of a call that has already raised is dropped.                    *)
Ended(t, status) ==
  IF \E c \in Clients : call[c].pc = "await" /\ call[c].id = t.call
  THEN (tasks \ {t}) \cup {[t EXCEPT !.docs = {}, !.status = status]}
  ELSE tasks \ {t}

TaskApply(t) ==
  /\ MayRun(t)
  /\ \E d \in t.docs :
       /\ StoreWrite(t, d)
       /\ tasks' = IF t.docs = {d}
                   THEN Ended(t, "ok")
                   ELSE (tasks \ {t}) \cup {[t EXCEPT !.docs = @ \ {d}]}
  /\ UNCHANGED <<call, started, faults, rejected, settled>>

TaskFail(t) ==
  /\ MayRun(t)
  /\ faults < MaxFaults
  /\ faults' = faults + 1
  /\ UNCHANGED <<s3, ddb, epoch>> \/ \E d \in t.docs : StoreWrite(t, d)
  /\ tasks' = Ended(t, "err")
  /\ UNCHANGED <<call, started, rejected, settled>>

----------------------------------------------------------------------------
(* upsert and delete: submit the tasks, wait for them in order. *)

PutTasks(id, b, ttl) ==
  LET put(n, store, docs) == [call |-> id, n |-> n, store |-> store, op |-> "put",
                              docs |-> docs, ttl |-> ttl, status |-> "run"]
  IN {put(n, "s3", b[n]) : n \in 1 .. Len(b)}
       \cup {put(Len(b) + n, "ddb", b[n]) : n \in 1 .. Len(b)}

DelTasks(id, docs) ==
  LET del(n, store) == [call |-> id, n |-> n, store |-> store, op |-> "del",
                        docs |-> docs, ttl |-> FALSE, status |-> "run"]
  IN {del(1, "s3"), del(2, "ddb")}

BatchDocs(b) == UNION {b[n] : n \in 1 .. Len(b)}

(* Validation, transforms and embedding (_prepare) precede every write and *)
(* touch no store, so the first visible step is the submission.            *)
Upsert(c) ==
  /\ "upsert" \in Ops
  /\ \E b \in Batches, ttl \in TTLs :
       /\ Enter(c, BatchCall("upsert", BatchDocs(b)))
       /\ tasks' = tasks \cup PutTasks(started + 1, b, ttl)
  /\ UNCHANGED <<s3, ddb, faults, epoch, rejected, settled>>

Delete(c) ==
  /\ "delete" \in Ops
  /\ \E b \in Batches :
       /\ Enter(c, BatchCall("delete", BatchDocs(b)))
       /\ tasks' = tasks \cup DelTasks(started + 1, BatchDocs(b))
  /\ UNCHANGED <<s3, ddb, faults, epoch, rejected, settled>>

(* Mutant: the call returns when its first future has. *)
AwaitFirst(c) ==
  /\ call[c].pc = "await"
  /\ \E t \in TasksOf(call[c].id) : t.status = "ok"
  /\ tasks' = tasks \ {t \in TasksOf(call[c].id) : t.status = "ok"}
  /\ settled' = Succeeded(c)
  /\ Leave(c)
  /\ UNCHANGED <<s3, ddb, started, faults, epoch, rejected>>

(* Every future has returned. *)
AwaitOk(c) ==
  /\ call[c].pc = "await"
  /\ \A t \in TasksOf(call[c].id) : t.status = "ok"
  /\ tasks' = tasks \ TasksOf(call[c].id)
  /\ settled' = Succeeded(c)
  /\ Leave(c)
  /\ UNCHANGED <<s3, ddb, started, faults, epoch, rejected>>

(* Mutant: a failure is noticed only when every other task succeeded. *)
AwaitRaiseLone(c) ==
  /\ call[c].pc = "await"
  /\ \E t \in TasksOf(call[c].id) :
       /\ t.status = "err"
       /\ \A u \in TasksOf(call[c].id) \ {t} : u.status = "ok"
  /\ tasks' = tasks \ TasksOf(call[c].id)
  /\ settled' = Unsettle(call[c].docs)
  /\ Leave(c)
  /\ UNCHANGED <<s3, ddb, started, faults, epoch, rejected>>

(* f.result() raises the first failure in submission order.  On the pool,  *)
(* tasks that have not finished keep running after the call has raised;    *)
(* sequentially, the later tasks are never run.                            *)
AwaitRaise(c) ==
  /\ call[c].pc = "await"
  /\ \E t \in TasksOf(call[c].id) :
       /\ t.status = "err"
       /\ \A u \in TasksOf(call[c].id) : u.n < t.n => u.status = "ok"
  /\ tasks' = tasks \ {t \in TasksOf(call[c].id) :
                         ~ParallelWrites \/ t.status # "run"}
  /\ settled' = Unsettle(call[c].docs)
  /\ Leave(c)
  /\ UNCHANGED <<s3, ddb, started, faults, epoch, rejected>>

----------------------------------------------------------------------------
(* update: read-modify-write guarded by the version. *)

Update(c) ==
  /\ "update" \in Ops
  /\ \E d \in Docs : Enter(c, UpdateCall(d))
  /\ UNCHANGED <<s3, ddb, tasks, faults, epoch, rejected, settled>>

(* NotFoundError, ConflictError or ConfigurationError. *)
Reject(c) ==
  /\ rejected' = rejected \cup {call[c].id}
  /\ Leave(c)
  /\ UNCHANGED <<s3, ddb, tasks, started, faults, epoch, settled>>

(* The checks on what get_versioned returned.  create is upsert_if_missing,*)
(* expected is expected_version.                                           *)
Refused(item, create, expected) ==
  \/ item = None /\ ~create
  \/ expected # None /\ expected # Version(item)

UpdateRead(c) ==
  LET item == ddb[call[c].doc]
  IN /\ call[c].pc = "read"
     /\ \E create \in BOOLEAN, expected \in {None} \cup Ids :
          \/ Refused(item, create, expected) /\ Reject(c)
          \/ /\ ~Refused(item, create, expected)
             /\ call' = [call EXCEPT ![c].pc = "vector", ![c].read = item,
                                     ![c].seen = epoch[call[c].doc]]
             /\ UNCHANGED <<s3, ddb, tasks, started, faults, epoch, rejected, settled>>

(* The text an update writes: the caller's, or the one it read. *)
TextFor(c, new) ==
  IF "text" \in new THEN call[c].id
  ELSE IF call[c].read = None THEN 0 ELSE call[c].read.text

(* The caller gives a vector, with a text or without, or a text that the   *)
(* embedder makes a vector of.                                             *)
UpdateEmbed(c) ==
  /\ call[c].pc = "vector"
  /\ \E new \in {{"vec"}, {"text", "vec"}} :
       call' = [call EXCEPT ![c].pc = "commit", ![c].text = TextFor(c, new),
                            ![c].vec = call[c].id, ![c].sets = new]
  /\ UNCHANGED <<s3, ddb, tasks, started, faults, epoch, rejected, settled>>

(* Mutant: the stored text is not carried over. *)
UpdateFetchDropsText(c) ==
  /\ call[c].pc = "vector" /\ s3[call[c].doc] # None
  /\ call' = [call EXCEPT ![c].pc = "commit", ![c].text = None,
                          ![c].vec = s3[call[c].doc].vec]
  /\ UNCHANGED <<s3, ddb, tasks, started, faults, epoch, rejected, settled>>

(* Without a new vector the stored one is read back and kept: when only    *)
(* metadata changes, but also beside a new text if there is no embedder.   *)
UpdateFetch(c) ==
  LET d == call[c].doc
  IN /\ call[c].pc = "vector"
     /\ \/ s3[d] = None /\ Reject(c)
        \/ /\ s3[d] # None
           /\ \E new \in {{}, {"text"}} :
                call' = [call EXCEPT ![c].pc = "commit", ![c].text = TextFor(c, new),
                                     ![c].vec = s3[d].vec, ![c].sets = new]
           /\ UNCHANGED <<s3, ddb, tasks, started, faults, epoch, rejected, settled>>

(* Mutant: an item without a version is written unconditionally. *)
ConditionSkipsNew(c) ==
  \/ Version(call[c].read) = 0
  \/ Version(ddb[call[c].doc]) = Version(call[c].read)

(* put_versioned's ConditionExpression: attribute_not_exists(version) for  *)
(* 0, equality otherwise.                                                  *)
Condition(c) == Version(ddb[call[c].doc]) = Version(call[c].read)

(* put_versioned's Item; a ttl the call does not set is carried over. *)
NewItem(c, ttl) ==
  [text |-> call[c].text, rev |-> call[c].id,
   version |-> Version(call[c].read) + 1,
   ttl |-> ttl \/ (call[c].read # None /\ call[c].read.ttl)]

(* Mutant: S3 Vectors is written first, as it was (in parallel) before the *)
(* conditional write was put in front.                                     *)
UpdateCommitLate(c) ==
  /\ call[c].pc = "commit"
  /\ s3' = [s3 EXCEPT ![call[c].doc] = [vec |-> call[c].vec, rev |-> call[c].id]]
  /\ \/ /\ ~Condition(c)
        /\ rejected' = rejected \cup {call[c].id}
        /\ Leave(c)
        /\ UNCHANGED ddb
     \/ /\ Condition(c)
        /\ \E ttl \in TTLs : ddb' = [ddb EXCEPT ![call[c].doc] = NewItem(c, ttl)]
        /\ call' = [call EXCEPT ![c].pc = "put"]
        /\ UNCHANGED rejected
  /\ UNCHANGED <<tasks, started, faults, epoch, settled>>

(* The conditional put_item; on ConditionalCheckFailed, ConflictError. *)
UpdateCommit(c) ==
  /\ call[c].pc = "commit"
  /\ \/ ~Condition(c) /\ Reject(c)
     \/ /\ Condition(c)
        /\ \E ttl \in TTLs : ddb' = [ddb EXCEPT ![call[c].doc] = NewItem(c, ttl)]
        /\ call' = [call EXCEPT ![c].pc = "put"]
        /\ UNCHANGED <<s3, tasks, started, faults, epoch, rejected, settled>>

(* put_vectors after the conditional write, and the return. *)
UpdatePut(c) ==
  LET d == call[c].doc
  IN /\ call[c].pc = "put"
     /\ s3' = [s3 EXCEPT ![d] = [vec |-> call[c].vec, rev |-> call[c].id]]
     /\ settled' = [settled EXCEPT ![d] =
                      IF d \in call[c].solo THEN Amended(c, @) ELSE Unsettled]
     /\ Leave(c)
     /\ UNCHANGED <<ddb, tasks, started, faults, epoch, rejected>>

(* A store call of update raises something else (throttling, timeout);     *)
(* the store may have applied the write.                                   *)
UpdateFault(c) ==
  LET d == call[c].doc
  IN /\ call[c].pc \in UpdatePcs
     /\ faults < MaxFaults
     /\ faults' = faults + 1
     /\ \/ UNCHANGED <<s3, ddb>>
        \/ /\ call[c].pc = "commit" /\ Condition(c)
           /\ \E ttl \in TTLs : ddb' = [ddb EXCEPT ![d] = NewItem(c, ttl)]
           /\ UNCHANGED s3
        \/ /\ call[c].pc = "put"
           /\ s3' = [s3 EXCEPT ![d] = [vec |-> call[c].vec, rev |-> call[c].id]]
           /\ UNCHANGED ddb
     /\ settled' = IF call[c].pc \in {"commit", "put"} THEN Unsettle({d}) ELSE settled
     /\ Leave(c)
     /\ UNCHANGED <<tasks, started, epoch, rejected>>

----------------------------------------------------------------------------
(* DynamoDB removes an item whose time-to-live has passed; the vector in   *)
(* S3 Vectors stays.                                                       *)
Expire(d) ==
  /\ ddb[d] # None /\ ddb[d].ttl
  /\ ddb' = [ddb EXCEPT ![d] = None]
  /\ epoch' = [epoch EXCEPT ![d] = @ + 1]
  /\ call' = [c \in Clients |-> [call[c] EXCEPT !.solo = @ \ {d}]]
  /\ settled' = Unsettle({d})
  /\ UNCHANGED <<s3, tasks, started, faults, rejected>>

----------------------------------------------------------------------------
Init ==
  /\ s3 = [d \in Docs |-> None]
  /\ ddb = [d \in Docs |-> None]
  /\ call = [c \in Clients |-> Idle]
  /\ tasks = {}
  /\ started = 0
  /\ faults = 0
  /\ epoch = [d \in Docs |-> 0]
  /\ rejected = {}
  /\ settled = [d \in Docs |-> None]

ClientStep(c) ==
  \/ Upsert(c) \/ Delete(c) \/ AwaitOk(c) \/ AwaitRaise(c)
  \/ Update(c) \/ UpdateRead(c) \/ UpdateEmbed(c) \/ UpdateFetch(c)
  \/ UpdateCommit(c) \/ UpdatePut(c) \/ UpdateFault(c)

TaskStep(t) == TaskApply(t) \/ TaskFail(t)

Next ==
  \/ \E c \in Clients : ClientStep(c)
  \/ \E t \in tasks : TaskStep(t)
  \/ \E d \in Docs : Expire(d)

Spec == Init /\ [][Next]_vars

(* Every store call of boto3 returns or times out, and the executor runs   *)
(* what it is given: a call or a task under way is not suspended forever.  *)
(* Nothing obliges a client to start a call, a store to fail or an item to *)
(* expire.                                                                 *)
Fairness ==
  /\ \A c \in Clients :
       WF_vars(\/ AwaitOk(c) \/ AwaitRaise(c) \/ UpdateRead(c) \/ UpdateEmbed(c)
               \/ UpdateFetch(c) \/ UpdateCommit(c) \/ UpdatePut(c))
  /\ WF_vars(\E t \in tasks : TaskApply(t))

FairSpec == Spec /\ Fairness

----------------------------------------------------------------------------
(* Properties *)

DocKnown == \A c \in Clients : call[c].pc \in UpdatePcs => call[c].doc \in Docs

(* Every variable holds values of the stores and of the client's protocol, *)
(* and an update under way has its document.                               *)
TypeOK ==
  /\ s3 \in [Docs -> Entry \cup {None}]
  /\ ddb \in [Docs -> Item \cup {None}]
  /\ call \in [Clients -> Call]
  /\ DocKnown
  /\ tasks \subseteq Task
  /\ started \in Ids
  /\ faults \in 0 .. MaxFaults
  /\ epoch \in [Docs -> Nat]
  /\ rejected \subseteq Ids
  /\ settled \in [Docs -> Content \cup {None, Unsettled}]

(* The conditional write of c succeeds in this step. *)
Commits(c) == call[c].pc = "commit" /\ ddb'[call[c].doc] # ddb[call[c].doc]
                                    /\ call'[c].pc # "commit"

(* update() of src/dynavec/client.py never loses another update: the item  *)
(* its conditional write replaces is the item it read, whatever the other  *)
(* clients did in between, unless an upsert, a delete or an expiry (which  *)
(* carry no version) went through meanwhile.                               *)
NoLostUpdate ==
  [][\A c \in Clients :
       Commits(c) => \/ ddb[call[c].doc] = call[c].read
                     \/ epoch[call[c].doc] # call[c].seen]_vars

(* What update()'s documentation promises without that exception: if the   *)
(* document changed since it was read, ConflictError and nothing written.  *)
ConflictOnAnyChange ==
  [][\A c \in Clients : Commits(c) => ddb[call[c].doc] = call[c].read]_vars

(* update() raises NotFoundError, ConflictError and ConfigurationError     *)
(* before either store is touched: nothing written by such a call is in a  *)
(* store, and nothing of it is on its way.                                 *)
RejectedWritesNothing ==
  \A d \in Docs :
    /\ s3[d] # None => s3[d].rev \notin rejected /\ s3[d].vec \notin rejected
    /\ ddb[d] # None => ddb[d].rev \notin rejected /\ ddb[d].text \notin rejected

(* The two stores are repaired by the next quiet write: whatever earlier   *)
(* races, failures and abandoned tasks left behind, once an upsert, a      *)
(* delete or an update of both text and vector has run undisturbed and     *)
(* returned, they hold what it wrote and one revision of it; undisturbed   *)
(* updates of the text, the vector or the metadata alone change that part  *)
(* and no other, in whichever store it is.                                 *)
QuietWritesAgree ==
  \A d \in Docs : settled[d] = Unsettled \/ Busy(d) \/ Holds(d, settled[d])

(* Two successful updates cannot leave the stores apart: with no write in  *)
(* flight and no store call ever failed, they hold the same revision.      *)
UpdatesAgree ==
  (faults = 0 /\ tasks = {} /\ \A c \in Clients : call[c].pc = "idle")
    => \A d \in Docs : IF ddb[d] = None THEN s3[d] = None
                       ELSE s3[d] # None /\ s3[d].rev = ddb[d].rev

(* Every call returns or raises, whatever fails and in whatever order its  *)
(* futures finish.                                                         *)
CallsReturn == \A c \in Clients : call[c].pc # "idle" ~> call[c].pc = "idle"
============================================================================
