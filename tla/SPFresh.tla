------------------------------ MODULE SPFresh ------------------------------
(***************************************************************************)
(* The partitioned in-memory index of src/dynavec/spfresh.py: partitions   *)
(* split when they overflow, merge when they run low, and exchange         *)
(* boundary vectors, while searches read them one after another.           *)
(*                                                                         *)
(* Writers hold the index lock for a whole operation.  Searches hold it    *)
(* only to choose partitions and to look one up, and read a partition      *)
(* under that partition's own lock, so each change of a partition that     *)
(* was already reachable is a step of its own.  Distances are abstracted:  *)
(* the nearest partition is any partition, a 2-means split any split into  *)
(* two non-empty parts, and a vector near a boundary may or may not        *)
(* migrate.                                                                *)
(***************************************************************************)
EXTENDS Naturals, FiniteSets

CONSTANTS
  Ids,      \* ids of vectors
  Vectors,  \* vectors with their text and metadata
  Parts,    \* Partition objects; one not in use stands for a new one
  Readers,  \* searching threads
  MinSize,  \* config.min_partition_size
  MaxSize,  \* config.max_partition_size
  Probes,   \* config.n_probe
  MaxOverlaps, \* bound on the writers that overlap a search
  None      \* no vector, no partition

ASSUME SizesAssumption ==
  /\ MinSize \in Nat \ {0} /\ MaxSize \in Nat /\ MaxSize > MinSize
  /\ Probes \in Nat \ {0} /\ MaxOverlaps \in Nat
ASSUME SPFiniteAssumption == IsFiniteSet(Ids) /\ IsFiniteSet(Parts)
ASSUME SPNoneAssumption == None \notin Vectors /\ None \notin Parts

Stored == [Ids -> Vectors \cup {None}]
Empty == [id \in Ids |-> None]

Phases == {"splits", "merges", "migrates"}

(* The operation of the thread that holds the index lock, at pc.  id, vec, *)
(* src and dst are its locals; todo are the ids it still has to move and   *)
(* pids the partitions it still has to visit; back is where a split or a   *)
(* merge returns to.                                                       *)
Op == [pc : {"free", "add", "split", "merge", "copy", "move", "land"} \cup Phases,
       back : {"free", "splits", "merges"}, id : Ids \cup {None}, vec : Vectors \cup {None},
       src : Parts \cup {None}, dst : Parts \cup {None}, todo : SUBSET Ids,
       pids : SUBSET Parts]

(* A search: the partitions it has still to read, the one it is reading,   *)
(* and its hits.  overlaps and seen are history: the writers that ran      *)
(* since it began; every vector the index has held since then.             *)
Search == [pc : {"idle", "fetch", "read"}, todo : SUBSET Parts, at : Parts \cup {None},
           hits : SUBSET [part : Parts, id : Ids, vec : Vectors],
           overlaps : 0..MaxOverlaps, seen : SUBSET [id : Ids, vec : Vectors]]

VARIABLES
  parts,  \* what each Partition object holds: [Parts -> Stored]
  live,   \* the values of _partitions
  home,   \* _id_to_partition, None where it has no entry
  op,     \* the operation that holds _lock
  search, \* the searches: [Readers -> Search]
  auto    \* config.auto_rebalance

vars == <<parts, live, home, op, search, auto>>

----------------------------------------------------------------------------
Free == [pc |-> "free", back |-> "free", id |-> None, vec |-> None,
         src |-> None, dst |-> None, todo |-> {}, pids |-> {}]

NoSearch == [pc |-> "idle", todo |-> {}, at |-> None, hits |-> {},
             overlaps |-> 0, seen |-> {}]

Members(p) == {id \in Ids : parts[p][id] # None}
Size(p) == Cardinality(Members(p))

(* A partition with a new uuid: no search knows it. *)
New(p) == p \notin live /\ \A r \in Readers : p # search[r].at /\ p \notin search[r].todo

(* An object that is neither in the index nor being read is garbage. *)
Collected(pts, lv) ==
  [p \in Parts |-> IF p \in lv \/ \E r \in Readers : search[r].at = p THEN pts[p] ELSE Empty]

(* Back in the loop of rebalance, or done. *)
Return == [Free EXCEPT !.pc = op.back, !.pids = op.pids]

(* The vector of id: in the hands of a writer, or in its partition. *)
Held(id) == IF op.pc \in {"add", "land"} /\ op.id = id THEN op.vec
            ELSE IF home[id] = None THEN None
            ELSE parts[home[id]][id]

Current == {[id |-> id, vec |-> Held(id)] : id \in {i \in Ids : Held(i) # None}}

(* A writer takes the lock; history for the searches under way, which it   *)
(* may give more to find.                                                  *)
Lock(more) ==
  /\ op.pc = "free"
  /\ \A r \in Readers : search[r].overlaps < MaxOverlaps
  /\ search' = [r \in Readers |->
                  IF search[r].pc = "idle" THEN search[r]
                  ELSE [search[r] EXCEPT !.overlaps = @ + 1, !.seen = @ \cup more]]

----------------------------------------------------------------------------
(* Mutant: an upsert leaves the old vector in its partition. *)
InsertOver(id, vec) ==
  /\ Lock({[id |-> id, vec |-> vec]})
  /\ op' = [Free EXCEPT !.pc = "add", !.id = id, !.vec = vec]
  /\ home' = [home EXCEPT ![id] = None]
  /\ UNCHANGED <<parts, live, auto>>

(* insert, first half: the old vector leaves its partition. *)
Insert(id, vec) ==
  /\ Lock({[id |-> id, vec |-> vec]})
  /\ op' = [Free EXCEPT !.pc = "add", !.id = id, !.vec = vec]
  /\ parts' = IF home[id] = None THEN parts ELSE [parts EXCEPT ![home[id]][id] = None]
  /\ home' = [home EXCEPT ![id] = None]
  /\ UNCHANGED <<live, auto>>

(* The rest of insert, once the target p is known. *)
AddTo(p, content) ==
  /\ parts' = [parts EXCEPT ![p] = [content EXCEPT ![op.id] = op.vec]]
  /\ live' = live \cup {p}
  /\ home' = [home EXCEPT ![op.id] = p]
  /\ op' = IF auto /\ Cardinality({id \in Ids : id = op.id \/ content[id] # None}) > MaxSize
           THEN [Free EXCEPT !.pc = "split", !.src = p]
           ELSE Free
  /\ UNCHANGED <<search, auto>>

(* The nearest partition, or the first one. *)
Add ==
  /\ op.pc = "add"
  /\ \/ \E p \in live : AddTo(p, parts[p])
     \/ live = {} /\ \E p \in Parts : New(p) /\ AddTo(p, Empty)

(* Mutant: the second child is not entered in _id_to_partition. *)
SplitForgetsHome(A, p, q) ==
  LET half(B) == [id \in Ids |-> IF id \in B THEN parts[op.src][id] ELSE None]
  IN /\ live' = (live \ {op.src}) \cup {p, q}
     /\ parts' = Collected([parts EXCEPT ![p] = half(A), ![q] = half(Members(op.src) \ A)],
                           live')
     /\ home' = [id \in Ids |-> IF id \in A THEN p ELSE home[id]]
     /\ op' = Return
     /\ UNCHANGED <<search, auto>>

(* The rest of split_partition, once 2-means has found the vectors A of    *)
(* the first child.                                                        *)
SplitInto(A, p, q) ==
  LET half(B) == [id \in Ids |-> IF id \in B THEN parts[op.src][id] ELSE None]
  IN /\ live' = (live \ {op.src}) \cup {p, q}
     /\ parts' = Collected([parts EXCEPT ![p] = half(A), ![q] = half(Members(op.src) \ A)],
                           live')
     /\ home' = [id \in Ids |-> IF id \notin Members(op.src) THEN home[id]
                                ELSE IF id \in A THEN p ELSE q]
     /\ op' = Return
     /\ UNCHANGED <<search, auto>>

(* split_partition: the children are built before anyone can reach them;   *)
(* the parent object keeps its vectors for searches that are reading it.   *)
Split ==
  /\ op.pc = "split"
  /\ \E A \in (SUBSET Members(op.src)) \ {{}, Members(op.src)}, p, q \in Parts :
       p # q /\ New(p) /\ New(q) /\ SplitInto(A, p, q)

(* Mutant: the vector stays in its partition. *)
DeleteKeepsVector(id) ==
  LET p == home[id]
  IN /\ Lock({})
     /\ p # None
     /\ home' = [home EXCEPT ![id] = None]
     /\ op' = IF auto /\ live # {p} /\ Cardinality(Members(p) \ {id}) < MinSize
              THEN [Free EXCEPT !.pc = "merge", !.src = p]
              ELSE Free
     /\ UNCHANGED <<parts, live, auto>>

(* delete *)
Delete(id) ==
  LET p == home[id]
  IN /\ Lock({})
     /\ p # None
     /\ parts' = [parts EXCEPT ![p][id] = None]
     /\ home' = [home EXCEPT ![id] = None]
     /\ op' = IF auto /\ live # {p} /\ Cardinality(Members(p) \ {id}) < MinSize
              THEN [Free EXCEPT !.pc = "merge", !.src = p]
              ELSE Free
     /\ UNCHANGED <<live, auto>>

(* Mutant: the merge is not deferred when the target would overflow. *)
MergeAlways ==
  /\ op.pc = "merge"
  /\ \E q \in live \ {op.src} :
       op' = [op EXCEPT !.pc = "copy", !.dst = q, !.todo = Members(op.src)]
  /\ UNCHANGED <<parts, live, home, search, auto>>

(* merge_partition: the nearest neighbour is chosen; the merge is deferred *)
(* if the two together would overflow.                                     *)
Merge ==
  /\ op.pc = "merge"
  /\ \E q \in live \ {op.src} :
       op' = IF Size(q) + Size(op.src) > MaxSize
             THEN Return
             ELSE [op EXCEPT !.pc = "copy", !.dst = q, !.todo = Members(op.src)]
  /\ UNCHANGED <<parts, live, home, search, auto>>

(* One vector joins the target. *)
MergeCopy ==
  /\ op.pc = "copy"
  /\ \E id \in op.todo :
       /\ parts' = [parts EXCEPT ![op.dst][id] = parts[op.src][id]]
       /\ home' = [home EXCEPT ![id] = op.dst]
       /\ op' = [op EXCEPT !.todo = @ \ {id}]
  /\ UNCHANGED <<live, search, auto>>

(* The merged partition is dropped; the object keeps its vectors. *)
MergeDrop ==
  /\ op.pc = "copy"
  /\ op.todo = {}
  /\ live' = live \ {op.src}
  /\ parts' = Collected(parts, live')
  /\ op' = Return
  /\ UNCHANGED <<home, search, auto>>

(* clear *)
Clear ==
  /\ Lock({})
  /\ live' = {}
  /\ parts' = Collected(parts, {})
  /\ home' = [id \in Ids |-> None]
  /\ UNCHANGED <<op, auto>>

----------------------------------------------------------------------------
(* rebalance: a pass over the partitions in each phase.  (Phase 3 resets   *)
(* the anchors of drifted centroids, which no decision here reads.)        *)

Rebalance ==
  /\ Lock({})
  /\ op' = [Free EXCEPT !.pc = "splits", !.pids = live]
  /\ UNCHANGED <<parts, live, home, auto>>

(* Phase 1: a partition of the list that still exists and overflows is split. *)
SplitPhase ==
  /\ op.pc = "splits"
  /\ \E p \in op.pids :
       op' = IF p \in live /\ Size(p) > MaxSize
             THEN [op EXCEPT !.pc = "split", !.back = "splits", !.src = p, !.pids = @ \ {p}]
             ELSE [op EXCEPT !.pids = @ \ {p}]
  /\ UNCHANGED <<parts, live, home, search, auto>>

(* Phase 2: one that still exists and runs low is merged, unless it is the *)
(* last.                                                                   *)
MergePhase ==
  /\ op.pc = "merges"
  /\ \E p \in op.pids :
       op' = IF p \in live /\ live # {p} /\ Size(p) < MinSize
             THEN [op EXCEPT !.pc = "merge", !.back = "merges", !.src = p, !.pids = @ \ {p}]
             ELSE [op EXCEPT !.pids = @ \ {p}]
  /\ UNCHANGED <<parts, live, home, search, auto>>

(* Phase 4: the vectors of a partition that is not low are examined. *)
MigratePhase ==
  /\ op.pc = "migrates"
  /\ \E p \in op.pids :
       op' = IF live # {p} /\ Size(p) > MinSize
             THEN [op EXCEPT !.pc = "move", !.src = p, !.todo = Members(p), !.pids = @ \ {p}]
             ELSE [op EXCEPT !.pids = @ \ {p}]
  /\ UNCHANGED <<parts, live, home, search, auto>>

(* A vector stays, or leaves for a partition that has room. *)
Move ==
  /\ op.pc = "move"
  /\ \E id \in op.todo :
       \/ /\ op' = [op EXCEPT !.todo = @ \ {id}]
          /\ UNCHANGED parts
       \/ \E q \in live \ {op.src} :
            /\ Size(q) < MaxSize
            /\ op' = [op EXCEPT !.pc = "land", !.id = id, !.vec = parts[op.src][id],
                                !.dst = q, !.todo = @ \ {id}]
            /\ parts' = [parts EXCEPT ![op.src][id] = None]
  /\ UNCHANGED <<live, home, search, auto>>

(* Mutant: the vector is not found where it went. *)
LandForgetsHome ==
  /\ op.pc = "land"
  /\ parts' = [parts EXCEPT ![op.dst][op.id] = op.vec]
  /\ op' = [op EXCEPT !.pc = "move", !.id = None, !.vec = None, !.dst = None]
  /\ UNCHANGED <<live, home, search, auto>>

(* It arrives. *)
Land ==
  /\ op.pc = "land"
  /\ parts' = [parts EXCEPT ![op.dst][op.id] = op.vec]
  /\ home' = [home EXCEPT ![op.id] = op.dst]
  /\ op' = [op EXCEPT !.pc = "move", !.id = None, !.vec = None, !.dst = None]
  /\ UNCHANGED <<live, search, auto>>

(* The end of a phase, or of a partition's migration. *)
NextPhase ==
  /\ \/ op.pc = "splits" /\ op.pids = {}
        /\ op' = [Free EXCEPT !.pc = "merges", !.pids = live]
     \/ op.pc = "merges" /\ op.pids = {}
        /\ op' = [Free EXCEPT !.pc = "migrates", !.pids = live]
     \/ op.pc = "move" /\ op.todo = {}
        /\ op' = [Free EXCEPT !.pc = "migrates", !.pids = op.pids]
     \/ op.pc = "migrates" /\ op.pids = {} /\ op' = Free
  /\ UNCHANGED <<parts, live, home, search, auto>>

----------------------------------------------------------------------------
(* search *)

(* The nearest partitions are chosen under the lock. *)
SearchStart(r) ==
  /\ op.pc = "free"
  /\ search[r].pc = "idle"
  /\ \E P \in SUBSET live :
       /\ P = live \/ Cardinality(P) = Probes
       /\ Cardinality(P) <= Probes
       /\ P # {}
       /\ search' = [search EXCEPT ![r] = [NoSearch EXCEPT !.pc = "fetch", !.todo = P,
                                                           !.seen = Current]]
  /\ UNCHANGED <<parts, live, home, op, auto>>

(* One of them is looked up, again under the lock; it may be gone. *)
SearchFetch(r) ==
  /\ op.pc = "free"
  /\ search[r].pc = "fetch"
  /\ \E p \in search[r].todo :
       search' = IF p \in live
                 THEN [search EXCEPT ![r].pc = "read", ![r].at = p, ![r].todo = @ \ {p}]
                 ELSE [search EXCEPT ![r].todo = @ \ {p}]
  /\ UNCHANGED <<parts, live, home, op, auto>>

(* Its snapshot is scored. *)
SearchRead(r) ==
  LET p == search[r].at
  IN /\ search[r].pc = "read"
     /\ search' = [search EXCEPT
                     ![r].pc = "fetch", ![r].at = None,
                     ![r].hits = @ \cup {[part |-> p, id |-> id, vec |-> parts[p][id]] :
                                          id \in Members(p)}]
     /\ parts' = IF p \in live \/ \E x \in Readers \ {r} : search[x].at = p
                 THEN parts ELSE [parts EXCEPT ![p] = Empty]
     /\ UNCHANGED <<live, home, op, auto>>

(* The hits are sorted and returned. *)
SearchReturn(r) ==
  /\ search[r].pc = "fetch" /\ search[r].todo = {}
  /\ search' = [search EXCEPT ![r] = NoSearch]
  /\ UNCHANGED <<parts, live, home, op, auto>>

----------------------------------------------------------------------------
Init ==
  /\ parts = [p \in Parts |-> Empty]
  /\ live = {}
  /\ home = [id \in Ids |-> None]
  /\ op = Free
  /\ search = [r \in Readers |-> NoSearch]
  /\ auto \in BOOLEAN

WriterStep ==
  \/ Add \/ Split \/ Merge \/ MergeCopy \/ MergeDrop
  \/ SplitPhase \/ MergePhase \/ MigratePhase \/ Move \/ Land \/ NextPhase

Next ==
  \/ \E id \in Ids : Delete(id) \/ \E vec \in Vectors : Insert(id, vec)
  \/ Clear \/ Rebalance \/ WriterStep
  \/ \E r \in Readers :
       SearchStart(r) \/ SearchFetch(r) \/ SearchRead(r) \/ SearchReturn(r)

Spec == Init /\ [][Next]_vars

----------------------------------------------------------------------------
(* Properties *)

(* The tables of the index and the locals of its operations are typed; an  *)
(* operation in progress works on partitions of the index, and a merge and *)
(* a migration on two different ones.                                      *)
SPTypeOK ==
  /\ parts \in [Parts -> Stored]
  /\ live \subseteq Parts
  /\ home \in [Ids -> Parts \cup {None}]
  /\ op \in Op
  /\ search \in [Readers -> Search]
  /\ auto \in BOOLEAN
  /\ op.pc \in {"split", "merge", "copy", "move", "land"} => op.src \in live
  /\ op.pc \in {"copy", "land"} => op.dst \in live \ {op.src}

(* Whenever the lock is free, the two tables of spfresh.py describe the    *)
(* same placement: an id is in the partition it is mapped to and in no     *)
(* other one, and every vector of a partition can be found by its id.      *)
Placed ==
  op.pc = "free" =>
    \A id \in Ids, p \in Parts : home[id] = p <=> p \in live /\ parts[p][id] # None

(* With auto_rebalance no partition is left overfull, through any sequence *)
(* of inserts, merges and migrations.                                      *)
SizeBounded == auto /\ op.pc = "free" => \A p \in live : Size(p) <= MaxSize

(* A search that no writer overlapped, and that probes every partition,    *)
(* finds every vector, once.                                               *)
QuietSearchExact ==
  \A r \in Readers :
    LET s == search[r]
    IN s.pc = "fetch" /\ s.todo = {} /\ s.overlaps = 0 /\ Cardinality(live) <= Probes
         => s.hits = {[part |-> home[id], id |-> id, vec |-> Held(id)] :
                        id \in {i \in Ids : home[i] # None}}

(* Whatever splits, merges, migrations and upserts overlap a search, it    *)
(* only returns vectors that the index held at some time since it began:   *)
(* no vector that was overwritten or deleted before.  The tables and the   *)
(* locals stay typed as SPTypeOK says.                                     *)
HitsWereStored ==
  /\ SPTypeOK
  /\ \A r \in Readers, h \in UNION {search[x].hits : x \in Readers} :
       h \in search[r].hits => [id |-> h.id, vec |-> h.vec] \in search[r].seen

(* The index is a map: inserts, deletes and clear take effect at once, and *)
(* splits, merges and migrations, during them or in a rebalance, change    *)
(* nothing.                                                                *)
Map == INSTANCE VectorMap WITH map <- [id \in Ids |-> Held(id)], busy <- op.pc # "free"

ImplementsMap == Map!Spec
============================================================================
