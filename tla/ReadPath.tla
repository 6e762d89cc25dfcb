----------------------------- MODULE ReadPath ------------------------------
(***************************************************************************)
(* Threads of one process that share a Dynavec object with a hot tier and  *)
(* a query cache: writes go to the stores, then through to the hot tier,   *)
(* then invalidate the cache; a search is answered by the cache, by the    *)
(* hot tier or by the stores, and fills the cache; warm() copies a         *)
(* namespace from the stores into the hot tier.                            *)
(*                                                                         *)
(* The two stores are one map here (HybridStore is about their             *)
(* differences) and documents have no time-to-live.  A write is an upsert, *)
(* an update past its conditional write, or a delete; a document's content *)
(* is the identifier of the write.  One query per namespace, with a top_k  *)
(* of at least the namespace's size, stands for all: its result is the     *)
(* content of the namespace as the source that answered had it.            *)
(***************************************************************************)
EXTENDS HotTier

CONSTANTS
  Clients,    \* threads
  Ops,        \* the operations they use: subset of AllOps
  MaxCalls,   \* bound: calls started
  MaxFaults   \* bound: store calls that fail

AllOps == {"write", "search", "warm"}

ASSUME ReadBoundsAssumption == MaxCalls \in Nat /\ MaxFaults \in Nat
ASSUME ReadOpsAssumption == Ops \subseteq AllOps
ASSUME NoContentsAssumption == None \notin Contents

Values == Copies \cup {None}

(* A call in progress on namespace ns.  A write sends content (None for a  *)
(* delete) to the documents batch, docs being those still to send; a warm  *)
(* still has docs to scan into snap; a search found hits with the contents *)
(* snap.  held is the index a hot search works on once the tier has        *)
(* dropped it.  solo and clean are history: no write of ns has overlapped  *)
(* the call (for a write: none of the same documents); the source that     *)
(* answered the search was not tainted.                                    *)
Call == [pc : {"idle", "store", "hot", "evict", "pin", "scan", "query",
               "hydrate", "answer", "list", "load"},
         ns : Namespaces \cup {None}, content : Values, batch : SUBSET Docs,
         docs : SUBSET Docs, useCache : BOOLEAN, hits : SUBSET Docs,
         snap : Contents, held : Contents \cup {None},
         solo : BOOLEAN, clean : BOOLEAN]

VARIABLES
  store,     \* what the stores hold: [Namespaces -> Contents]
  cache,     \* the cached result of each namespace's query, or None
  call,      \* what each client is doing
  late,      \* writes of calls that raised which may yet reach the stores
  started,   \* number of calls started
  faults,    \* number of store calls that failed
  hotTaint,  \* history: namespaces whose hot copy came from a race or failure
  cacheTaint \* history: the same for the cached result

callVars == <<store, cache, call, late, started, faults, hotTaint, cacheTaint>>
vars == <<hotVars, callVars>>

----------------------------------------------------------------------------
Idle == [pc |-> "idle", ns |-> None, content |-> None, batch |-> {}, docs |-> {},
         useCache |-> FALSE, hits |-> {}, snap |-> Nothing, held |-> None,
         solo |-> TRUE, clean |-> TRUE]

Writing == {"store", "hot", "evict"}

(* A write of one of the documents D of ns is under way, or was abandoned. *)
Written(ns, D) ==
  \/ \E c \in Clients : call[c].pc \in Writing /\ call[c].ns = ns
                        /\ call[c].batch \cap D # {}
  \/ \E w \in late : w.ns = ns /\ w.doc \in D

Start(c) == started < MaxCalls /\ call[c].pc = "idle" /\ started' = started + 1

Goto(c, pc) == call' = [call EXCEPT ![c].pc = pc]

Leave(c) == call' = [call EXCEPT ![c] = Idle]

(* The calls, once a write of the documents D of ns overlaps them. *)
Disturbed(ns, D) ==
  [x \in Clients |->
     IF call[x].ns = ns /\ (call[x].pc \in Writing => call[x].batch \cap D # {})
     THEN [call[x] EXCEPT !.solo = FALSE]
     ELSE call[x]]

(* Mutant: the tier empties the indexes it drops. *)
HoldingEmptied(E) ==
  [x \in Clients |->
     IF call[x].pc = "scan" /\ call[x].held = None /\ call[x].ns \in E
     THEN [call[x] EXCEPT !.held = Nothing]
     ELSE call[x]]

(* The calls, once the tier has dropped the indexes of the namespaces E:   *)
(* a search keeps working on the one it was given.                         *)
Holding(E) ==
  [x \in Clients |->
     IF call[x].pc = "scan" /\ call[x].held = None /\ call[x].ns \in E
     THEN [call[x] EXCEPT !.held = copy[call[x].ns]]
     ELSE call[x]]

----------------------------------------------------------------------------
(* upsert, update, delete *)

Write(c) ==
  /\ "write" \in Ops
  /\ Start(c)
  /\ \E ns \in Namespaces, D \in (SUBSET Docs) \ {{}}, content \in Values :
       call' = [Disturbed(ns, D) EXCEPT
                  ![c] = [Idle EXCEPT !.pc = "store", !.ns = ns, !.content = content,
                                      !.batch = D, !.docs = D, !.solo = ~Written(ns, D)]]
  /\ UNCHANGED <<hotVars, store, cache, late, faults, hotTaint, cacheTaint>>

(* One document reaches the stores. *)
WriteStore(c) ==
  LET ns == call[c].ns
  IN /\ call[c].pc = "store"
     /\ \E d \in call[c].docs :
          /\ store' = [store EXCEPT ![ns][d] = call[c].content]
          /\ call' = [call EXCEPT ![c].docs = @ \ {d},
                                  ![c].pc = IF call[c].docs = {d} THEN "hot" ELSE "store"]
     /\ UNCHANGED <<hotVars, cache, late, started, faults, hotTaint, cacheTaint>>

(* A store call fails and the write raises, skipping the hot tier and the  *)
(* cache.  Documents not yet written may still be: the call that failed    *)
(* may have been applied, and other tasks are abandoned on the executor.   *)
WriteFault(c) ==
  LET ns == call[c].ns
  IN /\ call[c].pc = "store"
     /\ faults < MaxFaults
     /\ faults' = faults + 1
     /\ \E E \in SUBSET call[c].docs :
          late' = late \cup {[ns |-> ns, doc |-> d, content |-> call[c].content] : d \in E}
     /\ hotTaint' = hotTaint \cup {ns}
     /\ cacheTaint' = cacheTaint \cup {ns}
     /\ Leave(c)
     /\ UNCHANGED <<hotVars, store, cache, started>>

(* An abandoned write reaches the stores. *)
LateWrite ==
  /\ \E w \in late :
       /\ store' = [store EXCEPT ![w.ns][w.doc] = w.content]
       /\ late' = late \ {w}
       /\ call' = Disturbed(w.ns, {w.doc})
       /\ hotTaint' = hotTaint \cup {w.ns}
       /\ cacheTaint' = cacheTaint \cup {w.ns}
  /\ UNCHANGED <<hotVars, cache, started, faults>>

(* Mutant: a delete is not written through. *)
WriteHotSkipsDelete(c) ==
  /\ call[c].pc = "hot"
  /\ IF call[c].content = None
     THEN UNCHANGED hotVars
     ELSE InsertMany(call[c].ns, call[c].batch, call[c].content)
  /\ Goto(c, "evict")
  /\ UNCHANGED <<store, cache, late, started, faults, hotTaint, cacheTaint>>

(* Write-through to the hot tier. *)
WriteHot(c) ==
  LET ns == call[c].ns
  IN /\ call[c].pc = "hot"
     /\ IF call[c].content = None
        THEN HotDelete(ns, call[c].batch)
        ELSE InsertMany(ns, call[c].batch, call[c].content)
     /\ call' = [Holding(indexed \ indexed') EXCEPT ![c].pc = "evict"]
     /\ hotTaint' = IF call[c].solo THEN hotTaint ELSE hotTaint \cup {ns}
     /\ UNCHANGED <<store, cache, late, started, faults, cacheTaint>>

(* Mutant: a delete leaves the cache alone. *)
WriteEvictSkipsDelete(c) ==
  /\ call[c].pc = "evict"
  /\ cache' = IF call[c].content = None THEN cache
              ELSE [cache EXCEPT ![call[c].ns] = None]
  /\ Leave(c)
  /\ UNCHANGED <<hotVars, store, late, started, faults, hotTaint, cacheTaint>>

(* _invalidate_cache, and the return. *)
WriteEvict(c) ==
  /\ call[c].pc = "evict"
  /\ cache' = [cache EXCEPT ![call[c].ns] = None]
  /\ Leave(c)
  /\ UNCHANGED <<hotVars, store, late, started, faults, hotTaint, cacheTaint>>

----------------------------------------------------------------------------
(* search *)

(* The cache lookup: a hit is returned at once. *)
Search(c) ==
  /\ "search" \in Ops
  /\ Start(c)
  /\ \E ns \in Namespaces, useCache \in BOOLEAN :
       IF useCache /\ cache[ns] # None
       THEN UNCHANGED call
       ELSE call' = [call EXCEPT ![c] = [Idle EXCEPT
                       !.pc = "pin", !.ns = ns, !.useCache = useCache,
                       !.solo = ~Written(ns, Docs)]]
  /\ UNCHANGED <<hotVars, store, cache, late, faults, hotTaint, cacheTaint>>

(* The part of HotTier.search under the lock: it gets the index, if the    *)
(* namespace is authoritative.                                             *)
SearchPin(c) ==
  /\ call[c].pc = "pin"
  /\ \/ /\ call[c].ns \in authoritative
        /\ Touch(call[c].ns)
        /\ call' = [call EXCEPT ![c].pc = "scan", ![c].clean = call[c].ns \notin hotTaint]
     \/ /\ call[c].ns \notin authoritative
        /\ Goto(c, "query")
        /\ UNCHANGED hotVars
  /\ UNCHANGED <<store, cache, late, started, faults, hotTaint, cacheTaint>>

(* index.search, after the lock is released; a filter the matcher does not *)
(* support falls back to the stores.                                       *)
SearchScan(c) ==
  LET found == IF call[c].held = None THEN copy[call[c].ns] ELSE call[c].held
  IN /\ call[c].pc = "scan"
     /\ \/ call' = [call EXCEPT ![c].pc = "answer", ![c].snap = found,
                                ![c].hits = Held(found), ![c].held = None]
        \/ call' = [call EXCEPT ![c].pc = "query", ![c].held = None, ![c].clean = TRUE]
     /\ UNCHANGED <<hotVars, store, cache, late, started, faults, hotTaint, cacheTaint>>

(* The S3 Vectors query; no hit, no result, and nothing is cached. *)
SearchQuery(c) ==
  LET hits == Held(store[call[c].ns])
  IN /\ call[c].pc = "query"
     /\ IF hits = {}
        THEN Leave(c)
        ELSE call' = [call EXCEPT ![c].pc = "hydrate", ![c].hits = hits]
     /\ UNCHANGED <<hotVars, store, cache, late, started, faults, hotTaint, cacheTaint>>

(* get_many, for the text of the hits. *)
SearchHydrate(c) ==
  /\ call[c].pc = "hydrate"
  /\ call' = [call EXCEPT ![c].pc = "answer",
                          ![c].snap = [d \in Docs |-> IF d \in call[c].hits
                                                      THEN store[call[c].ns][d] ELSE None]]
  /\ UNCHANGED <<hotVars, store, cache, late, started, faults, hotTaint, cacheTaint>>

(* The cache is filled, and the search returns. *)
SearchAnswer(c) ==
  LET ns == call[c].ns
  IN /\ call[c].pc = "answer"
     /\ IF call[c].useCache /\ call[c].hits # {}
        THEN /\ cache' = [cache EXCEPT ![ns] = call[c].snap]
             /\ cacheTaint' = IF call[c].solo /\ call[c].clean
                              THEN cacheTaint \ {ns} ELSE cacheTaint \cup {ns}
        ELSE UNCHANGED <<cache, cacheTaint>>
     /\ Leave(c)
     /\ UNCHANGED <<hotVars, store, late, started, faults, hotTaint>>

(* The cache drops an entry, for its size or its age. *)
CacheDrop(ns) ==
  /\ cache[ns] # None
  /\ cache' = [cache EXCEPT ![ns] = None]
  /\ UNCHANGED <<hotVars, store, call, late, started, faults, hotTaint, cacheTaint>>

----------------------------------------------------------------------------
(* warm *)

Warm(c) ==
  /\ "warm" \in Ops
  /\ Start(c)
  /\ \E ns \in Namespaces :
       call' = [call EXCEPT ![c] = [Idle EXCEPT !.pc = "list", !.ns = ns, !.docs = Docs,
                                                !.solo = ~Written(ns, Docs)]]
  /\ UNCHANGED <<hotVars, store, cache, late, faults, hotTaint, cacheTaint>>

(* list_vectors reaches a document and hydrates it. *)
WarmList(c) ==
  /\ call[c].pc = "list"
  /\ \E d \in call[c].docs :
       call' = [call EXCEPT ![c].docs = @ \ {d}, ![c].snap[d] = store[call[c].ns][d],
                            ![c].pc = IF call[c].docs = {d} THEN "load" ELSE "list"]
  /\ UNCHANGED <<hotVars, store, cache, late, started, faults, hotTaint, cacheTaint>>

(* HotTier.load of what was scanned, and the return. *)
WarmLoad(c) ==
  LET ns == call[c].ns
  IN /\ call[c].pc = "load"
     /\ Load(ns, call[c].snap)
     /\ call' = [Holding({ns} \cup (indexed \ indexed')) EXCEPT ![c] = Idle]
     /\ hotTaint' = IF call[c].solo THEN hotTaint \ {ns} ELSE hotTaint \cup {ns}
     /\ UNCHANGED <<store, cache, late, started, faults, cacheTaint>>

(* A store read of a search or of a warm raises, and so does the call. *)
ReadFault(c) ==
  /\ call[c].pc \in {"query", "hydrate", "list"}
  /\ faults < MaxFaults
  /\ faults' = faults + 1
  /\ Leave(c)
  /\ UNCHANGED <<hotVars, store, cache, late, started, hotTaint, cacheTaint>>

----------------------------------------------------------------------------
Init ==
  /\ HotInit
  /\ store = [ns \in Namespaces |-> Nothing]
  /\ cache = [ns \in Namespaces |-> None]
  /\ call = [c \in Clients |-> Idle]
  /\ late = {}
  /\ started = 0
  /\ faults = 0
  /\ hotTaint = {}
  /\ cacheTaint = {}

Next ==
  \/ \E c \in Clients :
       \/ Write(c) \/ WriteStore(c) \/ WriteFault(c) \/ WriteHot(c) \/ WriteEvict(c)
       \/ Search(c) \/ SearchPin(c) \/ SearchScan(c) \/ SearchQuery(c)
       \/ SearchHydrate(c) \/ SearchAnswer(c)
       \/ Warm(c) \/ WarmList(c) \/ WarmLoad(c) \/ ReadFault(c)
  \/ \E ns \in Namespaces : CacheDrop(ns)
  \/ LateWrite

Spec == Init /\ [][Next]_vars

----------------------------------------------------------------------------
(* Properties *)

(* The stores, the cache and the calls hold contents, and a call under way *)
(* has its namespace.                                                      *)
ReadTypeOK ==
  /\ store \in [Namespaces -> Contents]
  /\ cache \in [Namespaces -> Contents \cup {None}]
  /\ call \in [Clients -> Call]
  /\ \A c \in Clients : call[c].pc # "idle" => call[c].ns \in Namespaces
  /\ late \subseteq [ns : Namespaces, doc : Docs, content : Values]
  /\ started \in 0 .. MaxCalls
  /\ faults \in 0 .. MaxFaults
  /\ hotTaint \subseteq Namespaces /\ cacheTaint \subseteq Namespaces

(* Authority can be trusted: once the writes of a namespace have finished, *)
(* the copy that searches are served from is what the stores hold, after   *)
(* any history of loads, write-throughs, evictions and demotions, unless   *)
(* two calls raced on it or a store call failed since it was last warmed.  *)
(* The state stays typed as ReadTypeOK says.                               *)
HotFresh ==
  /\ ReadTypeOK
  /\ \A ns \in authoritative \ hotTaint : Written(ns, Docs) \/ copy[ns] = store[ns]

(* The same for the query cache: an entry put by a search that no write    *)
(* overlapped is what the stores hold until a write of the namespace       *)
(* starts, whether the cache, the hot tier or the stores answered.         *)
CacheFresh ==
  \A ns \in Namespaces \ cacheTaint :
    cache[ns] = None \/ Written(ns, Docs) \/ cache[ns] = store[ns]

(* A search that no write overlapped answers with exactly what the stores  *)
(* hold, even when the index it was given has been dropped or rebuilt      *)
(* under it.                                                               *)
QuietAnswersExact ==
  \A c \in Clients :
    call[c].pc = "answer" /\ call[c].solo /\ call[c].clean
      => call[c].snap = store[call[c].ns]

(* What hot.py promises without those exceptions: "the hot tier can only   *)
(* ever make queries faster, never wrong".  No write is under way and no   *)
(* store call ever failed.                                                 *)
NeverWrong ==
  faults = 0 =>
    \A ns \in authoritative : Written(ns, Docs) \/ copy[ns] = store[ns]

(* What README.md promises of the cache: "writes are never hidden behind   *)
(* stale entries".                                                         *)
NoStaleEntries ==
  faults = 0 =>
    \A ns \in Namespaces :
      cache[ns] = None \/ Written(ns, Docs) \/ cache[ns] = store[ns]
============================================================================
