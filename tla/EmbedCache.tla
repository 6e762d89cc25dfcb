------------------------------ MODULE EmbedCache ------------------------------
(***************************************************************************)
(* CachedEmbedder over InMemoryCache (src/src/dynavec/embeddings/cached.py *)
(* and cache.py) in an event loop: a call looks its texts up, sends those  *)
(* it misses to the model in one batch, and when the vectors come back it  *)
(* stores them and fills them into their places.  Other calls run while it *)
(* waits.                                                                  *)
(*                                                                         *)
(* A vector is the text it embeds and whether it was embedded as a         *)
(* document or as a query: a model may treat the two differently, and the  *)
(* cache key does not say which it was.                                    *)
(***************************************************************************)
EXTENDS Sublists, SequencesExt

CONSTANTS
  Loops,          \* concurrent calls
  Texts, LongestBatch,
  StoreLimits,    \* values of max_size to run with; NoLimit for None
  MaxEmbeds,      \* bound: calls
  NoLimit, Missing

ASSUME EmbedCacheAssumption ==
  StoreLimits \subseteq Nat \cup {NoLimit} /\ MaxEmbeds \in Nat /\ LongestBatch \in Nat

VARIABLES
  limit,      \* InMemoryCache.max_size
  store,      \* InMemoryCache._store: keys and vectors, least recently used first
  embed,      \* [Loops -> the call in progress]
  embeds

ecvars == <<limit, store, embed, embeds>>

Modes == {"document", "query"}
Vector(t, m) == [text |-> t, mode |-> m]
NotCalled == [at |-> "idle", texts |-> <<>>, mode |-> "document", results |-> <<>>]
Stores(s, t) == \E i \in DOMAIN s : s[i].key = t
Place(s, t) == CHOOSE i \in DOMAIN s : s[i].key = t
Recalled(s, t) == s[Place(s, t)].vector
MostRecent(s, i) == [j \in DOMAIN s |-> IF j < i THEN s[j] ELSE IF j < Len(s) THEN s[j + 1] ELSE s[i]]
Used(s, t) == IF Stores(s, t) THEN MostRecent(s, Place(s, t)) ELSE s

(* The loop over the texts: a hit is moved to the end and its vector taken *)
(* at once.  What the store is after each of the texts, and what is found. *)
LookedUp(texts) ==
  LET after[n \in 0 .. Len(texts)] == IF n = 0 THEN store ELSE Used(after[n - 1], texts[n])
  IN after
HitsOf(texts, after) ==
  [i \in DOMAIN texts |-> IF Stores(after[i - 1], texts[i]) THEN Recalled(after[i - 1], texts[i]) ELSE Missing]

Misses(r) == Increasing({i \in DOMAIN r.texts : r.results[i] = Missing})

(* InMemoryCache.set: a known key keeps its vector; a full store gives up  *)
(* its oldest entry, and one of size 0 has none to give: KeyError.         *)
Room(s) == limit = NoLimit \/ Len(s) < limit
StoreOne(acc, e) ==
  IF acc.raised THEN acc
  ELSE IF Stores(acc.store, e.key) THEN [acc EXCEPT !.store = Used(@, e.key)]
  ELSE IF ~Room(acc.store) /\ acc.store = <<>> THEN [acc EXCEPT !.raised = TRUE]
  ELSE [acc EXCEPT !.store = Append(IF Room(@) THEN @ ELSE Tail(@), e)]
StoredAll(fresh) ==
  LET after[n \in 0 .. Len(fresh)] ==
        IF n = 0 THEN [store |-> store, raised |-> FALSE] ELSE StoreOne(after[n - 1], fresh[n])
  IN after[Len(fresh)]

(* embed_documents of several texts, or embed_query of one.                *)
Embed(c, texts, mode) ==
  LET after == LookedUp(texts)
      results == HitsOf(texts, after)
  IN
  /\ embed[c].at # "waits" /\ embeds < MaxEmbeds
  /\ mode = "query" => Len(texts) = 1
  /\ embeds' = embeds + 1
  /\ store' = after[Len(texts)]
  /\ embed' = [embed EXCEPT ![c] =
       [at |-> IF Missing \in ToSet(results) THEN "waits" ELSE "done",
        texts |-> texts, mode |-> mode, results |-> results]]
  /\ UNCHANGED limit

(* Mutant: the fresh vectors are filled in from the front. *)
FilledInOrder(r) ==
  LET missed == Misses(r) IN
  [i \in DOMAIN r.texts |-> IF i <= Len(missed) THEN Vector(r.texts[missed[i]], r.mode) ELSE r.results[i]]
Filled(r) ==
  [i \in DOMAIN r.texts |-> IF r.results[i] = Missing THEN Vector(r.texts[i], r.mode) ELSE r.results[i]]

(* The model answers.                                                      *)
Arrive(c) ==
  LET r == embed[c]
      missed == Misses(r)
      fresh == [i \in DOMAIN missed |->
                  [key |-> r.texts[missed[i]], vector |-> Vector(r.texts[missed[i]], r.mode)]]
      stored == StoredAll(fresh)
  IN /\ r.at = "waits"
     /\ store' = stored.store
     /\ embed' = [embed EXCEPT ![c] =
          IF stored.raised THEN [r EXCEPT !.at = "raised"]
          ELSE [r EXCEPT !.at = "done", !.results = Filled(r)]]
     /\ UNCHANGED <<limit, embeds>>

EmbedFails(c) ==
  /\ embed[c].at = "waits"
  /\ embed' = [embed EXCEPT ![c].at = "raised"]
  /\ UNCHANGED <<limit, store, embeds>>

ClearStore ==
  /\ store # <<>>
  /\ store' = <<>>
  /\ UNCHANGED <<limit, embed, embeds>>

TextBatches == UNION {[1 .. n -> Texts] : n \in 1 .. LongestBatch}

EmbedCacheInit ==
  /\ limit \in StoreLimits /\ store = <<>>
  /\ embed = [c \in Loops |-> NotCalled] /\ embeds = 0

EmbedCacheNext ==
  \/ \E c \in Loops :
       \/ \E texts \in TextBatches, mode \in Modes : Embed(c, texts, mode)
       \/ Arrive(c)
       \/ EmbedFails(c)
  \/ ClearStore

EmbedCacheSpec == EmbedCacheInit /\ [][EmbedCacheNext]_ecvars
-----------------------------------------------------------------------------
(* A call that returns has for every text a vector of that text, in its    *)
(* place, whatever was stored, evicted or cleared while it waited and      *)
(* however often a text is repeated; and the store holds at most max_size  *)
(* vectors, each under its own text, once.                                 *)
EmbeddingsAligned ==
  /\ \A c \in Loops : embed[c].at = "done" =>
       /\ DOMAIN embed[c].results = DOMAIN embed[c].texts
       /\ \A i \in DOMAIN embed[c].texts : embed[c].results[i].text = embed[c].texts[i]
  /\ limit # NoLimit => Len(store) <= limit
  /\ \A i, j \in DOMAIN store : store[i].vector.text = store[i].key
                                 /\ (i # j => store[i].key # store[j].key)
=============================================================================
