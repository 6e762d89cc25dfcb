---------------------------- MODULE SemanticCache ----------------------------
(***************************************************************************)
(* The in-process query cache (SemanticCache in src/src/dynavec/cache.py): *)
(* buckets of entries by signature, an order of use over all of them, the  *)
(* namespace each signature belongs to and a count of bytes, kept together *)
(* by hand across hits, overwrites, evictions and invalidations.           *)
(*                                                                         *)
(* A signature stands for a namespace, a top_k and a filter.  Similarity   *)
(* is a number; what is cached is left out but for its size.  Calls are    *)
(* taken one at a time: the class has no lock.                             *)
(***************************************************************************)
EXTENDS Integers, Sublists, SequencesExt

CONSTANTS
  Sigs, NsOf,         \* signatures and the namespace of each
  Vecs, Sim,          \* query vectors, and how similar two are
  Threshold,
  Sizes,              \* sizes an entry may have
  MaxEntries, MaxBytes, \* max_size and max_bytes
  Unlimited, NoOwner    \* None as max_bytes; no owner

ASSUME SemanticCacheAssumption ==
  /\ Sim \in [Vecs \X Vecs -> Nat] /\ Threshold \in Nat
  /\ \A v, w \in Vecs : Sim[v, v] >= Sim[v, w]
  /\ Sizes \subseteq Nat \ {0} /\ MaxEntries \in Nat /\ MaxBytes \in Nat \cup {Unlimited}
  /\ NoOwner \notin {NsOf[s] : s \in Sigs}

VARIABLES
  buckets,    \* _buckets: by signature, entries in order of use; <<>> if absent
  lru,        \* _lru: the keys of all entries in order of use
  owner,      \* _sig_ns
  bytes       \* _size_bytes

scvars == <<buckets, lru, owner, bytes>>

Entry == [vec: Vecs, size: Sizes]
Key(h) == <<h[1], h[2].vec>>     \* of an entry with its signature
(* What is cached, by signature, and how many bytes such entries have.     *)
Cached(bs) == UNION {{s} \X ToSet(bs[s]) : s \in Sigs}
CachedAt(bs, keys) == {h \in Cached(bs) : Key(h) \in keys}
Weight(hs) == Cardinality(UNION {{h} \X (1 .. h[2].size) : h \in hs})
WithinBytes(total) == MaxBytes = Unlimited \/ total <= MaxBytes
BucketWithout(b, vs) == Picked(b, {i \in DOMAIN b : b[i].vec \notin vs})
Untouched(keys) == Picked(lru, {i \in DOMAIN lru : lru[i] \notin keys})

(* The first of the most similar entries, if it is similar enough.         *)
Best(s, q) ==
  LET b == buckets[s]
      top == {i \in DOMAIN b : \A j \in DOMAIN b : Sim[b[i].vec, q] >= Sim[b[j].vec, q]}
  IN {i \in top : (\A j \in top : i <= j) /\ Sim[b[i].vec, q] >= Threshold}

(* get, when it hits; a miss changes nothing.                              *)
Hit(s, q) ==
  \E i \in Best(s, q) :
    LET e == buckets[s][i] IN
    /\ buckets' = [buckets EXCEPT ![s] = Append(BucketWithout(@, {e.vec}), e)]
    /\ lru' = Append(Untouched({Key(<<s, e>>)}), Key(<<s, e>>))
    /\ UNCHANGED <<owner, bytes>>

(* How many entries put evicts from the front of order `order', given the  *)
(* buckets and the count of bytes it has reached.                          *)
Evictions(bs, order, total) ==
  LET freed(n) == Weight(CachedAt(bs, {order[i] : i \in 1 .. n}))
      fits(n) == Len(order) - n <= MaxEntries /\ WithinBytes(total - freed(n))
  IN CHOOSE n \in 0 .. Len(order) : (fits(n) \/ n = Len(order)) /\ \A l \in 0 .. n - 1 : ~fits(l)

(* What is left when e is the last used of s, and total bytes are counted. *)
Evict(s, e, total) ==
  LET order == Append(Untouched({Key(<<s, e>>)}), Key(<<s, e>>))
      bs == [buckets EXCEPT ![s] = Append(BucketWithout(@, {e.vec}), e)]
      n == Evictions(bs, order, total)
      out == {order[i] : i \in 1 .. n}
      left == [t \in Sigs |-> BucketWithout(bs[t], {v \in Vecs : <<t, v>> \in out})]
      emptied == {k[1] : k \in out} \cap {t \in Sigs : left[t] = <<>>}
  IN /\ buckets' = left
     /\ lru' = SubSeq(order, n + 1, Len(order))
     /\ owner' = [t \in Sigs |-> IF t \in emptied THEN NoOwner
                                 ELSE IF t = s THEN NsOf[s] ELSE owner[t]]
     /\ bytes' = total - Weight(CachedAt(bs, out))

(* Mutant: the bytes of an overwritten entry stay on the count. *)
PutForgetsPrevious(s, v, size) == Evict(s, [vec |-> v, size |-> size], bytes + size)
(* put: an overwritten entry's bytes are taken back, the new one is the    *)
(* last used, and the least recently used go until both limits hold, which *)
(* may drop the new entry itself.  An emptied signature has no owner.      *)
Put(s, v, size) ==
  Evict(s, [vec |-> v, size |-> size], bytes - Weight(CachedAt(buckets, {<<s, v>>})) + size)

Invalidate(n) ==
  LET gone == {s \in Sigs : owner[s] = n}
      popped == {h \in Cached(buckets) : h[1] \in gone}
  IN /\ gone # {}
     /\ buckets' = [s \in Sigs |-> IF s \in gone THEN <<>> ELSE buckets[s]]
     /\ lru' = Untouched({Key(h) : h \in popped})
     /\ owner' = [s \in Sigs |-> IF s \in gone THEN NoOwner ELSE owner[s]]
     /\ bytes' = bytes - Weight(popped)

SemanticCacheInit ==
  /\ buckets = [s \in Sigs |-> <<>>] /\ lru = <<>>
  /\ owner = [s \in Sigs |-> NoOwner] /\ bytes = 0

SemanticCacheNext ==
  \/ \E s \in Sigs, q \in Vecs : Hit(s, q)
  \/ \E s \in Sigs, v \in Vecs, size \in Sizes : Put(s, v, size)
  \/ \E n \in {NsOf[s] : s \in Sigs} : Invalidate(n)

SemanticCacheSpec == SemanticCacheInit /\ [][SemanticCacheNext]_scvars
-----------------------------------------------------------------------------
(* The four tables describe the same entries after any calls: the order of *)
(* use lists each once and agrees with the order inside its bucket, the    *)
(* count of bytes is the sum of the sizes, a signature has an owner while  *)
(* it has entries, so that invalidation finds it, and the limits hold.     *)
CacheAccounting ==
  /\ lru \in Seq(Sigs \X Vecs)
  /\ \A s \in Sigs, v \in Vecs :
       Count(lru, <<s, v>>) = Cardinality({i \in DOMAIN buckets[s] : buckets[s][i].vec = v})
  /\ \A i, j \in DOMAIN lru : lru[i] = lru[j] => i = j
  /\ \A s \in Sigs : \A i, j \in DOMAIN buckets[s] : \A k, l \in DOMAIN lru :
       i < j /\ lru[k] = Key(<<s, buckets[s][i]>>) /\ lru[l] = Key(<<s, buckets[s][j]>>) => k < l
  /\ bytes = Weight(Cached(buckets))
  /\ \A s \in Sigs : owner[s] = IF buckets[s] = <<>> THEN NoOwner ELSE NsOf[s]
  /\ Len(lru) <= MaxEntries /\ WithinBytes(bytes)
=============================================================================
