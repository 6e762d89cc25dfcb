------------------------------ MODULE HotTier ------------------------------
(***************************************************************************)
(* The in-memory hot tier of src/dynavec/hot.py: a RAM copy of whole       *)
(* namespaces, bounded by hot_tier_max_vectors, from which searches are    *)
(* served only while the namespace is authoritative.                       *)
(*                                                                         *)
(* Every operation runs under the tier's lock, so each is one step.  The   *)
(* index of a namespace is reduced to the copy it holds of every document; *)
(* how it is laid out in partitions is the business of spfresh.py.  A copy *)
(* is a version of the document, or None.                                  *)
(***************************************************************************)
EXTENDS Naturals, Sequences, FiniteSets

CONSTANTS
  Namespaces,
  Docs,         \* document ids
  Copies,       \* the versions a document can have
  MaxVectors,   \* config.hot_tier_max_vectors
  Policy,       \* config.hot_tier_eviction
  None          \* no copy

ASSUME FiniteAssumption == IsFiniteSet(Namespaces) /\ IsFiniteSet(Docs)
ASSUME MaxVectorsAssumption == MaxVectors \in Nat
ASSUME PolicyAssumption == Policy \in {"lru", "fifo", "none"}
ASSUME NoCopyAssumption == None \notin Copies

Contents == [Docs -> Copies \cup {None}]
Nothing == [d \in Docs |-> None]

VARIABLES
  indexed,        \* keys of _indexes
  copy,           \* what the indexes hold: [Namespaces -> Contents]
  authoritative,  \* _authoritative
  order           \* _access_order, coldest first

hotVars == <<indexed, copy, authoritative, order>>

----------------------------------------------------------------------------
(* The vectors of the namespaces outside E; _total counts those of all. *)
Resident(E) == {p \in Namespaces \X Docs : p[1] \notin E /\ copy[p[1]][p[2]] # None}

Held(content) == {d \in Docs : content[d] # None}

(* A sequence without the namespaces in E. *)
Dropping(seq, E) ==
  LET kept[i \in 0 .. Len(seq)] ==
        IF i = 0 THEN << >>
        ELSE IF seq[i] \in E THEN kept[i - 1] ELSE Append(kept[i - 1], seq[i])
  IN kept[Len(seq)]

Without(E) == Dropping(order, E)

(* needed more vectors fit beside the namespaces outside E. *)
Fits(needed, E) == Cardinality(Resident(E)) + needed <= MaxVectors

(* _evict_to_fit on behalf of ns, with the namespaces in gone already      *)
(* dropped: the coldest namespaces other than ns, until the vectors fit or *)
(* none is left.                                                           *)
Evicted(needed, ns, gone) ==
  LET candidates == Without(gone \cup {ns})
      Coldest(k) == {candidates[i] : i \in 1 .. k}
      Enough(k) == k = Len(candidates) \/ Fits(needed, gone \cup Coldest(k))
  IN IF Fits(needed, gone) \/ Policy = "none"
     THEN {}
     ELSE Coldest(CHOOSE k \in 0 .. Len(candidates) :
                    Enough(k) /\ \A j \in 0 .. (k - 1) : ~Enough(j))

(* move_to_end *)
MovedToEnd(seq, ns) == Append(Dropping(seq, {ns}), ns)

(* Mutant: the authority of a dropped namespace is left behind. *)
DemoteKeepsAuthority(E) ==
  /\ indexed' = indexed \ E
  /\ copy' = [n \in Namespaces |-> IF n \in E THEN Nothing ELSE copy[n]]
  /\ order' = Without(E)
  /\ UNCHANGED authoritative

(* _demote of every namespace in E. *)
Demote(E) ==
  /\ indexed' = indexed \ E
  /\ copy' = [n \in Namespaces |-> IF n \in E THEN Nothing ELSE copy[n]]
  /\ authoritative' = authoritative \ E
  /\ order' = Without(E)

----------------------------------------------------------------------------
(* Mutant: what does not fit is inserted all the same. *)
InsertManyUnchecked(ns, D, content) ==
  LET victims == Evicted(Cardinality(D), ns, {})
  IN \/ /\ D = {} \/ ns \notin indexed
        /\ UNCHANGED hotVars
     \/ /\ D # {} /\ ns \in indexed
        /\ indexed' = indexed \ victims
        /\ copy' = [n \in Namespaces |->
                      IF n = ns
                      THEN [d \in Docs |-> IF d \in D THEN content ELSE copy[ns][d]]
                      ELSE IF n \in victims THEN Nothing ELSE copy[n]]
        /\ authoritative' = authoritative \ victims
        /\ order' = Without(victims)

(* insert_many: write-through of content on the documents D of ns.  A      *)
(* namespace without an index is left alone; one that no longer fits, even *)
(* after the colder ones are evicted, is dropped with them.                *)
InsertMany(ns, D, content) ==
  LET victims == Evicted(Cardinality(D), ns, {})
  IN \/ /\ D = {} \/ ns \notin indexed
        /\ UNCHANGED hotVars
     \/ /\ D # {} /\ ns \in indexed
        /\ ~Fits(Cardinality(D), victims)
        /\ Demote(victims \cup {ns})
     \/ /\ D # {} /\ ns \in indexed
        /\ Fits(Cardinality(D), victims)
        /\ indexed' = indexed \ victims
        /\ copy' = [n \in Namespaces |->
                      IF n \in victims THEN Nothing
                      ELSE IF n = ns
                      THEN [d \in Docs |-> IF d \in D THEN content ELSE copy[ns][d]]
                      ELSE copy[n]]
        /\ authoritative' = authoritative \ victims
        /\ order' = IF Policy = "lru" /\ \E i \in 1 .. Len(order) : order[i] = ns
                    THEN MovedToEnd(Without(victims), ns)
                    ELSE Without(victims)

(* delete *)
HotDelete(ns, D) ==
  /\ copy' = IF ns \in indexed
             THEN [copy EXCEPT ![ns] = [d \in Docs |-> IF d \in D THEN None ELSE @[d]]]
             ELSE copy
  /\ UNCHANGED <<indexed, authoritative, order>>

(* load: ns is dropped, then rebuilt from content if it fits; when it is   *)
(* larger than the budget nothing is evicted for it.                       *)
Load(ns, content) ==
  LET needed == Cardinality(Held(content))
      victims == IF needed > MaxVectors THEN {} ELSE Evicted(needed, ns, {ns})
  IN \/ /\ ~Fits(needed, victims \cup {ns})
        /\ Demote(victims \cup {ns})
     \/ /\ Fits(needed, victims \cup {ns})
        /\ indexed' = (indexed \ victims) \cup {ns}
        /\ copy' = [n \in Namespaces |->
                      IF n = ns THEN content
                      ELSE IF n \in victims THEN Nothing ELSE copy[n]]
        /\ authoritative' = (authoritative \ victims) \cup {ns}
        /\ order' = Append(Without(victims \cup {ns}), ns)

(* search of an authoritative namespace refreshes it under LRU. *)
Touch(ns) ==
  /\ ns \in authoritative /\ ns \in indexed
  /\ order' = IF Policy = "lru" /\ \E i \in 1 .. Len(order) : order[i] = ns
              THEN MovedToEnd(order, ns) ELSE order
  /\ UNCHANGED <<indexed, copy, authoritative>>

(* clear of one namespace, or of all. *)
Clear(E) == Demote(E)

----------------------------------------------------------------------------
HotInit ==
  /\ indexed = {}
  /\ copy = [n \in Namespaces |-> Nothing]
  /\ authoritative = {}
  /\ order = << >>

(* Any sequence of operations, with any contents. *)
HotNext ==
  \E ns \in Namespaces :
    \/ \E D \in SUBSET Docs, content \in Copies : InsertMany(ns, D, content)
    \/ \E D \in SUBSET Docs : HotDelete(ns, D)
    \/ \E content \in Contents : Load(ns, content)
    \/ Touch(ns)
    \/ Clear({ns})
    \/ Clear(Namespaces)

HotSpec == HotInit /\ [][HotNext]_hotVars

----------------------------------------------------------------------------
(* The tables of the tier hold namespaces and contents. *)
HotTypeOK ==
  /\ indexed \subseteq Namespaces
  /\ copy \in [Namespaces -> Contents]
  /\ authoritative \subseteq Namespaces
  /\ order \in Seq(Namespaces)

(* The RAM budget: whatever is loaded, written through, overwritten or     *)
(* evicted, the tier never holds more than hot_tier_max_vectors vectors.   *)
WithinBudget == Cardinality(Resident({})) <= MaxVectors

(* A namespace has an index exactly while it is authoritative, and the     *)
(* memory of a dropped index is free.                                      *)
Indexed ==
  /\ authoritative = indexed
  /\ \A ns \in Namespaces \ indexed : copy[ns] = Nothing

(* The access order lists every resident namespace once. *)
Ordered ==
  /\ {order[i] : i \in 1 .. Len(order)} = indexed
  /\ Len(order) = Cardinality(indexed)

(* The three tables are well-formed and agree.  A namespace that lost its  *)
(* index but stayed authoritative would be served as if it were complete;  *)
(* one that fell out of the access order could never be evicted again.     *)
TablesAgree == HotTypeOK /\ Indexed /\ Ordered
============================================================================
