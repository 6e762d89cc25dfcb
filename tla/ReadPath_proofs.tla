-------------------------- MODULE ReadPath_proofs ---------------------------
(***************************************************************************)
(* Searches, warm-ups and writes on several threads: the hot tier and the  *)
(* query cache never serve what the stores do not hold, races and failures *)
(* aside, for any number of threads, calls, failed store calls, namespaces *)
(* and documents, and any budget and eviction policy.                      *)
(*                                                                         *)
(* None of the three invariants is inductive.  Between the two halves of a *)
(* write the copy lags behind the stores, so the copy is followed document *)
(* by document (CopiesFollow): it may differ only where a write has not    *)
(* reached the hot tier yet or was abandoned.  What a call will put in the *)
(* copy, in the cache or in an answer is settled while it is on its way    *)
(* (ReaderExact, WriterAlone), and that rests on no other call writing the *)
(* same documents meanwhile (ReaderAlone, WriterAlone).                    *)
(***************************************************************************)
EXTENDS ReadPath, FiniteSetTheorems, SequenceTheorems, WellFoundedInduction, TLAPS

(***************************************************************************)
(* The hot tier keeps its RAM budget and never claims authority over a     *)
(* namespace it does not hold, for any number of namespaces and documents, *)
(* any budget and any eviction policy.                                     *)
(*                                                                         *)
(* That argument does not depend on which namespaces are evicted: whatever *)
(* the victims are, new vectors are stored only when they fit beside what  *)
(* is left.                                                                *)
(*                                                                         *)
(* The access order is the other half.  It is computed by recursion, so    *)
(* that what it lists is shown by induction over the sequence, which rests *)
(* on the least element of a set of numbers.                               *)
(***************************************************************************)
(* The inductive invariant, without the access order. *)
HotInv ==
  /\ indexed \subseteq Namespaces
  /\ copy \in [Namespaces -> Contents]
  /\ Indexed
  /\ WithinBudget

USE FiniteAssumption

(* Documents of one namespace: as many vectors as documents. *)
LEMMA OneNamespace ==
  ASSUME NEW ns \in Namespaces, NEW D \in SUBSET Docs
  PROVE  /\ IsFiniteSet({ns} \X D)
         /\ Cardinality({ns} \X D) = Cardinality(D)
<1>1. IsFiniteSet(D) /\ IsFiniteSet({ns}) /\ Cardinality({ns}) = 1
  BY FS_Subset, FS_Singleton
<1>2. /\ IsFiniteSet({ns} \X D)
      /\ Cardinality({ns} \X D) = Cardinality({ns}) * Cardinality(D)
  BY <1>1, FS_Product
<1>3. Cardinality(D) \in Nat
  BY <1>1, FS_CardinalityType
<1> QED  BY <1>1, <1>2, <1>3

(* The vectors of the tier are finitely many. *)
LEMMA ResidentFinite ==
  ASSUME NEW E
  PROVE  IsFiniteSet(Resident(E)) /\ Cardinality(Resident(E)) \in Nat
<1>1. IsFiniteSet(Namespaces \X Docs)
  BY FS_Product
<1>2. Resident(E) \subseteq Namespaces \X Docs
  BY DEF Resident
<1> QED  BY <1>1, <1>2, FS_Subset, FS_CardinalityType

(* What fits beside the namespaces outside E keeps the budget, when        *)
(* nothing else is resident afterwards.                                    *)
LEMMA FitsKeepsBudget ==
  ASSUME NEW E, NEW ns \in Namespaces, NEW D \in SUBSET Docs,
         Fits(Cardinality(D), E),
         Resident({})' \subseteq Resident(E) \cup ({ns} \X D)
  PROVE  WithinBudget'
<1> DEFINE R == Resident(E)  P == {ns} \X D  S == Resident({})'
<1>1. /\ IsFiniteSet(R) /\ Cardinality(R) \in Nat
      /\ IsFiniteSet(P) /\ Cardinality(P) = Cardinality(D)
  BY ResidentFinite, OneNamespace
<1>2. /\ IsFiniteSet(R \cup P) /\ IsFiniteSet(R \cap P)
      /\ Cardinality(R \cup P) = Cardinality(R) + Cardinality(P) - Cardinality(R \cap P)
      /\ Cardinality(R \cap P) \in Nat /\ Cardinality(P) \in Nat
  BY <1>1, FS_Union, FS_Intersection, FS_CardinalityType
<1>3. Cardinality(S) <= Cardinality(R \cup P) /\ Cardinality(S) \in Nat
  <2> HIDE DEF R, P, S
  <2>1. S \subseteq R \cup P
    BY DEF R, P, S
  <2> QED  BY <1>2, <2>1, FS_Subset, FS_CardinalityType
<1>4. Cardinality(R) + Cardinality(D) <= MaxVectors
  BY DEF Fits
<1>5. Cardinality(S) <= MaxVectors
  <2> HIDE DEF R, P, S
  <2> QED  BY <1>1, <1>2, <1>3, <1>4, MaxVectorsAssumption
<1> QED  BY <1>5 DEF WithinBudget

(* A step after which no vector is new keeps the budget. *)
LEMMA NoNewKeepsBudget ==
  ASSUME WithinBudget, Resident({})' \subseteq Resident({})
  PROVE  WithinBudget'
<1> DEFINE R == Resident({})  S == Resident({})'
<1>1. IsFiniteSet(R) /\ Cardinality(R) \in Nat /\ Cardinality(R) <= MaxVectors
  BY ResidentFinite DEF WithinBudget
<1>2. Cardinality(S) <= Cardinality(R) /\ Cardinality(S) \in Nat
  <2> HIDE DEF R, S
  <2>1. S \subseteq R
    BY DEF R, S
  <2> QED  BY <1>1, <2>1, FS_Subset, FS_CardinalityType
<1>3. Cardinality(S) <= MaxVectors
  <2> HIDE DEF R, S
  <2> QED  BY <1>1, <1>2, MaxVectorsAssumption
<1> QED  BY <1>3 DEF WithinBudget

(* Dropping namespaces. *)
LEMMA DemoteKeeps ==
  ASSUME HotInv, NEW E, Demote(E)
  PROVE  HotInv'
<1>1. Nothing \in Contents
  BY DEF Nothing, Contents
<1>2. copy' \in [Namespaces -> Contents] /\ indexed' \subseteq Namespaces
  BY <1>1 DEF Demote, HotInv
<1>3. Indexed'
  BY DEF Demote, HotInv, Indexed
<1>4. Resident({})' \subseteq Resident({})
  BY DEF Demote, Resident, Nothing
<1>5. WithinBudget'
  BY <1>4, NoNewKeepsBudget DEF HotInv
<1> QED  BY <1>2, <1>3, <1>5 DEF HotInv

LEMMA InsertManyKeeps ==
  ASSUME HotInv, NEW ns \in Namespaces, NEW D \in SUBSET Docs, NEW content \in Copies,
         InsertMany(ns, D, content)
  PROVE  HotInv'
<1> DEFINE V == Evicted(Cardinality(D), ns, {})
<1> HIDE DEF V
<1>1. CASE UNCHANGED hotVars
  BY <1>1 DEF hotVars, HotInv, Indexed, WithinBudget, Resident
<1>2. CASE Demote(V \cup {ns})
  BY <1>2, DemoteKeeps
<1>3. CASE /\ ns \in indexed
           /\ Fits(Cardinality(D), V)
           /\ indexed' = indexed \ V
           /\ copy' = [n \in Namespaces |->
                         IF n \in V THEN Nothing
                         ELSE IF n = ns
                         THEN [d \in Docs |-> IF d \in D THEN content ELSE copy[ns][d]]
                         ELSE copy[n]]
           /\ authoritative' = authoritative \ V
  <2>1. Nothing \in Contents
    BY DEF Nothing, Contents
  <2>2. [d \in Docs |-> IF d \in D THEN content ELSE copy[ns][d]] \in Contents
    BY DEF HotInv, Contents
  <2>3. copy' \in [Namespaces -> Contents] /\ indexed' \subseteq Namespaces
    BY <1>3, <2>1, <2>2 DEF HotInv
  <2>4. Indexed'
    BY <1>3 DEF HotInv, Indexed
  <2>5. Resident({})' \subseteq Resident(V) \cup ({ns} \X D)
    BY <1>3 DEF Resident, Nothing
  <2>6. WithinBudget'
    BY <1>3, <2>5, FitsKeepsBudget
  <2> QED  BY <2>3, <2>4, <2>6 DEF HotInv
<1> QED  BY <1>1, <1>2, <1>3 DEF InsertMany, V

LEMMA RemoveKeeps ==
  ASSUME HotInv, NEW ns \in Namespaces, NEW D \in SUBSET Docs, HotDelete(ns, D)
  PROVE  HotInv'
<1>1. [d \in Docs |-> IF d \in D THEN None ELSE copy[ns][d]] \in Contents
  BY DEF HotInv, Contents
<1>2. copy' \in [Namespaces -> Contents]
  BY <1>1 DEF HotDelete, HotInv
<1>3. Indexed'
  BY DEF HotDelete, HotInv, Indexed
<1>4. Resident({})' \subseteq Resident({})
  BY DEF HotDelete, HotInv, Resident
<1>5. WithinBudget'
  BY <1>4, NoNewKeepsBudget DEF HotInv
<1> QED  BY <1>2, <1>3, <1>5 DEF HotInv, HotDelete

LEMMA LoadKeeps ==
  ASSUME HotInv, NEW ns \in Namespaces, NEW content \in Contents, Load(ns, content)
  PROVE  HotInv'
<1> DEFINE H == Held(content)
           V == IF Cardinality(H) > MaxVectors
                THEN {} ELSE Evicted(Cardinality(H), ns, {ns})
<1>0. H \in SUBSET Docs
  BY DEF Held
<1>1. \/ Demote(V \cup {ns})
      \/ /\ Fits(Cardinality(H), V \cup {ns})
         /\ indexed' = (indexed \ V) \cup {ns}
         /\ copy' = [n \in Namespaces |->
                       IF n = ns THEN content
                       ELSE IF n \in V THEN Nothing ELSE copy[n]]
         /\ authoritative' = (authoritative \ V) \cup {ns}
  BY DEF Load
<1> HIDE DEF V
<1>2. CASE Demote(V \cup {ns})
  BY <1>2, DemoteKeeps
<1>3. CASE /\ Fits(Cardinality(H), V \cup {ns})
           /\ indexed' = (indexed \ V) \cup {ns}
           /\ copy' = [n \in Namespaces |->
                         IF n = ns THEN content
                         ELSE IF n \in V THEN Nothing ELSE copy[n]]
           /\ authoritative' = (authoritative \ V) \cup {ns}
  <2>1. copy' \in [Namespaces -> Contents] /\ indexed' \subseteq Namespaces
    BY <1>3 DEF HotInv, Nothing, Contents
  <2>2. Indexed'
    BY <1>3 DEF HotInv, Indexed
  <2>3. Resident({})' \subseteq Resident(V \cup {ns}) \cup ({ns} \X H)
    BY <1>3 DEF Resident, Nothing, Held
  <2>4. WithinBudget'
    <3> HIDE DEF H
    <3> QED  BY <1>0, <1>3, <2>3, FitsKeepsBudget
  <2> QED  BY <2>1, <2>2, <2>4 DEF HotInv
<1> QED  BY <1>1, <1>2, <1>3

LEMMA HotInvInit == HotInit => HotInv
<1> SUFFICES ASSUME HotInit PROVE HotInv
  OBVIOUS
<1>1. Nothing \in Contents
  BY DEF Nothing, Contents
<1>2. Resident({}) = {}
  BY DEF HotInit, Resident, Nothing
<1>3. WithinBudget
  BY <1>2, FS_EmptySet, MaxVectorsAssumption DEF WithinBudget
<1> QED  BY <1>1, <1>3 DEF HotInit, HotInv, Indexed

LEMMA HotInvNext == HotInv /\ [HotNext]_hotVars => HotInv'
<1> SUFFICES ASSUME HotInv, [HotNext]_hotVars PROVE HotInv'
  OBVIOUS
<1>1. CASE UNCHANGED hotVars
  BY <1>1 DEF hotVars, HotInv, Indexed, WithinBudget, Resident
<1>2. CASE HotNext
  <2>0. PICK ns \in Namespaces :
          \/ \E D \in SUBSET Docs, content \in Copies : InsertMany(ns, D, content)
          \/ \E D \in SUBSET Docs : HotDelete(ns, D)
          \/ \E content \in Contents : Load(ns, content)
          \/ Touch(ns)
          \/ Clear({ns})
          \/ Clear(Namespaces)
    BY <1>2 DEF HotNext
  <2>1. CASE \E D \in SUBSET Docs, content \in Copies : InsertMany(ns, D, content)
    BY <2>1, InsertManyKeeps
  <2>2. CASE \E D \in SUBSET Docs : HotDelete(ns, D)
    BY <2>2, RemoveKeeps
  <2>3. CASE \E content \in Contents : Load(ns, content)
    BY <2>3, LoadKeeps
  <2>4. CASE Touch(ns)
    BY <2>4 DEF Touch, HotInv, Indexed, WithinBudget, Resident
  <2>5. CASE Clear({ns})
    BY <2>5, DemoteKeeps DEF Clear
  <2>6. CASE Clear(Namespaces)
    BY <2>6, DemoteKeeps DEF Clear
  <2> QED  BY <2>0, <2>1, <2>2, <2>3, <2>4, <2>5, <2>6
<1> QED  BY <1>1, <1>2

(* The hot tier of hot.py never holds more vectors than                    *)
(* hot_tier_max_vectors, under every eviction policy.                      *)
THEOREM BudgetKept == HotSpec => []WithinBudget
<1>1. HotInv => WithinBudget
  BY DEF HotInv
<1> QED  BY <1>1, HotInvInit, HotInvNext, PTL DEF HotSpec

(* A namespace is authoritative exactly while it has an index, and what    *)
(* was dropped holds nothing: _demote, load, insert_many and clear keep    *)
(* _authoritative and _indexes together.                                   *)
THEOREM AuthorityHasIndex == HotSpec => []Indexed
<1>1. HotInv => Indexed
  BY DEF HotInv
<1> QED  BY <1>1, HotInvInit, HotInvNext, PTL DEF HotSpec

-----------------------------------------------------------------------------
(***************************************************************************)
(* Least numbers and induction, by sets of numbers.                        *)
(***************************************************************************)
LEMMA MinimalInSet ==
  ASSUME NEW R, IsWellFoundedOn(R, Nat), NEW T, T \subseteq Nat, T # {}
  PROVE  \E n \in T : \A m \in T : ~(<<m, n>> \in R)
BY WFMin, Zenon

LEMMA LeastOfSet ==
  ASSUME NEW R, IsWellFoundedOn(R, Nat), \A m, n \in Nat : m < n => <<m, n>> \in R,
         NEW T \in SUBSET Nat, T # {}
  PROVE  \E n \in T : \A m \in T : n <= m
<1>1. PICK n \in T : \A m \in T : ~(<<m, n>> \in R)
  BY MinimalInSet
<1>2. \A m \in T : ~(m < n)
  BY <1>1
<1>3. \A m \in T : n <= m
  BY <1>2
<1> QED  BY <1>3

LEMMA LeastNumber ==
  ASSUME NEW T \in SUBSET Nat, T # {}
  PROVE  \E n \in T : \A m \in T : n <= m
<1> DEFINE R == OpToRel(<, Nat)
<1>1. IsWellFoundedOn(R, Nat)
  BY NatLessThanWellFounded
<1>2. \A m, n \in Nat : m < n => <<m, n>> \in R
  BY DEF OpToRel
<1> HIDE DEF R
<1> QED  BY <1>1, <1>2, LeastOfSet

LEMMA InductionBySet ==
  ASSUME NEW T, 0 \in T, \A n \in Nat : n \in T => n + 1 \in T
  PROVE  Nat \subseteq T
<1> SUFFICES ASSUME ~(Nat \subseteq T) PROVE FALSE
  OBVIOUS
<1>1. PICK n \in Nat \ T : \A m \in Nat \ T : n <= m
  BY LeastNumber
<1>2. n # 0 /\ n - 1 \in Nat /\ n - 1 + 1 = n
  BY <1>1
<1>3. n - 1 \notin T
  BY <1>2
<1>4. n <= n - 1
  BY <1>1, <1>2, <1>3
<1> QED  BY <1>1, <1>4

-----------------------------------------------------------------------------
(***************************************************************************)
(* The access order lists the resident namespaces, each once.              *)
(***************************************************************************)
Listed(s, S) ==
  /\ s \in Seq(S) /\ {s[i] : i \in 1 .. Len(s)} = S
  /\ \A i, j \in 1 .. Len(s) : s[i] = s[j] => i = j

LEMMA ListedAppend ==
  ASSUME NEW S, NEW s, Listed(s, S), NEW x, x \notin S
  PROVE  Listed(Append(s, x), S \cup {x})
<1> DEFINE t == Append(s, x)
<1>1. /\ s \in Seq(S) /\ {s[i] : i \in 1 .. Len(s)} = S /\ Len(s) \in Nat
      /\ \A i, j \in 1 .. Len(s) : s[i] = s[j] => i = j
  BY DEF Listed
<1>2. s \in Seq(S \cup {x})
  BY <1>1, SeqMonotonic
<1>3. /\ t \in Seq(S \cup {x}) /\ Len(t) = Len(s) + 1
      /\ \A i \in 1 .. Len(s) : t[i] = s[i] /\ t[i] \in S
      /\ t[Len(s) + 1] = x
  BY <1>1, <1>2, AppendProperties
<1> HIDE DEF t
<1>4. \A i \in 1 .. Len(t) : i \in 1 .. Len(s) \/ i = Len(s) + 1
  BY <1>1, <1>3
<1>5. {t[i] : i \in 1 .. Len(t)} = S \cup {x}
  <2>1. 1 .. Len(s) \subseteq 1 .. Len(t) /\ Len(s) + 1 \in 1 .. Len(t)
    BY <1>1, <1>3
  <2>2. \A y \in S : \E i \in 1 .. Len(t) : t[i] = y
    <3>1. \A y \in S : \E i \in 1 .. Len(s) : s[i] = y
      BY <1>1
    <3> QED  BY <1>3, <2>1, <3>1
  <2>3. \A i \in 1 .. Len(t) : t[i] \in S \cup {x}
    BY <1>3, <1>4
  <2> QED  BY <1>3, <2>1, <2>2, <2>3
<1>6. \A i, j \in 1 .. Len(t) : t[i] = t[j] => i = j
  BY <1>1, <1>3, <1>4
<1> QED  BY <1>3, <1>5, <1>6 DEF Listed, t

(* What Dropping computes up to an index.                                  *)
KeptUpTo(s, E, f, i) ==
  f[i] = IF i = 0 THEN << >>
         ELSE IF s[i] \in E THEN f[i - 1] ELSE Append(f[i - 1], s[i])

KeptOf(s, E, f) ==
  f = [i \in 0 .. Len(s) |->
         IF i = 0 THEN << >> ELSE IF s[i] \in E THEN f[i - 1] ELSE Append(f[i - 1], s[i])]

LEMMA KeptExists ==
  ASSUME NEW S, NEW s \in Seq(S), NEW E
  PROVE  \E f : KeptOf(s, E, f)
<1> DEFINE T == {k \in Nat : \E f \in [0 .. k -> Seq(S)] :
                              k <= Len(s) => \A i \in 0 .. k : KeptUpTo(s, E, f, i)}
<1>1. 0 \in T
  <2> DEFINE f == [i \in 0 .. 0 |-> << >>]
  <2>1. f \in [0 .. 0 -> Seq(S)] /\ f[0] = << >>
    OBVIOUS
  <2>2. \A i \in 0 .. 0 : KeptUpTo(s, E, f, i)
    BY <2>1 DEF KeptUpTo
  <2> QED  BY <2>1, <2>2
<1>2. ASSUME NEW k \in Nat, k \in T PROVE k + 1 \in T
  <2>1. PICK f \in [0 .. k -> Seq(S)] : k <= Len(s) => \A i \in 0 .. k : KeptUpTo(s, E, f, i)
    BY <1>2
  <2> DEFINE g == [i \in 0 .. k + 1 |->
                     IF i <= k THEN f[i]
                     ELSE IF k + 1 <= Len(s) /\ s[k + 1] \notin E THEN Append(f[k], s[k + 1]) ELSE f[k]]
  <2>2. k \in 0 .. k /\ f[k] \in Seq(S)
    BY <2>1
  <2>3. k + 1 <= Len(s) => Append(f[k], s[k + 1]) \in Seq(S)
    BY <2>2
  <2>4. g \in [0 .. k + 1 -> Seq(S)]
    BY <2>1, <2>2, <2>3
  <2>5. ASSUME k + 1 <= Len(s), NEW i \in 0 .. k + 1 PROVE KeptUpTo(s, E, g, i)
    <3>1. CASE i <= k
      <4>1. i \in 0 .. k /\ g[i] = f[i] /\ KeptUpTo(s, E, f, i)
        BY <2>1, <2>5, <3>1
      <4>2. i # 0 => g[i - 1] = f[i - 1]
        BY <3>1
      <4> HIDE DEF g
      <4> QED  BY <4>1, <4>2 DEF KeptUpTo
    <3>2. CASE i = k + 1
      <4>1. g[i - 1] = f[k] /\ i # 0
        BY <3>2
      <4>2. g[i] = IF s[i] \notin E THEN Append(f[k], s[i]) ELSE f[k]
        BY <2>5, <3>2
      <4> HIDE DEF g
      <4> QED  BY <4>1, <4>2 DEF KeptUpTo
    <3> QED  BY <3>1, <3>2
  <2> HIDE DEF g
  <2>6. \E h \in [0 .. k + 1 -> Seq(S)] :
          k + 1 <= Len(s) => \A i \in 0 .. k + 1 : KeptUpTo(s, E, h, i)
    BY <2>4, <2>5
  <2> QED  BY <2>6
<1> HIDE DEF T
<1>3. Len(s) \in T
  <2>1. Nat \subseteq T
    BY <1>1, <1>2, InductionBySet
  <2> QED  BY <2>1
<1>4. PICK f \in [0 .. Len(s) -> Seq(S)] : \A i \in 0 .. Len(s) : KeptUpTo(s, E, f, i)
  BY <1>3 DEF T
<1>5. KeptOf(s, E, f)
  BY <1>4 DEF KeptUpTo, KeptOf
<1> QED  BY <1>5

(* What is dropped leaves the order of the others as it was: none is lost  *)
(* and none listed twice.                                                  *)
LEMMA DroppingKeepsListed ==
  ASSUME NEW S, NEW s, Listed(s, S), NEW E
  PROVE  Listed(Dropping(s, E), S \ E)
<1>1. s \in Seq(S) /\ {s[i] : i \in 1 .. Len(s)} = S /\ Len(s) \in Nat
      /\ \A i, j \in 1 .. Len(s) : s[i] = s[j] => i = j
  <2>1. s \in Seq(S) /\ {s[i] : i \in 1 .. Len(s)} = S
    BY DEF Listed
  <2>2. \A i, j \in 1 .. Len(s) : s[i] = s[j] => i = j
    BY DEF Listed
  <2> QED  BY <2>1, <2>2
<1> DEFINE f == CHOOSE g : KeptOf(s, E, g)
           Seen(k) == {s[i] : i \in 1 .. k} \ E
           T == {k \in Nat : k <= Len(s) => Listed(f[k], Seen(k))}
<1>2. Dropping(s, E) = f[Len(s)]
  BY DEF Dropping, KeptOf
<1>3. KeptOf(s, E, f)
  <2>1. s \in Seq(S)
    BY <1>1
  <2>2. \E g : KeptOf(s, E, g)
    BY <2>1, KeptExists, Zenon
  <2> QED  BY <2>2, Zenon
<1> HIDE DEF f
<1>4. /\ f[0] = << >>
      /\ \A i \in 1 .. Len(s) : f[i] = IF s[i] \in E THEN f[i - 1] ELSE Append(f[i - 1], s[i])
  <2>1. 0 \in 0 .. Len(s) /\ \A i \in 1 .. Len(s) : i \in 0 .. Len(s) /\ i # 0
    BY <1>1
  <2> QED  BY <1>3, <2>1 DEF KeptOf
<1>5. 0 \in T
  <2>1. Seen(0) = {} /\ << >> \in Seq({}) /\ Len(<< >>) = 0
    BY EmptySeq
  <2>2. Listed(<< >>, {})
    BY <2>1 DEF Listed
  <2> HIDE DEF Seen
  <2> QED  BY <1>4, <2>1, <2>2
<1>6. ASSUME NEW k \in Nat, k \in T PROVE k + 1 \in T
  <2> SUFFICES ASSUME k + 1 <= Len(s) PROVE Listed(f[k + 1], Seen(k + 1))
    OBVIOUS
  <2>1. Listed(f[k], Seen(k)) /\ k + 1 \in 1 .. Len(s)
    BY <1>1, <1>6
  <2>2. Seen(k + 1) = IF s[k + 1] \in E THEN Seen(k) ELSE Seen(k) \cup {s[k + 1]}
    <3>1. \A i \in 1 .. k + 1 : i \in 1 .. k \/ i = k + 1
      OBVIOUS
    <3>2. 1 .. k \subseteq 1 .. k + 1 /\ k + 1 \in 1 .. k + 1
      OBVIOUS
    <3> QED  BY <3>1, <3>2
  <2>3. f[k + 1] = IF s[k + 1] \in E THEN f[k] ELSE Append(f[k], s[k + 1])
    <3>1. k + 1 - 1 = k
      OBVIOUS
    <3> QED  BY <1>4, <2>1, <3>1
  <2>4. s[k + 1] \notin Seen(k)
    <3>1. \A i \in 1 .. k : i \in 1 .. Len(s) /\ i # k + 1
      BY <1>1
    <3> QED  BY <1>1, <2>1, <3>1
  <2> HIDE DEF Seen
  <2>5. CASE s[k + 1] \in E
    BY <2>1, <2>2, <2>3, <2>5
  <2>6. CASE s[k + 1] \notin E
    BY <2>1, <2>2, <2>3, <2>4, <2>6, ListedAppend
  <2> QED  BY <2>5, <2>6
<1>7. Len(s) \in T
  <2> HIDE DEF T
  <2> QED  BY <1>1, <1>5, <1>6, InductionBySet
<1>8. Seen(Len(s)) = S \ E
  BY <1>1
<1>9. Listed(f[Len(s)], Seen(Len(s)))
  BY <1>1, <1>7
<1> QED  BY <1>2, <1>8, <1>9

(* A sequence without one of its elements, which is then its last.         *)
LEMMA MovedToEndKeepsListed ==
  ASSUME NEW S, NEW s, Listed(s, S), NEW x \in S
  PROVE  Listed(MovedToEnd(s, x), S)
<1>1. Listed(Dropping(s, {x}), S \ {x})
  BY DroppingKeepsListed
<1>2. x \notin S \ {x} /\ (S \ {x}) \cup {x} = S
  OBVIOUS
<1>3. Listed(Append(Dropping(s, {x}), x), (S \ {x}) \cup {x})
  BY <1>1, <1>2, ListedAppend
<1> QED  BY <1>2, <1>3 DEF MovedToEnd

(* A namespace is never evicted for its own sake.                          *)
LEMMA NotEvictedForItself ==
  ASSUME Listed(order, indexed), NEW needed, NEW ns, NEW gone
  PROVE  ns \notin Evicted(needed, ns, gone)
<1> DEFINE candidates == Without(gone \cup {ns})
           Coldest(k) == {candidates[i] : i \in 1 .. k}
           Enough(k) == k = Len(candidates) \/ Fits(needed, gone \cup Coldest(k))
           Least(k) == Enough(k) /\ \A j \in 0 .. (k - 1) : ~Enough(j)
           T == {k \in Nat : k <= Len(candidates) /\ Enough(k)}
<1>1. Listed(candidates, indexed \ (gone \cup {ns}))
  BY DroppingKeepsListed DEF Without
<1>2. /\ Len(candidates) \in Nat
      /\ \A i \in 1 .. Len(candidates) : candidates[i] # ns
  <2> HIDE DEF candidates
  <2>1. candidates \in Seq(indexed \ (gone \cup {ns}))
    BY <1>1 DEF Listed
  <2> QED  BY <2>1
<1> HIDE DEF candidates
<1>3. \E k \in 0 .. Len(candidates) : Least(k)
  <2>1. T \in SUBSET Nat /\ T # {}
    BY <1>2
  <2>2. PICK k \in T : \A j \in T : k <= j
    BY <2>1, LeastNumber
  <2>3. k \in 0 .. Len(candidates) /\ Enough(k)
    BY <1>2, <2>2
  <2>4. ASSUME NEW j \in 0 .. (k - 1) PROVE ~Enough(j)
    <3>1. j \in Nat /\ j <= Len(candidates) /\ ~(k <= j)
      BY <1>2, <2>3
    <3> HIDE DEF Enough
    <3> QED  BY <2>2, <3>1
  <2> HIDE DEF Enough
  <2> QED  BY <2>3, <2>4
<1> DEFINE k == CHOOSE j \in 0 .. Len(candidates) : Least(j)
<1>4. k \in 0 .. Len(candidates)
  <2> HIDE DEF Least
  <2> QED  BY <1>3
<1>5. ns \notin Coldest(k)
  <2> HIDE DEF k
  <2> QED  BY <1>2, <1>4
<1> QED  BY <1>5 DEF Evicted, candidates

(* The order of use keeps to the namespaces that have an index.            *)
OrderInv == indexed \subseteq Namespaces /\ Listed(order, indexed)

LEMMA OrderInvNext == OrderInv /\ [HotNext]_hotVars => OrderInv'
<1> SUFFICES ASSUME OrderInv, [HotNext]_hotVars PROVE OrderInv'
  OBVIOUS
<1>1. indexed \subseteq Namespaces /\ Listed(order, indexed)
  BY DEF OrderInv
<1>2. ASSUME NEW E, Demote(E) PROVE OrderInv'
  <2>1. Listed(Without(E), indexed \ E)
    BY <1>1, DroppingKeepsListed DEF Without
  <2> QED  BY <1>1, <1>2, <2>1 DEF Demote, OrderInv
<1>3. CASE UNCHANGED hotVars
  BY <1>1, <1>3 DEF hotVars, OrderInv
<1>4. ASSUME NEW ns \in Namespaces, NEW D \in SUBSET Docs, NEW content \in Copies, InsertMany(ns, D, content)
      PROVE  OrderInv'
  <2> DEFINE V == Evicted(Cardinality(D), ns, {})
             moved == Policy = "lru" /\ \E i \in 1 .. Len(order) : order[i] = ns
  <2>1. \/ UNCHANGED hotVars
        \/ Demote(V \cup {ns})
        \/ /\ ns \in indexed /\ indexed' = indexed \ V
           /\ order' = IF moved THEN MovedToEnd(Without(V), ns) ELSE Without(V)
    BY <1>4 DEF InsertMany
  <2>2. ns \notin V
    BY <1>1, NotEvictedForItself
  <2> HIDE DEF V
  <2>3. Listed(Without(V), indexed \ V)
    BY <1>1, DroppingKeepsListed DEF Without
  <2>4. CASE /\ ns \in indexed /\ indexed' = indexed \ V
             /\ order' = IF moved THEN MovedToEnd(Without(V), ns) ELSE Without(V)
    <3>1. ns \in indexed \ V /\ moved \in BOOLEAN
      BY <2>2, <2>4
    <3> HIDE DEF moved
    <3>2. Listed(order', indexed')
      BY <2>3, <2>4, <3>1, MovedToEndKeepsListed
    <3> QED  BY <1>1, <2>4, <3>2 DEF OrderInv
  <2> QED  BY <1>2, <1>3, <2>1, <2>4
<1>5. ASSUME NEW ns \in Namespaces, NEW content \in Contents, Load(ns, content) PROVE OrderInv'
  <2> DEFINE V == IF Cardinality(Held(content)) > MaxVectors
                  THEN {} ELSE Evicted(Cardinality(Held(content)), ns, {ns})
  <2>1. \/ Demote(V \cup {ns})
        \/ /\ indexed' = (indexed \ V) \cup {ns}
           /\ order' = Append(Without(V \cup {ns}), ns)
    BY <1>5 DEF Load
  <2> HIDE DEF V
  <2>2. CASE /\ indexed' = (indexed \ V) \cup {ns}
             /\ order' = Append(Without(V \cup {ns}), ns)
    <3>1. Listed(Without(V \cup {ns}), indexed \ (V \cup {ns}))
      BY <1>1, DroppingKeepsListed DEF Without
    <3>2. ns \notin indexed \ (V \cup {ns})
      OBVIOUS
    <3>3. Listed(order', (indexed \ (V \cup {ns})) \cup {ns})
      BY <2>2, <3>1, <3>2, ListedAppend
    <3>4. (indexed \ (V \cup {ns})) \cup {ns} = indexed'
      BY <2>2
    <3> QED  BY <1>1, <2>2, <3>3, <3>4 DEF OrderInv
  <2> QED  BY <1>2, <2>1, <2>2
<1>6. ASSUME NEW ns \in Namespaces, Touch(ns) PROVE OrderInv'
  <2>1. ns \in indexed /\ indexed' = indexed /\ order' \in {order, MovedToEnd(order, ns)}
    BY <1>6 DEF Touch
  <2>2. Listed(MovedToEnd(order, ns), indexed)
    BY <1>1, <2>1, MovedToEndKeepsListed
  <2> QED  BY <1>1, <2>1, <2>2 DEF OrderInv
<1>7. ASSUME NEW ns \in Namespaces, NEW D \in SUBSET Docs, HotDelete(ns, D) PROVE OrderInv'
  BY <1>1, <1>7 DEF HotDelete, OrderInv
<1>8. ASSUME NEW E, Clear(E) PROVE OrderInv'
  BY <1>2, <1>8 DEF Clear
<1> QED  BY <1>3, <1>4, <1>5, <1>6, <1>7, <1>8 DEF HotNext

LEMMA OrderInvInit == HotInit => OrderInv
<1> SUFFICES ASSUME HotInit PROVE OrderInv
  OBVIOUS
<1>1. << >> \in Seq({}) /\ Len(<< >>) = 0
  BY EmptySeq
<1> QED  BY <1>1 DEF HotInit, OrderInv, Listed

(* As many places in the order as namespaces.                              *)
LEMMA OrderInvOrdered == OrderInv => order \in Seq(Namespaces) /\ Ordered
<1> SUFFICES ASSUME OrderInv PROVE order \in Seq(Namespaces) /\ Ordered
  OBVIOUS
<1>1. indexed \subseteq Namespaces /\ order \in Seq(indexed) /\ {order[i] : i \in 1 .. Len(order)} = indexed
  BY DEF OrderInv, Listed
<1>2. \A i, j \in 1 .. Len(order) : order[i] = order[j] => i = j
  BY DEF OrderInv, Listed
<1>3. order \in Seq(Namespaces)
  BY <1>1, SeqMonotonic
<1>4. Len(order) = Cardinality(indexed)
  <2>1. Len(order) \in Nat /\ order \in [1 .. Len(order) -> indexed]
    BY <1>1, LenProperties
  <2>2. \A y \in indexed : \E i \in 1 .. Len(order) : order[i] = y
    BY <1>1
  <2>3. order \in Bijection(1 .. Len(order), indexed)
    BY <1>2, <2>1, <2>2 DEF Bijection, Injection, Surjection, IsInjective
  <2>4. ExistsBijection(1 .. Len(order), indexed)
    BY <2>3 DEF ExistsBijection
  <2> QED  BY <2>1, <2>4, FS_CountingElements
<1> QED  BY <1>1, <1>3, <1>4 DEF Ordered

(* The tables of hot.py are well-typed and agree: what is authoritative    *)
(* has an index, what was dropped holds nothing, and the access order      *)
(* lists every resident namespace once, so that each can be evicted.       *)
THEOREM TablesKept == HotSpec => []TablesAgree
<1>1. HotInv /\ OrderInv => TablesAgree
  <2>1. HotInv /\ OrderInv => HotTypeOK
    BY OrderInvOrdered DEF HotInv, HotTypeOK, Indexed
  <2> QED  BY <2>1, OrderInvOrdered DEF HotInv, TablesAgree
<1> QED  BY <1>1, HotInvInit, HotInvNext, OrderInvInit, OrderInvNext, PTL DEF HotSpec

-----------------------------------------------------------------------------
(* The steps of a search and of a warm. *)
Reading == {"pin", "scan", "query", "hydrate", "answer", "list", "load"}

(* The call of b is a write of d. *)
Writes(b, ns, d) == call[b].pc \in Writing /\ call[b].ns = ns /\ d \in call[b].batch

(* A write of d was abandoned and may yet reach the stores. *)
Abandoned(ns, d) == \E w \in late : w.ns = ns /\ w.doc = d

(* A write of d may have reached the stores and not the hot tier. *)
Unsettled(ns, d) ==
  \/ Abandoned(ns, d)
  \/ \E b \in Clients : Writes(b, ns, d) /\ call[b].pc # "evict"

(* Written, document by document. *)
Untouched(ns) == \A d \in Docs : ~Abandoned(ns, d) /\ \A x \in Clients : ~Writes(x, ns, d)

(* What a call has left to do fits where it is. *)
Shaped(b) ==
  /\ call[b].pc \in Writing => call[b].batch # {} /\ call[b].docs \subseteq call[b].batch
  /\ call[b].pc \in {"hot", "evict", "load"} => call[b].docs = {}
  /\ call[b].pc # "scan" => call[b].held = None

(* A write that none has overlapped is the only one of its documents, and  *)
(* the stores hold what it has written.                                    *)
WriterAlone(b) ==
  call[b].pc \in Writing /\ call[b].solo =>
    \A d \in call[b].batch :
      /\ ~Abandoned(call[b].ns, d)
      /\ \A x \in Clients \ {b} : ~Writes(x, call[b].ns, d)
      /\ d \notin call[b].docs => store[call[b].ns][d] = call[b].content

(* A search or a warm that no write has overlapped: none is under way. *)
ReaderAlone(b) ==
  call[b].pc \in Reading /\ call[b].solo => Untouched(call[b].ns)

(* What it has read, or will read from the index it was given, is what the *)
(* stores hold.                                                            *)
ReaderExact(b) ==
  call[b].pc \in Reading /\ call[b].solo =>
    LET now == store[call[b].ns]
    IN /\ call[b].pc = "scan" /\ call[b].clean =>
            now = IF call[b].held = None THEN copy[call[b].ns] ELSE call[b].held
       /\ call[b].pc = "hydrate" => call[b].hits = Held(now)
       /\ call[b].pc = "answer" /\ call[b].clean => call[b].snap = now
       /\ call[b].pc \in {"list", "load"} =>
            \A d \in Docs \ call[b].docs : call[b].snap[d] = now[d]

(* The copy of a document is what the stores hold, but for writes on the   *)
(* way to it.                                                              *)
CopiesFollow ==
  \A ns \in authoritative \ hotTaint : \A d \in Docs :
    Unsettled(ns, d) \/ copy[ns][d] = store[ns][d]

(* A cached result is what the stores hold, until its namespace is written.*)
CacheFollows ==
  \A ns \in Namespaces \ cacheTaint :
    cache[ns] = None \/ cache[ns] = store[ns] \/ ~Untouched(ns)

CallsTyped ==
  /\ call \in [Clients -> Call]
  /\ \A b \in Clients : call[b].pc # "idle" => call[b].ns \in Namespaces

Settled ==
  /\ CallsTyped
  /\ \A b \in Clients : Shaped(b) /\ WriterAlone(b) /\ ReaderAlone(b) /\ ReaderExact(b)
  /\ CopiesFollow
  /\ CacheFollows

(* The inductive invariant. *)
ReadInv == ReadTypeOK /\ HotInv /\ Settled

(* What the type of a call gives. *)
LEMMA CallFacts ==
  ASSUME ReadTypeOK, NEW b \in Clients
  PROVE  /\ call[b] \in Call
         /\ call[b].pc # "idle" => call[b].ns \in Namespaces
         /\ call[b].content \in Values /\ call[b].batch \in SUBSET Docs
         /\ call[b].docs \in SUBSET Docs /\ call[b].hits \in SUBSET Docs
         /\ call[b].snap \in Contents /\ call[b].held \in Contents \cup {None}
         /\ call[b].solo \in BOOLEAN /\ call[b].clean \in BOOLEAN
BY DEF ReadTypeOK, Call

(* What a namespace can hold, and what writing one document makes of it. *)
LEMMA ContentsFacts ==
  /\ Nothing \in Contents
  /\ \A f \in Contents : \A d \in Docs : f[d] \in Values
  /\ \A f \in Contents, v \in Values, d \in Docs : [f EXCEPT ![d] = v] \in Contents
  /\ \A f \in Contents : Held(f) \in SUBSET Docs
BY DEF Nothing, Contents, Values, Held

(* A client that does nothing is typed. *)
LEMMA IdleTyped == Idle \in Call
BY ContentsFacts DEF Idle, Call, Values

(* A step that changes the record of one client only. *)
LEMMA OneCallTyped ==
  ASSUME ReadTypeOK, NEW c \in Clients, NEW r \in Call,
         r.pc # "idle" => r.ns \in Namespaces,
         call' = [call EXCEPT ![c] = r]
  PROVE  /\ call' \in [Clients -> Call]
         /\ \A b \in Clients : call'[b].pc # "idle" => call'[b].ns \in Namespaces
         /\ call'[c] = r /\ \A b \in Clients \ {c} : call'[b] = call[b]
BY DEF ReadTypeOK

(* Once a write of the documents D of ns overlaps them, calls are as they  *)
(* were, but for those that are no longer alone.                           *)
LEMMA DisturbedFields ==
  ASSUME ReadTypeOK, NEW ns, NEW D, NEW x \in Clients
  PROVE  LET k == call[x]
             i == Disturbed(ns, D)[x]
         IN /\ i \in Call
            /\ i.pc = k.pc /\ i.ns = k.ns /\ i.content = k.content /\ i.batch = k.batch
            /\ i.docs = k.docs /\ i.useCache = k.useCache /\ i.hits = k.hits
            /\ i.snap = k.snap /\ i.held = k.held /\ i.clean = k.clean
            /\ i.solo => /\ k.solo
                         /\ k.ns = ns => k.pc \in Writing /\ k.batch \cap D = {}
<1> DEFINE k == call[x]  i == [k EXCEPT !.solo = FALSE]
<1>1. k \in Call
  BY DEF ReadTypeOK
<1> HIDE DEF k
<1>2. /\ i \in Call
      /\ i.pc = k.pc /\ i.ns = k.ns /\ i.content = k.content /\ i.batch = k.batch
      /\ i.docs = k.docs /\ i.useCache = k.useCache /\ i.hits = k.hits
      /\ i.snap = k.snap /\ i.held = k.held /\ i.clean = k.clean /\ i.solo = FALSE
  BY <1>1 DEF Call
<1> HIDE DEF i
<1>3. CASE k.ns = ns /\ (k.pc \in Writing => k.batch \cap D # {})
  <2>1. Disturbed(ns, D)[x] = i
    BY <1>3 DEF Disturbed, k, i
  <2> QED BY <1>2, <2>1 DEF k
<1>4. CASE ~(k.ns = ns /\ (k.pc \in Writing => k.batch \cap D # {}))
  <2>1. Disturbed(ns, D)[x] = k
    BY <1>4 DEF Disturbed, k
  <2> QED BY <1>1, <1>4, <2>1 DEF k
<1> QED BY <1>3, <1>4

(* Once the tier has dropped the indexes of E, calls are as they were, but *)
(* for the searches that had not yet read theirs.                          *)
LEMMA HoldingFields ==
  ASSUME ReadTypeOK, HotInv, NEW E, NEW x \in Clients
  PROVE  LET k == call[x]
             i == Holding(E)[x]
         IN /\ i \in Call
            /\ i.pc = k.pc /\ i.ns = k.ns /\ i.content = k.content /\ i.batch = k.batch
            /\ i.docs = k.docs /\ i.useCache = k.useCache /\ i.hits = k.hits
            /\ i.snap = k.snap /\ i.solo = k.solo /\ i.clean = k.clean
            /\ IF k.pc = "scan" /\ k.held = None /\ k.ns \in E
               THEN i.held = copy[k.ns] ELSE i.held = k.held
<1> DEFINE k == call[x]  old == copy[k.ns]  i == [k EXCEPT !.held = old]
<1>1. k \in Call
  BY DEF ReadTypeOK
<1>2. k.pc = "scan" => old \in Contents
  BY DEF ReadTypeOK, HotInv
<1> HIDE DEF k, old
<1>3. old \in Contents => i \in Call
  BY <1>1 DEF Call
<1>4. /\ i.pc = k.pc /\ i.ns = k.ns /\ i.content = k.content /\ i.batch = k.batch
      /\ i.docs = k.docs /\ i.useCache = k.useCache /\ i.hits = k.hits
      /\ i.snap = k.snap /\ i.solo = k.solo /\ i.clean = k.clean /\ i.held = old
  BY <1>1 DEF Call
<1> HIDE DEF i
<1>5. CASE k.pc = "scan" /\ k.held = None /\ k.ns \in E
  <2>1. Holding(E)[x] = i
    BY <1>5 DEF Holding, k, i, old
  <2> QED BY <1>2, <1>3, <1>4, <1>5, <2>1 DEF k, old
<1>6. CASE ~(k.pc = "scan" /\ k.held = None /\ k.ns \in E)
  <2>1. Holding(E)[x] = k
    BY <1>6 DEF Holding, k
  <2> QED BY <1>1, <1>6, <2>1 DEF k
<1> QED BY <1>5, <1>6

(* The step of a call leaves the other calls alone. *)
Own(c) == /\ call' \in [Clients -> Call]
          /\ call'[c].pc # "idle" => call'[c].ns \in Namespaces
          /\ \A b \in Clients \ {c} : call'[b] = call[b]

(* A step that sets the record of one client is a step of its own. *)
LEMMA OwnFields ==
  ASSUME ReadTypeOK, NEW c \in Clients, NEW r \in Call,
         r.pc # "idle" => r.ns \in Namespaces, call' = [call EXCEPT ![c] = r]
  PROVE  Own(c) /\ call'[c] = r
BY DEF ReadTypeOK, Own

(* The model's notion of an overlapping write, document by document. *)
LEMMA UntouchedNow ==
  ASSUME NEW ns, ~Written(ns, Docs), ReadTypeOK
  PROVE  Untouched(ns)
BY DEF Written, Untouched, Abandoned, Writes, ReadTypeOK

(* A step of a search, of a warm or of the end of a call disturbs nobody.  *)
LEMMA OwnKeeps ==
  ASSUME ReadInv, NEW c \in Clients, Own(c), UNCHANGED <<store, late, copy>>,
         call'[c].pc \notin Writing,
         Shaped(c)', ReaderAlone(c)', ReaderExact(c)'
  PROVE  /\ \A b \in Clients : Shaped(b)' /\ WriterAlone(b)' /\ ReaderAlone(b)' /\ ReaderExact(b)'
         /\ \A ns : Untouched(ns) => Untouched(ns)'
<1>1. \A b \in Clients : \A ns, d : Writes(b, ns, d)' => Writes(b, ns, d)
  BY DEF Own, Writes
<1>2. \A ns, d : Abandoned(ns, d)' <=> Abandoned(ns, d)
  BY DEF Abandoned
<1>3. \A ns : Untouched(ns) => Untouched(ns)'
  BY <1>1, <1>2 DEF Untouched
<1>4. ASSUME NEW b \in Clients \ {c}
      PROVE  Shaped(b)' /\ WriterAlone(b)' /\ ReaderAlone(b)' /\ ReaderExact(b)'
  <2>1. call'[b] = call[b] /\ Shaped(b) /\ WriterAlone(b) /\ ReaderAlone(b) /\ ReaderExact(b)
    BY DEF Own, ReadInv, Settled
  <2>2. Shaped(b)'
    BY <2>1 DEF Shaped
  <2>3. WriterAlone(b)'
    BY <2>1, <1>1, <1>2 DEF WriterAlone
  <2>4. ReaderAlone(b)'
    BY <2>1, <1>3 DEF ReaderAlone
  <2>5. ReaderExact(b)'
    BY <2>1 DEF ReaderExact, Held
  <2> QED BY <2>2, <2>3, <2>4, <2>5
<1>5. WriterAlone(c)'
  BY DEF WriterAlone
<1> QED BY <1>3, <1>4, <1>5

(* Copies and cached results stay what they are when only readers step.    *)
LEMMA ReaderKeeps ==
  ASSUME ReadInv, NEW c \in Clients, Own(c), UNCHANGED <<store, late, copy, authoritative, hotTaint>>,
         call[c].pc \notin Writing, call'[c].pc \notin Writing,
         Shaped(c)', ReaderAlone(c)', ReaderExact(c)'
  PROVE  /\ \A b \in Clients : Shaped(b)' /\ WriterAlone(b)' /\ ReaderAlone(b)' /\ ReaderExact(b)'
         /\ CopiesFollow'
         /\ UNCHANGED <<cache, cacheTaint>> => CacheFollows'
<1>1. \A b \in Clients : \A ns, d : Writes(b, ns, d)' <=> Writes(b, ns, d)
  BY DEF Own, Writes
<1>2. \A ns, d : Abandoned(ns, d)' <=> Abandoned(ns, d)
  BY DEF Abandoned
<1>3. \A ns : Untouched(ns)' => Untouched(ns)
  BY <1>1, <1>2 DEF Untouched
<1>4. \A ns, d : Unsettled(ns, d) => Unsettled(ns, d)'
  BY <1>1, <1>2 DEF Unsettled, Own, Writes
<1>5. CopiesFollow'
  BY <1>4 DEF CopiesFollow, ReadInv, Settled
<1>6. UNCHANGED <<cache, cacheTaint>> => CacheFollows'
  BY <1>3 DEF CacheFollows, ReadInv, Settled
<1> QED BY <1>5, <1>6, OwnKeeps

(* A client that does nothing. *)
LEMMA IdleFacts == Idle \in Call /\ Idle.pc = "idle" /\ Idle.held = None
BY IdleTyped DEF Idle

(* A call that ends leaves nothing to be shown of its client. *)
LEMMA LeaveFields ==
  ASSUME ReadTypeOK, NEW c \in Clients, Leave(c)
  PROVE  /\ Own(c) /\ call'[c].pc = "idle" /\ call'[c].pc \notin Writing
         /\ Shaped(c)' /\ ReaderAlone(c)' /\ ReaderExact(c)'
<1>1. Own(c) /\ call'[c] = Idle
  BY IdleFacts, OwnFields DEF Leave
<1> QED BY <1>1, IdleFacts DEF Writing, Reading, Shaped, ReaderAlone, ReaderExact

(* The beginning of a search or of a warm. *)
LEMMA BeginFields ==
  ASSUME ReadInv, NEW c \in Clients, NEW r, UNCHANGED <<store, late, copy>>,
         r \in Call, r.ns \in Namespaces, r.pc \in {"pin", "list"}, r.solo = ~Written(r.ns, Docs),
         r.pc = "list" => r.docs = Docs, r.held = None,
         call[c].pc = "idle", call' = [call EXCEPT ![c] = r]
  PROVE  Own(c) /\ call'[c].pc \notin Writing /\ Shaped(c)' /\ ReaderAlone(c)' /\ ReaderExact(c)'
<1>0. ReadTypeOK
  BY DEF ReadInv
<1>1. Own(c) /\ call'[c] = r
  BY <1>0, OwnFields
<1>2. Shaped(c)' /\ call'[c].pc \notin Writing
  BY <1>1 DEF Shaped, Writing
<1>3. \A b \in Clients : \A d : Writes(b, r.ns, d)' => Writes(b, r.ns, d)
  BY <1>1, <1>2 DEF Writes, Own
<1>4. Untouched(r.ns) => Untouched(r.ns)'
  BY <1>3 DEF Untouched, Abandoned
<1>5. ReaderAlone(c)'
  BY <1>0, <1>1, <1>4, UntouchedNow DEF ReaderAlone
<1>6. ReaderExact(c)'
  BY <1>1 DEF ReaderExact
<1> QED BY <1>1, <1>2, <1>5, <1>6

(* A step of a search or of a warm whose namespace and documents at heart  *)
(* stay its own.                                                           *)
LEMMA GoOn ==
  ASSUME ReadInv, NEW c \in Clients, NEW r, UNCHANGED <<store, late, copy>>,
         call[c].pc \in Reading,
         r \in Call, r.ns = call[c].ns, r.pc \in Reading, r.solo = call[c].solo,
         call' = [call EXCEPT ![c] = r]
  PROVE  /\ Own(c) /\ call'[c] = r /\ call[c].pc \notin Writing /\ call'[c].pc \notin Writing
         /\ ReaderAlone(c)'
<1>0. ReadTypeOK /\ ReaderAlone(c)
  BY DEF ReadInv, Settled
<1>1. Own(c) /\ call'[c] = r /\ call[c].pc \notin Writing /\ call'[c].pc \notin Writing
  BY <1>0, OwnFields, CallFacts DEF Reading, Writing
<1>2. \A b \in Clients : \A ns, d : Writes(b, ns, d)' => Writes(b, ns, d)
  BY <1>1 DEF Writes, Own
<1>3. \A ns : Untouched(ns) => Untouched(ns)'
  BY <1>2 DEF Untouched, Abandoned
<1> QED BY <1>0, <1>1, <1>3 DEF ReaderAlone

(* A step of one client keeps the calls typed. *)
LEMMA OwnTyped ==
  ASSUME ReadInv, NEW c \in Clients, Own(c)
  PROVE  CallsTyped'
BY DEF Own, CallsTyped, ReadInv, Settled

(* The cache lookup: a search that goes on knows whether it is alone. *)
LEMMA SearchKeeps ==
  ASSUME ReadInv, NEW c \in Clients, Search(c)
  PROVE  Settled'
<1>0. UNCHANGED <<store, late, copy, authoritative, hotTaint, cache, cacheTaint>> /\ call[c].pc = "idle"
  BY DEF Search, Start, hotVars
<1>1. CASE UNCHANGED call
  <2>1. Own(c) /\ call'[c] = call[c] /\ call[c].pc \notin Writing /\ call[c].pc \notin Reading
    BY <1>0, <1>1 DEF Own, ReadInv, Settled, CallsTyped, Writing, Reading
  <2>2. Shaped(c)' /\ ReaderAlone(c)' /\ ReaderExact(c)'
    BY <1>0, <2>1 DEF Shaped, ReaderAlone, ReaderExact, Writing, ReadInv, Settled
  <2> QED BY <1>0, <2>1, <2>2, ReaderKeeps, OwnTyped DEF Settled
<1>2. ASSUME NEW ns \in Namespaces, NEW useCache \in BOOLEAN,
             call' = [call EXCEPT ![c] = [Idle EXCEPT !.pc = "pin", !.ns = ns, !.useCache = useCache,
                                                      !.solo = ~Written(ns, Docs)]]
      PROVE  Settled'
  <2> DEFINE r == [Idle EXCEPT !.pc = "pin", !.ns = ns, !.useCache = useCache,
                               !.solo = ~Written(ns, Docs)]
  <2>1. r \in Call /\ r.ns = ns /\ r.pc = "pin" /\ r.solo = ~Written(ns, Docs) /\ r.held = None
    BY ContentsFacts DEF Idle, Call, Values
  <2> HIDE DEF r
  <2>2. call' = [call EXCEPT ![c] = r]
    BY <1>2 DEF r
  <2>3. Own(c) /\ call'[c].pc \notin Writing /\ Shaped(c)' /\ ReaderAlone(c)' /\ ReaderExact(c)'
    BY <1>0, <2>1, <2>2, BeginFields
  <2>4. call[c].pc \notin Writing
    BY <1>0 DEF Writing
  <2> QED BY <1>0, <2>3, <2>4, ReaderKeeps, OwnTyped DEF Settled
<1> QED BY <1>1, <1>2 DEF Search

(* A warm begins, knowing whether it is alone. *)
LEMMA WarmKeeps ==
  ASSUME ReadInv, NEW c \in Clients, Warm(c)
  PROVE  Settled'
<1>0. UNCHANGED <<store, late, copy, authoritative, hotTaint, cache, cacheTaint>> /\ call[c].pc = "idle"
  BY DEF Warm, Start, hotVars
<1>1. PICK ns \in Namespaces :
        call' = [call EXCEPT ![c] = [Idle EXCEPT !.pc = "list", !.ns = ns, !.docs = Docs,
                                                 !.solo = ~Written(ns, Docs)]]
  BY DEF Warm
<1> DEFINE r == [Idle EXCEPT !.pc = "list", !.ns = ns, !.docs = Docs, !.solo = ~Written(ns, Docs)]
<1>2. r \in Call /\ r.ns = ns /\ r.pc = "list" /\ r.docs = Docs /\ r.solo = ~Written(ns, Docs)
      /\ r.held = None
  BY ContentsFacts DEF Idle, Call, Values
<1> HIDE DEF r
<1>3. call' = [call EXCEPT ![c] = r]
  BY <1>1 DEF r
<1>4. Own(c) /\ call'[c].pc \notin Writing /\ Shaped(c)' /\ ReaderAlone(c)' /\ ReaderExact(c)'
  BY <1>0, <1>2, <1>3, BeginFields
<1>5. call[c].pc \notin Writing
  BY <1>0 DEF Writing
<1> QED BY <1>0, <1>4, <1>5, ReaderKeeps, OwnTyped DEF Settled

(* A search of an authoritative and untainted namespace that no write has  *)
(* touched is given the index that holds what the stores hold.             *)
LEMMA CopyExact ==
  ASSUME ReadInv, NEW ns \in authoritative \ hotTaint, Untouched(ns)
  PROVE  copy[ns] = store[ns]
<1>1. ns \in Namespaces
  BY DEF ReadInv, HotInv, Indexed
<1>2. \A d \in Docs : ~Unsettled(ns, d)
  BY DEF Untouched, Unsettled
<1>3. \A d \in Docs : copy[ns][d] = store[ns][d]
  BY <1>2 DEF CopiesFollow, ReadInv, Settled
<1>4. copy[ns] \in Contents /\ store[ns] \in Contents
  BY <1>1 DEF ReadInv, HotInv, ReadTypeOK
<1> QED BY <1>3, <1>4 DEF Contents

(* HotTier.search: an untainted index holds what the stores hold. *)
LEMMA SearchPinKeeps ==
  ASSUME ReadInv, NEW c \in Clients, SearchPin(c)
  PROVE  Settled'
<1>0. UNCHANGED <<store, late, copy, authoritative, hotTaint, cache, cacheTaint>> /\ call[c].pc = "pin"
  BY DEF SearchPin, Touch, hotVars
<1> DEFINE k == call[c]
<1>1. k \in Call /\ ReadTypeOK /\ ReaderAlone(c)
  BY DEF ReadInv, Settled, CallsTyped
<1>2. ASSUME NEW r, call' = [call EXCEPT ![c] = r], r \in Call, r.ns = k.ns, r.solo = k.solo,
             r.held = None,
             \/ /\ r.pc = "scan" /\ k.ns \in authoritative
                /\ r.clean = (k.ns \notin hotTaint)
             \/ r.pc = "query"
      PROVE  Settled'
  <2>1. /\ Own(c) /\ call'[c] = r /\ k.pc \notin Writing /\ call'[c].pc \notin Writing
        /\ ReaderAlone(c)'
    BY <1>0, <1>2, GoOn DEF Reading
  <2>2. Shaped(c)'
    BY <1>2, <2>1 DEF Shaped
  <2>3. ReaderExact(c)'
    BY <1>0, <1>1, <1>2, <2>1, CopyExact DEF ReaderExact, ReaderAlone, Reading
  <2> QED BY <1>0, <2>1, <2>2, <2>3, ReaderKeeps, OwnTyped DEF Settled
<1>3. k.held = None
  BY <1>0 DEF ReadInv, Settled, Shaped
<1>4. CASE /\ k.ns \in authoritative
           /\ call' = [call EXCEPT ![c].pc = "scan", ![c].clean = k.ns \notin hotTaint]
  <2> DEFINE r == [k EXCEPT !.pc = "scan", !.clean = k.ns \notin hotTaint]
  <2> HIDE DEF k
  <2>1. /\ r \in Call /\ r.ns = k.ns /\ r.solo = k.solo /\ r.pc = "scan" /\ r.held = k.held
        /\ r.clean = (k.ns \notin hotTaint)
    BY <1>1 DEF Call
  <2>2. call' = [call EXCEPT ![c] = r]
    BY <1>4 DEF k
  <2> HIDE DEF r
  <2> QED BY <1>2, <1>3, <1>4, <2>1, <2>2
<1>5. CASE Goto(c, "query")
  <2> DEFINE r == [k EXCEPT !.pc = "query"]
  <2> HIDE DEF k
  <2>1. r \in Call /\ r.ns = k.ns /\ r.solo = k.solo /\ r.pc = "query" /\ r.held = k.held
    BY <1>1 DEF Call
  <2>2. call' = [call EXCEPT ![c] = r]
    BY <1>5 DEF k, Goto
  <2> HIDE DEF r
  <2> QED BY <1>2, <1>3, <2>1, <2>2
<1> QED BY <1>4, <1>5 DEF SearchPin

(* What a search reads from its index is what the stores hold, if nothing  *)
(* disturbed it.                                                           *)
LEMMA SearchScanKeeps ==
  ASSUME ReadInv, NEW c \in Clients, SearchScan(c)
  PROVE  Settled'
<1>0. /\ UNCHANGED <<store, late, copy, authoritative, hotTaint, cache, cacheTaint>>
      /\ call[c].pc = "scan"
  BY DEF SearchScan, hotVars
<1> DEFINE k == call[c]
           found == IF call[c].held = None THEN copy[call[c].ns] ELSE call[c].held
<1>1. k \in Call /\ ReadTypeOK /\ ReaderExact(c) /\ k.ns \in Namespaces
  BY <1>0 DEF ReadInv, Settled, CallsTyped
<1>2. found \in Contents /\ Held(found) \in SUBSET Docs
  BY <1>1, ContentsFacts DEF ReadInv, HotInv, Call
<1>3. ASSUME NEW r, call' = [call EXCEPT ![c] = r], r \in Call, r.ns = k.ns, r.solo = k.solo, r.held = None,
             \/ r.pc = "answer" /\ r.snap = found /\ r.clean = k.clean
             \/ r.pc = "query"
      PROVE  Settled'
  <2>1. /\ Own(c) /\ call'[c] = r /\ k.pc \notin Writing /\ call'[c].pc \notin Writing
        /\ ReaderAlone(c)'
    BY <1>0, <1>3, GoOn DEF Reading
  <2>2. Shaped(c)'
    BY <1>3, <2>1 DEF Shaped
  <2>3. ReaderExact(c)'
    BY <1>0, <1>1, <1>3, <2>1 DEF ReaderExact, Reading
  <2> QED BY <1>0, <2>1, <2>2, <2>3, ReaderKeeps, OwnTyped DEF Settled
<1>4. CASE call' = [call EXCEPT ![c].pc = "answer", ![c].snap = found,
                                ![c].hits = Held(found), ![c].held = None]
  <2> DEFINE r == [k EXCEPT !.pc = "answer", !.snap = found, !.hits = Held(found), !.held = None]
  <2>1. call' = [call EXCEPT ![c] = r]
    BY <1>4
  <2> HIDE DEF k, found
  <2>2. /\ r \in Call /\ r.ns = k.ns /\ r.solo = k.solo /\ r.pc = "answer" /\ r.held = None
        /\ r.snap = found /\ r.clean = k.clean
    BY <1>1, <1>2 DEF Call
  <2> HIDE DEF r
  <2> QED BY <1>3, <2>1, <2>2
<1>5. CASE call' = [call EXCEPT ![c].pc = "query", ![c].held = None, ![c].clean = TRUE]
  <2> DEFINE r == [k EXCEPT !.pc = "query", !.held = None, !.clean = TRUE]
  <2>1. call' = [call EXCEPT ![c] = r]
    BY <1>5
  <2> HIDE DEF k
  <2>2. r \in Call /\ r.ns = k.ns /\ r.solo = k.solo /\ r.pc = "query" /\ r.held = None
    BY <1>1 DEF Call
  <2> HIDE DEF r
  <2> QED BY <1>3, <2>1, <2>2
<1> QED BY <1>4, <1>5 DEF SearchScan

(* A call that ends without having filled the cache. *)
LEMMA LeaveKeeps ==
  ASSUME ReadInv, NEW c \in Clients, Leave(c), call[c].pc \notin Writing,
         UNCHANGED <<store, late, copy, authoritative, hotTaint, cache, cacheTaint>>
  PROVE  Settled'
BY LeaveFields, ReaderKeeps, OwnTyped DEF Settled, ReadInv

(* The S3 Vectors query finds exactly the documents that are stored. *)
LEMMA SearchQueryKeeps ==
  ASSUME ReadInv, NEW c \in Clients, SearchQuery(c)
  PROVE  Settled'
<1>0. /\ UNCHANGED <<store, late, copy, authoritative, hotTaint, cache, cacheTaint>>
      /\ call[c].pc = "query"
  BY DEF SearchQuery, hotVars
<1> DEFINE k == call[c]  hits == Held(store[call[c].ns])
<1>1. k \in Call /\ ReadTypeOK /\ k.ns \in Namespaces /\ k.held = None
  BY <1>0 DEF ReadInv, Settled, CallsTyped, Shaped
<1>2. hits \in SUBSET Docs
  BY DEF Held
<1>3. CASE Leave(c)
  BY <1>0, <1>3, LeaveKeeps DEF Writing
<1>4. CASE call' = [call EXCEPT ![c].pc = "hydrate", ![c].hits = hits]
  <2> DEFINE r == [k EXCEPT !.pc = "hydrate", !.hits = hits]
  <2>1. call' = [call EXCEPT ![c] = r]
    BY <1>4
  <2> HIDE DEF k, hits
  <2>2. /\ r \in Call /\ r.ns = k.ns /\ r.solo = k.solo /\ r.pc = "hydrate" /\ r.held = None
        /\ r.hits = hits
    BY <1>1, <1>2 DEF Call
  <2> HIDE DEF r
  <2>3. /\ Own(c) /\ call'[c] = r /\ k.pc \notin Writing /\ call'[c].pc \notin Writing
        /\ ReaderAlone(c)'
    BY <1>0, <2>1, <2>2, GoOn DEF Reading, k
  <2>4. Shaped(c)'
    BY <2>2, <2>3 DEF Shaped
  <2>5. ReaderExact(c)'
    BY <1>0, <2>2, <2>3 DEF ReaderExact, hits, k, Held
  <2> QED BY <1>0, <2>3, <2>4, <2>5, ReaderKeeps, OwnTyped DEF Settled, k
<1> QED BY <1>3, <1>4 DEF SearchQuery

(* get_many completes the hits to what the stores hold. *)
LEMMA SearchHydrateKeeps ==
  ASSUME ReadInv, NEW c \in Clients, SearchHydrate(c)
  PROVE  Settled'
<1>0. /\ UNCHANGED <<store, late, copy, authoritative, hotTaint, cache, cacheTaint>>
      /\ call[c].pc = "hydrate"
  BY DEF SearchHydrate, hotVars
<1> DEFINE k == call[c]
           read == [d \in Docs |-> IF d \in call[c].hits THEN store[call[c].ns][d] ELSE None]
           r == [k EXCEPT !.pc = "answer", !.snap = read]
<1>1. k \in Call /\ ReadTypeOK /\ k.ns \in Namespaces /\ k.held = None /\ ReaderExact(c)
  BY <1>0 DEF ReadInv, Settled, CallsTyped, Shaped
<1>2. read \in Contents /\ store[k.ns] \in Contents
  BY <1>1 DEF ReadTypeOK, Contents
<1>3. k.hits = Held(store[k.ns]) => read = store[k.ns]
  BY <1>2 DEF Held, Contents
<1>4. call' = [call EXCEPT ![c] = r]
  BY DEF SearchHydrate
<1> HIDE DEF k, read
<1>5. /\ r \in Call /\ r.ns = k.ns /\ r.solo = k.solo /\ r.pc = "answer" /\ r.held = None
      /\ r.snap = read
  BY <1>1, <1>2 DEF Call
<1> HIDE DEF r
<1>6. /\ Own(c) /\ call'[c] = r /\ k.pc \notin Writing /\ call'[c].pc \notin Writing
      /\ ReaderAlone(c)'
  BY <1>0, <1>4, <1>5, GoOn DEF Reading, k
<1>7. Shaped(c)'
  BY <1>5, <1>6 DEF Shaped
<1>8. ReaderExact(c)'
  BY <1>0, <1>1, <1>3, <1>5, <1>6 DEF ReaderExact, k, Reading
<1> QED BY <1>0, <1>6, <1>7, <1>8, ReaderKeeps, OwnTyped DEF Settled, k

(* list_vectors: what has been scanned is what the stores hold. *)
LEMMA WarmListKeeps ==
  ASSUME ReadInv, NEW c \in Clients, WarmList(c)
  PROVE  Settled'
<1>0. /\ UNCHANGED <<store, late, copy, authoritative, hotTaint, cache, cacheTaint>>
      /\ call[c].pc = "list"
  BY DEF WarmList, hotVars
<1>1. PICK d \in call[c].docs :
        call' = [call EXCEPT ![c].docs = @ \ {d}, ![c].snap[d] = store[call[c].ns][d],
                             ![c].pc = IF call[c].docs = {d} THEN "load" ELSE "list"]
  BY DEF WarmList
<1> DEFINE k == call[c]
           read == [k.snap EXCEPT ![d] = store[call[c].ns][d]]
           left == k.docs \ {d}
           next == IF call[c].docs = {d} THEN "load" ELSE "list"
           r == [k EXCEPT !.docs = left, !.snap = read, !.pc = next]
<1>2. k \in Call /\ ReadTypeOK /\ k.ns \in Namespaces /\ k.held = None /\ ReaderExact(c)
  BY <1>0 DEF ReadInv, Settled, CallsTyped, Shaped
<1>3. /\ read \in Contents /\ left \in SUBSET Docs /\ d \in Docs
      /\ \A e \in Docs : read[e] = IF e = d THEN store[k.ns][e] ELSE k.snap[e]
  BY <1>2, CallFacts, ContentsFacts DEF ReadTypeOK, Contents
<1>4. call' = [call EXCEPT ![c] = r]
  BY <1>1
<1>5. next \in {"load", "list"} /\ (next = "load" => left = {})
  OBVIOUS
<1> HIDE DEF k, read, left, next
<1>6. /\ r \in Call /\ r.ns = k.ns /\ r.solo = k.solo /\ r.pc = next /\ r.held = None
      /\ r.snap = read /\ r.docs = left
  BY <1>2, <1>3, <1>5 DEF Call
<1> HIDE DEF r
<1>7. /\ Own(c) /\ call'[c] = r /\ k.pc \notin Writing /\ call'[c].pc \notin Writing
      /\ ReaderAlone(c)'
  BY <1>0, <1>4, <1>5, <1>6, GoOn DEF Reading, k
<1>8. Shaped(c)'
  BY <1>5, <1>6, <1>7 DEF Shaped, Writing
<1>9. ReaderExact(c)'
  BY <1>0, <1>2, <1>3, <1>5, <1>6, <1>7 DEF ReaderExact, Reading, left, k
<1> QED BY <1>0, <1>7, <1>8, <1>9, ReaderKeeps, OwnTyped DEF Settled, k

(* A read that raises ends its call. *)
LEMMA ReadFaultKeeps ==
  ASSUME ReadInv, NEW c \in Clients, ReadFault(c)
  PROVE  Settled'
BY LeaveKeeps DEF ReadFault, Writing, hotVars

(* The cache is filled with what the stores hold, or is tainted. *)
LEMMA SearchAnswerKeeps ==
  ASSUME ReadInv, NEW c \in Clients, SearchAnswer(c)
  PROVE  Settled'
<1>0. /\ UNCHANGED <<store, late, copy, authoritative, hotTaint>>
      /\ call[c].pc = "answer" /\ Leave(c)
  BY DEF SearchAnswer, hotVars
<1>1. CASE UNCHANGED <<cache, cacheTaint>>
  BY <1>0, <1>1, LeaveKeeps DEF Writing
<1>2. CASE /\ cache' = [cache EXCEPT ![call[c].ns] = call[c].snap]
           /\ cacheTaint' = IF call[c].solo /\ call[c].clean
                            THEN cacheTaint \ {call[c].ns} ELSE cacheTaint \cup {call[c].ns}
  <2>1. /\ Own(c) /\ call[c].pc \notin Writing /\ call'[c].pc \notin Writing
        /\ Shaped(c)' /\ ReaderAlone(c)' /\ ReaderExact(c)'
    BY <1>0, LeaveFields DEF ReadInv, Writing
  <2>2. /\ \A b \in Clients : Shaped(b)' /\ WriterAlone(b)' /\ ReaderAlone(b)' /\ ReaderExact(b)'
        /\ CopiesFollow'
    BY <1>0, <2>1, ReaderKeeps
  <2>3. /\ call[c].solo /\ call[c].clean => call[c].snap = store[call[c].ns]
        /\ call[c].ns \in Namespaces /\ cache \in [Namespaces -> Contents \cup {None}]
    BY <1>0 DEF ReadInv, Settled, ReaderExact, CallsTyped, Reading, ReadTypeOK
  <2>4. \A ns : Untouched(ns)' => Untouched(ns)
    BY <1>0, <2>1 DEF Untouched, Abandoned, Writes, Own
  <2>5. CacheFollows'
    BY <1>0, <1>2, <2>3, <2>4 DEF CacheFollows, ReadInv, Settled
  <2> QED BY <2>1, <2>2, <2>5, OwnTyped DEF Settled
<1> QED BY <1>1, <1>2 DEF SearchAnswer

(* An entry the cache drops was not needed. *)
LEMMA CacheDropKeeps ==
  ASSUME ReadInv, NEW ns \in Namespaces, CacheDrop(ns)
  PROVE  Settled'
<1>1. UNCHANGED <<hotVars, store, call, late, hotTaint, cacheTaint>> /\ cache' = [cache EXCEPT ![ns] = None]
  BY DEF CacheDrop
<1>2. UNCHANGED <<authoritative, copy>>
  BY <1>1 DEF hotVars
<1>3. CallsTyped'
  BY <1>1 DEF ReadInv, Settled, CallsTyped
<1>4. \A n, d : Abandoned(n, d)' <=> Abandoned(n, d)
  BY <1>1 DEF Abandoned
<1>5. \A b \in Clients : \A n, d : Writes(b, n, d)' <=> Writes(b, n, d)
  BY <1>1 DEF Writes
<1>6. \A n : Untouched(n)' <=> Untouched(n)
  BY <1>4, <1>5 DEF Untouched
<1>7. CacheFollows'
  BY <1>1, <1>6 DEF CacheFollows, ReadInv, Settled, ReadTypeOK
<1>8. CopiesFollow'
  BY <1>1, <1>2, <1>4, <1>5 DEF CopiesFollow, Unsettled, ReadInv, Settled
<1>9. \A b \in Clients : Shaped(b)' /\ WriterAlone(b)' /\ ReaderAlone(b)' /\ ReaderExact(b)'
  <2> TAKE b \in Clients
  <2>1. Shaped(b) /\ WriterAlone(b) /\ ReaderAlone(b) /\ ReaderExact(b)
    BY DEF ReadInv, Settled
  <2>2. Shaped(b)' /\ ReaderExact(b)'
    BY <1>1, <1>2, <2>1 DEF Shaped, ReaderExact, Held
  <2>3. WriterAlone(b)'
    BY <1>1, <1>4, <1>5, <2>1 DEF WriterAlone
  <2>4. ReaderAlone(b)'
    BY <1>1, <1>6, <2>1 DEF ReaderAlone
  <2> QED BY <2>2, <2>3, <2>4
<1> QED BY <1>3, <1>7, <1>8, <1>9 DEF Settled

(* The end of a write: its documents are settled already, and no cached    *)
(* result of the namespace is left.                                        *)
LEMMA WriteEvictKeeps ==
  ASSUME ReadInv, NEW c \in Clients, WriteEvict(c)
  PROVE  Settled'
<1>0. /\ UNCHANGED <<store, late, copy, authoritative, hotTaint, cacheTaint>>
      /\ call[c].pc = "evict" /\ Leave(c) /\ cache' = [cache EXCEPT ![call[c].ns] = None]
  BY DEF WriteEvict, hotVars
<1>1. /\ Own(c) /\ call'[c].pc = "idle" /\ call'[c].pc \notin Writing
      /\ Shaped(c)' /\ ReaderAlone(c)' /\ ReaderExact(c)'
  BY <1>0, LeaveFields DEF ReadInv
<1>2. \A b \in Clients : Shaped(b)' /\ WriterAlone(b)' /\ ReaderAlone(b)' /\ ReaderExact(b)'
  BY <1>0, <1>1, OwnKeeps
<1>3. \A ns, d : Unsettled(ns, d) => Unsettled(ns, d)'
  BY <1>0, <1>1 DEF Unsettled, Abandoned, Writes, Own
<1>4. CopiesFollow'
  BY <1>0, <1>3 DEF CopiesFollow, ReadInv, Settled
<1>5. \A ns : ns # call[c].ns /\ Untouched(ns)' => Untouched(ns)
  BY <1>0, <1>1 DEF Untouched, Abandoned, Writes, Own
<1>6. CacheFollows'
  BY <1>0, <1>5 DEF CacheFollows, ReadInv, Settled, ReadTypeOK
<1> QED BY <1>1, <1>2, <1>4, <1>6, OwnTyped DEF Settled

(* A new write takes from the others that they are alone, and finds out    *)
(* whether it is.                                                          *)
LEMMA WriteKeeps ==
  ASSUME ReadInv, NEW c \in Clients, Write(c)
  PROVE  Settled'
<1>0. /\ UNCHANGED <<store, late, copy, authoritative, hotTaint, cache, cacheTaint>>
      /\ call[c].pc = "idle"
  BY DEF Write, Start, hotVars
<1>1. PICK ns \in Namespaces, D \in (SUBSET Docs) \ {{}}, content \in Values :
        call' = [Disturbed(ns, D) EXCEPT
                   ![c] = [Idle EXCEPT !.pc = "store", !.ns = ns, !.content = content,
                                       !.batch = D, !.docs = D, !.solo = ~Written(ns, D)]]
  BY DEF Write
<1> DEFINE r == [Idle EXCEPT !.pc = "store", !.ns = ns, !.content = content,
                             !.batch = D, !.docs = D, !.solo = ~Written(ns, D)]
<1>2. /\ r \in Call /\ r.pc = "store" /\ r.ns = ns /\ r.batch = D /\ r.docs = D
      /\ r.solo = ~Written(ns, D) /\ r.held = None
  BY ContentsFacts DEF Idle, Call, Values
<1> HIDE DEF r
<1>3. ReadTypeOK
  BY DEF ReadInv
<1>4. /\ DOMAIN call' = Clients /\ call' = [b \in Clients |-> call'[b]]
      /\ call'[c] = r /\ \A b \in Clients \ {c} : call'[b] = Disturbed(ns, D)[b]
  BY <1>1 DEF Disturbed, r
<1>5. ASSUME NEW b \in Clients \ {c}
      PROVE  /\ call'[b] \in Call
             /\ call'[b].pc = call[b].pc /\ call'[b].ns = call[b].ns
             /\ call'[b].content = call[b].content /\ call'[b].batch = call[b].batch
             /\ call'[b].docs = call[b].docs /\ call'[b].hits = call[b].hits
             /\ call'[b].snap = call[b].snap /\ call'[b].held = call[b].held
             /\ call'[b].clean = call[b].clean
             /\ call'[b].solo => /\ call[b].solo
                                 /\ call[b].ns = ns =>
                                      call[b].pc \in Writing /\ call[b].batch \cap D = {}
  BY <1>3, <1>4, DisturbedFields
<1>6. CallsTyped'
  BY <1>2, <1>3, <1>4, <1>5, CallFacts DEF CallsTyped
<1>7. /\ \A b \in Clients \ {c} : \A n, d : Writes(b, n, d)' <=> Writes(b, n, d)
      /\ \A n, d : Writes(c, n, d)' <=> n = ns /\ d \in D
      /\ \A n, d : ~Writes(c, n, d)
  BY <1>0, <1>2, <1>4, <1>5 DEF Writes, Writing
<1>8. \A n, d : Abandoned(n, d)' <=> Abandoned(n, d)
  BY <1>0 DEF Abandoned
<1>9. \A n : /\ Untouched(n)' => Untouched(n)
             /\ n # ns /\ Untouched(n) => Untouched(n)'
  BY <1>7, <1>8 DEF Untouched
<1>10. \A b \in Clients : Shaped(b)' /\ WriterAlone(b)' /\ ReaderAlone(b)' /\ ReaderExact(b)'
  <2>1. ASSUME NEW b \in Clients \ {c}
        PROVE  Shaped(b)' /\ WriterAlone(b)' /\ ReaderAlone(b)' /\ ReaderExact(b)'
    <3>0. Shaped(b) /\ WriterAlone(b) /\ ReaderAlone(b) /\ ReaderExact(b)
      BY DEF ReadInv, Settled
    <3>1. Shaped(b)'
      BY <1>5, <2>1, <3>0 DEF Shaped
    <3>2. WriterAlone(b)'
      BY <1>0, <1>5, <1>7, <1>8, <2>1, <3>0 DEF WriterAlone
    <3>3. ReaderAlone(b)'
      BY <1>5, <1>9, <2>1, <3>0 DEF ReaderAlone, Reading, Writing
    <3>4. ReaderExact(b)'
      BY <1>0, <1>5, <2>1, <3>0 DEF ReaderExact, Held
    <3> QED BY <3>1, <3>2, <3>3, <3>4
  <2>2. Shaped(c)' /\ ReaderAlone(c)' /\ ReaderExact(c)'
    BY <1>2, <1>4 DEF Shaped, ReaderAlone, ReaderExact, Reading, Writing
  <2>3. ~Written(ns, D) => \A d \in D : ~Abandoned(ns, d) /\ \A x \in Clients : ~Writes(x, ns, d)
    BY DEF Written, Abandoned, Writes
  <2>4. WriterAlone(c)'
    BY <1>2, <1>4, <1>7, <1>8, <2>3 DEF WriterAlone
  <2> QED BY <2>1, <2>2, <2>4
<1>11. \A n, d : Unsettled(n, d) => Unsettled(n, d)'
  BY <1>5, <1>7, <1>8 DEF Unsettled
<1>12. CopiesFollow'
  BY <1>0, <1>11 DEF CopiesFollow, ReadInv, Settled
<1>13. CacheFollows'
  BY <1>0, <1>9 DEF CacheFollows, ReadInv, Settled
<1> QED BY <1>6, <1>10, <1>12, <1>13 DEF Settled

(* Who else is alone does not read what a write of theirs does not touch.  *)
LEMMA WriteStoreKeeps ==
  ASSUME ReadInv, NEW c \in Clients, WriteStore(c)
  PROVE  Settled'
<1>0. /\ UNCHANGED <<late, copy, authoritative, hotTaint, cache, cacheTaint>>
      /\ call[c].pc = "store"
  BY DEF WriteStore, hotVars
<1>0a. ReadTypeOK /\ Shaped(c) /\ WriterAlone(c) /\ call[c].ns \in Namespaces
  BY <1>0 DEF ReadInv, Settled, CallsTyped
<1>0b. PICK ns \in Namespaces : ns = call[c].ns
  BY <1>0a
<1> DEFINE k == call[c]
<1>1. PICK d \in k.docs :
        /\ store' = [store EXCEPT ![ns][d] = call[c].content]
        /\ call' = [call EXCEPT ![c].docs = @ \ {d},
                                ![c].pc = IF call[c].docs = {d} THEN "hot" ELSE "store"]
  BY <1>0b DEF WriteStore
<1> DEFINE left == k.docs \ {d}
           next == IF call[c].docs = {d} THEN "hot" ELSE "store"
           r == [k EXCEPT !.docs = left, !.pc = next]
<1>2. /\ k \in Call /\ ReadTypeOK /\ ns = k.ns /\ Shaped(c) /\ WriterAlone(c)
      /\ d \in Docs /\ d \in k.batch
  BY <1>0, <1>0a, <1>0b, CallFacts DEF Shaped, Writing
<1>3. next \in {"hot", "store"} /\ (next = "hot" => left = {}) /\ left \subseteq Docs
  BY <1>2, CallFacts
<1>4. call' = [call EXCEPT ![c] = r]
  BY <1>1
<1>5. \A n \in Namespaces, e \in Docs :
        store'[n][e] = IF n = ns /\ e = d THEN k.content ELSE store[n][e]
  BY <1>1, <1>2 DEF ReadTypeOK, Contents
<1>5a. \A n \in Namespaces : n # ns => store'[n] = store[n]
  BY <1>1
<1> HIDE DEF k, left, next
<1>6. /\ r \in Call /\ r.ns = k.ns /\ r.solo = k.solo /\ r.pc = next /\ r.docs = left
      /\ r.batch = k.batch /\ r.content = k.content /\ r.held = k.held
  BY <1>2, <1>3 DEF Call
<1> HIDE DEF r
<1>7. Own(c) /\ call'[c] = r /\ CallsTyped'
  BY <1>2, <1>4, <1>6, OwnFields, OwnTyped DEF k
<1>8. \A b \in Clients : \A n, e : Writes(b, n, e)' <=> Writes(b, n, e)
  BY <1>0, <1>3, <1>6, <1>7 DEF Own, Writes, Writing, k
<1>9. \A n, e : Abandoned(n, e)' <=> Abandoned(n, e)
  BY <1>0 DEF Abandoned
<1>10. \A n : Untouched(n)' <=> Untouched(n)
  BY <1>8, <1>9 DEF Untouched
<1>11. Writes(c, ns, d)
  BY <1>0, <1>2 DEF Writes, Writing, k
<1>12. ASSUME NEW b \in Clients \ {c}
       PROVE  Shaped(b)' /\ WriterAlone(b)' /\ ReaderAlone(b)' /\ ReaderExact(b)'
  <2>0. /\ Shaped(b) /\ WriterAlone(b) /\ ReaderAlone(b) /\ ReaderExact(b)
        /\ call'[b] = call[b] /\ (call[b].pc # "idle" => call[b].ns \in Namespaces)
        /\ call[b].batch \subseteq Docs
    BY <1>2, <1>7, CallFacts DEF ReadInv, Settled, Own, CallsTyped
  <2>1. Shaped(b)'
    BY <2>0 DEF Shaped
  <2>2. WriterAlone(b)'
    BY <1>5, <1>8, <1>9, <1>11, <2>0 DEF WriterAlone, Writing
  <2>3. ReaderAlone(b)'
    BY <1>10, <2>0 DEF ReaderAlone
  <2>4. call[b].pc \in Reading /\ call[b].solo => call[b].ns # ns
    BY <1>2, <1>11, <2>0 DEF ReaderAlone, Untouched
  <2>5. call[b].pc \in Reading /\ call[b].solo => store'[call[b].ns] = store[call[b].ns]
    BY <1>5a, <2>0, <2>4 DEF Reading
  <2>6. ReaderExact(b)'
    BY <1>0, <2>0, <2>5 DEF ReaderExact, Held
  <2> QED BY <2>1, <2>2, <2>3, <2>6
<1>13. Shaped(c)' /\ ReaderAlone(c)' /\ ReaderExact(c)'
  BY <1>0, <1>2, <1>3, <1>6, <1>7 DEF Shaped, ReaderAlone, ReaderExact, Reading, Writing, left, k
<1>14. WriterAlone(c)'
  <2>1. k.batch \subseteq Docs
    BY <1>2, CallFacts DEF k
  <2> QED BY <1>0, <1>2, <1>5, <1>6, <1>7, <1>8, <1>9, <2>1 DEF WriterAlone, Writing, left, k
<1>15. \A n, e : Unsettled(n, e) => Unsettled(n, e)'
  BY <1>0, <1>3, <1>6, <1>7, <1>8, <1>9 DEF Unsettled, Own
<1>16. Unsettled(ns, d)'
  BY <1>3, <1>6, <1>7, <1>8, <1>11 DEF Unsettled
<1>17. CopiesFollow'
  <2>1. authoritative \subseteq Namespaces
    BY DEF ReadInv, HotInv, Indexed
  <2> QED BY <1>0, <1>5, <1>15, <1>16, <2>1 DEF CopiesFollow, ReadInv, Settled
<1>18. CacheFollows'
  <2>1. ~Untouched(ns)'
    BY <1>2, <1>8, <1>11 DEF Untouched
  <2> QED BY <1>0, <1>5a, <1>10, <2>1 DEF CacheFollows, ReadInv, Settled
<1> QED BY <1>7, <1>12, <1>13, <1>14, <1>17, <1>18 DEF Settled

(* A write that raises leaves to late only documents it was to write, and  *)
(* taints its namespace.                                                   *)
LEMMA WriteFaultKeeps ==
  ASSUME ReadInv, NEW c \in Clients, WriteFault(c)
  PROVE  Settled'
<1>0. /\ UNCHANGED <<store, copy, authoritative, cache>> /\ call[c].pc = "store" /\ Leave(c)
      /\ hotTaint' = hotTaint \cup {call[c].ns} /\ cacheTaint' = cacheTaint \cup {call[c].ns}
  BY DEF WriteFault, hotVars
<1>1. ReadTypeOK /\ Shaped(c) /\ call[c].ns \in Namespaces
  BY <1>0 DEF ReadInv, Settled, CallsTyped
<1>2. PICK ns \in Namespaces : ns = call[c].ns
  BY <1>1
<1>3. PICK E \in SUBSET call[c].docs :
        late' = late \cup {[ns |-> ns, doc |-> d, content |-> call[c].content] : d \in E}
  BY <1>2 DEF WriteFault
<1>4. /\ Own(c) /\ call'[c].pc = "idle" /\ call'[c].pc \notin Writing /\ CallsTyped'
      /\ Shaped(c)' /\ ReaderAlone(c)' /\ ReaderExact(c)'
  BY <1>0, <1>1, LeaveFields, OwnTyped
<1>5. \A b \in Clients : \A n, e : Writes(b, n, e)' <=> b # c /\ Writes(b, n, e)
  BY <1>4 DEF Own, Writes
<1>6. \A n, e : Abandoned(n, e)' <=> Abandoned(n, e) \/ (n = ns /\ e \in E)
  <2> DEFINE kept(d) == [ns |-> ns, doc |-> d, content |-> call[c].content]
  <2>1. late' = late \cup {kept(d) : d \in E}
    BY <1>3
  <2>2. \A d : kept(d).ns = ns /\ kept(d).doc = d
    OBVIOUS
  <2> HIDE DEF kept
  <2> QED BY <2>1, <2>2 DEF Abandoned
<1>7. \A e \in E : Writes(c, ns, e)
  BY <1>0, <1>1, <1>2 DEF Writes, Writing, Shaped
<1>8. E \subseteq Docs
  BY <1>1, CallFacts
<1>9. \A n : Untouched(n) => Untouched(n)'
  BY <1>5, <1>6, <1>7, <1>8 DEF Untouched
<1>10. \A n : n # ns /\ Untouched(n)' => Untouched(n)
  <2>1. \A n, e : n # ns => ~Writes(c, n, e)
    BY <1>2 DEF Writes
  <2> QED BY <1>5, <1>6, <2>1 DEF Untouched
<1>11. ASSUME NEW b \in Clients \ {c}
       PROVE  Shaped(b)' /\ WriterAlone(b)' /\ ReaderAlone(b)' /\ ReaderExact(b)'
  <2>0. /\ Shaped(b) /\ WriterAlone(b) /\ ReaderAlone(b) /\ ReaderExact(b) /\ call'[b] = call[b]
    BY <1>4 DEF ReadInv, Settled, Own
  <2>1. Shaped(b)'
    BY <2>0 DEF Shaped
  <2>2. WriterAlone(b)'
    BY <1>0, <1>5, <1>6, <1>7, <2>0 DEF WriterAlone
  <2>3. ReaderAlone(b)'
    BY <1>9, <2>0 DEF ReaderAlone
  <2>4. ReaderExact(b)'
    BY <1>0, <2>0 DEF ReaderExact, Held
  <2> QED BY <2>1, <2>2, <2>3, <2>4
<1>12. WriterAlone(c)'
  BY <1>4 DEF WriterAlone
<1>13. \A n, e : n # ns /\ Unsettled(n, e) => Unsettled(n, e)'
  BY <1>2, <1>4, <1>5, <1>6 DEF Unsettled, Own, Writes
<1>14. CopiesFollow'
  BY <1>0, <1>2, <1>13 DEF CopiesFollow, ReadInv, Settled
<1>15. CacheFollows'
  BY <1>0, <1>2, <1>10 DEF CacheFollows, ReadInv, Settled
<1> QED BY <1>4, <1>11, <1>12, <1>14, <1>15 DEF Settled

(* An abandoned write that arrives disturbs and taints.                    *)
LEMMA LateWriteKeeps ==
  ASSUME ReadInv, LateWrite
  PROVE  Settled'
<1>0. UNCHANGED <<copy, authoritative, cache>>
  BY DEF LateWrite, hotVars
<1>1. PICK w \in late :
        /\ store' = [store EXCEPT ![w.ns][w.doc] = w.content]
        /\ late' = late \ {w}
        /\ call' = Disturbed(w.ns, {w.doc})
        /\ hotTaint' = hotTaint \cup {w.ns}
        /\ cacheTaint' = cacheTaint \cup {w.ns}
  BY DEF LateWrite
<1>2. ReadTypeOK /\ w.ns \in Namespaces /\ w.doc \in Docs
  BY DEF ReadInv, ReadTypeOK
<1>3. ASSUME NEW b \in Clients
      PROVE  /\ call'[b] \in Call
             /\ call'[b].pc = call[b].pc /\ call'[b].ns = call[b].ns
             /\ call'[b].content = call[b].content /\ call'[b].batch = call[b].batch
             /\ call'[b].docs = call[b].docs /\ call'[b].hits = call[b].hits
             /\ call'[b].snap = call[b].snap /\ call'[b].held = call[b].held
             /\ call'[b].clean = call[b].clean
             /\ call'[b].solo => /\ call[b].solo
                                 /\ call[b].ns = w.ns =>
                                      call[b].pc \in Writing /\ call[b].batch \cap {w.doc} = {}
  BY <1>1, <1>2, DisturbedFields
<1>4. CallsTyped'
  <2>1. DOMAIN call' = Clients /\ call' = [b \in Clients |-> call'[b]]
    BY <1>1 DEF Disturbed
  <2> QED BY <1>2, <1>3, <2>1, CallFacts DEF CallsTyped
<1>5. \A b \in Clients : \A n, e : Writes(b, n, e)' <=> Writes(b, n, e)
  BY <1>3 DEF Writes
<1>6. \A n, e : /\ Abandoned(n, e)' => Abandoned(n, e)
                /\ n # w.ns /\ Abandoned(n, e) => Abandoned(n, e)'
  BY <1>1 DEF Abandoned
<1>7. \A n : /\ Untouched(n) => Untouched(n)'
             /\ n # w.ns /\ Untouched(n)' => Untouched(n)
  BY <1>5, <1>6 DEF Untouched
<1>8. /\ \A n \in Namespaces : n # w.ns => store'[n] = store[n]
      /\ \A n \in Namespaces, e \in Docs : n # w.ns \/ e # w.doc => store'[n][e] = store[n][e]
  BY <1>1, <1>2 DEF ReadTypeOK, Contents
<1>9. ASSUME NEW b \in Clients
      PROVE  Shaped(b)' /\ WriterAlone(b)' /\ ReaderAlone(b)' /\ ReaderExact(b)'
  <2>0. /\ Shaped(b) /\ WriterAlone(b) /\ ReaderAlone(b) /\ ReaderExact(b)
        /\ call[b].pc # "idle" => call[b].ns \in Namespaces
        /\ call[b].batch \subseteq Docs
    BY <1>2, CallFacts DEF ReadInv, Settled
  <2>1. Shaped(b)'
    BY <1>3, <2>0 DEF Shaped
  <2>2. WriterAlone(b)'
    <3>1. call'[b].pc \in Writing /\ call'[b].solo =>
            /\ call[b].pc \in Writing /\ call[b].solo /\ call[b].ns \in Namespaces
            /\ \A d \in call[b].batch :
                 /\ call[b].ns = w.ns => d # w.doc
                 /\ store'[call[b].ns][d] = store[call[b].ns][d]
      BY <1>3, <1>8, <2>0 DEF Writing
    <3>2. call[b].pc \in Writing /\ call[b].solo =>
            \A d \in call[b].batch :
              /\ ~Abandoned(call[b].ns, d)
              /\ \A x \in Clients \ {b} : ~Writes(x, call[b].ns, d)
              /\ d \notin call[b].docs => store[call[b].ns][d] = call[b].content
      BY <2>0 DEF WriterAlone
    <3> QED BY <1>3, <1>5, <1>6, <3>1, <3>2 DEF WriterAlone
  <2>3. ReaderAlone(b)'
    BY <1>3, <1>7, <2>0 DEF ReaderAlone
  <2>4. call'[b].pc \in Reading /\ call'[b].solo =>
          call[b].pc \in Reading /\ call[b].solo /\ store'[call[b].ns] = store[call[b].ns]
    BY <1>3, <1>8, <2>0 DEF Reading, Writing
  <2>5. ReaderExact(b)'
    BY <1>0, <1>3, <2>0, <2>4 DEF ReaderExact, Held
  <2> QED BY <2>1, <2>2, <2>3, <2>5
<1>10. \A n, e : n # w.ns /\ Unsettled(n, e) => Unsettled(n, e)'
  BY <1>3, <1>5, <1>6 DEF Unsettled
<1>11. CopiesFollow'
  <2>1. authoritative \subseteq Namespaces
    BY DEF ReadInv, HotInv, Indexed
  <2> QED BY <1>0, <1>1, <1>8, <1>10, <2>1 DEF CopiesFollow, ReadInv, Settled
<1>12. CacheFollows'
  BY <1>0, <1>1, <1>7, <1>8 DEF CacheFollows, ReadInv, Settled
<1> QED BY <1>4, <1>9, <1>11, <1>12 DEF Settled

(* The tier under a write-through: an index that is still authoritative    *)
(* has taken the write in, and what else changed was dropped.              *)
LEMMA WriteThroughEffect ==
  ASSUME HotInv, NEW ns \in Namespaces, NEW D \in SUBSET Docs, NEW content \in Values,
         IF content = None THEN HotDelete(ns, D) ELSE InsertMany(ns, D, content)
  PROVE  /\ authoritative' \subseteq authoritative
         /\ \A n \in authoritative' : \A d \in Docs :
              copy'[n][d] = IF n = ns /\ d \in D THEN content ELSE copy[n][d]
         /\ \A n \in Namespaces \ {ns} : copy'[n] = copy[n] \/ n \in indexed \ indexed'
<1>0. /\ authoritative = indexed /\ authoritative \subseteq Namespaces
      /\ copy \in [Namespaces -> Contents]
      /\ \A n \in Namespaces \ indexed : copy[n] = Nothing
  BY DEF HotInv, Indexed
<1>1. CASE content = None
  <2>1. HotDelete(ns, D)
    BY <1>1
  <2> QED BY <1>0, <1>1, <2>1 DEF HotDelete, Contents
<1>2. CASE content # None
  <2> DEFINE V == Evicted(Cardinality(D), ns, {})
  <2>0. InsertMany(ns, D, content)
    BY <1>2
  <2>1. CASE (D = {} \/ ns \notin indexed) /\ UNCHANGED hotVars
    BY <1>0, <2>1 DEF hotVars
  <2>2. CASE Demote(V \cup {ns})
    <3> HIDE DEF V
    <3> QED BY <1>0, <2>2 DEF Demote
  <2>3. CASE /\ indexed' = indexed \ V /\ authoritative' = authoritative \ V
             /\ copy' = [n \in Namespaces |->
                          IF n \in V THEN Nothing
                          ELSE IF n = ns
                          THEN [d \in Docs |-> IF d \in D THEN content ELSE copy[ns][d]]
                          ELSE copy[n]]
    <3> HIDE DEF V
    <3> QED BY <1>0, <2>3
  <2> QED BY <2>0, <2>1, <2>2, <2>3 DEF InsertMany
<1> QED BY <1>1, <1>2

(* The tier under a load.                                                  *)
LEMMA LoadEffect ==
  ASSUME HotInv, NEW ns \in Namespaces, NEW content \in Contents, Load(ns, content)
  PROVE  /\ \A n \in authoritative' : IF n = ns THEN copy'[n] = content
                                      ELSE n \in authoritative /\ copy'[n] = copy[n]
         /\ \A n \in Namespaces \ {ns} : copy'[n] = copy[n] \/ n \in indexed \ indexed'
<1>0. /\ authoritative = indexed /\ authoritative \subseteq Namespaces
      /\ \A n \in Namespaces \ indexed : copy[n] = Nothing
  BY DEF HotInv, Indexed
<1> DEFINE needed == Cardinality(Held(content))
           V == IF needed > MaxVectors THEN {} ELSE Evicted(needed, ns, {ns})
<1>1. CASE Demote(V \cup {ns})
  <2> HIDE DEF V
  <2> QED BY <1>0, <1>1 DEF Demote
<1>2. CASE /\ indexed' = (indexed \ V) \cup {ns} /\ authoritative' = (authoritative \ V) \cup {ns}
           /\ copy' = [n \in Namespaces |->
                        IF n = ns THEN content ELSE IF n \in V THEN Nothing ELSE copy[n]]
  <2> HIDE DEF V
  <2> QED BY <1>0, <1>2
<1> QED BY <1>1, <1>2 DEF Load

(* A search keeps the index it was given, whether the tier drops it or     *)
(* leaves it as it was.                                                    *)
LEMMA IndexKept ==
  ASSUME ReadInv, NEW E, NEW b \in Clients, call'[b] = Holding(E)[b], store' = store,
         call[b].pc = "scan" /\ call[b].solo =>
           call[b].ns \in E \/ copy'[call[b].ns] = copy[call[b].ns]
  PROVE  ReaderExact(b)'
<1>0. /\ ReadTypeOK /\ HotInv /\ ReaderExact(b)
      /\ call[b].pc # "idle" => call[b].ns \in Namespaces
  BY DEF ReadInv, Settled, CallsTyped
<1>1. /\ call'[b].pc = call[b].pc /\ call'[b].ns = call[b].ns /\ call'[b].docs = call[b].docs
      /\ call'[b].hits = call[b].hits /\ call'[b].snap = call[b].snap
      /\ call'[b].solo = call[b].solo /\ call'[b].clean = call[b].clean
      /\ IF call[b].pc = "scan" /\ call[b].held = None /\ call[b].ns \in E
         THEN call'[b].held = copy[call[b].ns] ELSE call'[b].held = call[b].held
  BY <1>0, HoldingFields
<1>2. call[b].pc = "scan" => copy[call[b].ns] # None
  BY <1>0, NoContentsAssumption DEF HotInv
<1> QED BY <1>0, <1>1, <1>2 DEF ReaderExact, Held

(* Write-through: the copy of the documents written is the last write of   *)
(* them, when the call was alone.                                          *)
LEMMA WriteHotKeeps ==
  ASSUME ReadInv, NEW c \in Clients, WriteHot(c)
  PROVE  Settled'
<1>0. UNCHANGED <<store, late, cache, cacheTaint>> /\ call[c].pc = "hot"
  BY DEF WriteHot
<1>1. /\ ReadTypeOK /\ HotInv /\ Shaped(c) /\ WriterAlone(c) /\ call[c].ns \in Namespaces
  BY <1>0 DEF ReadInv, Settled, CallsTyped
<1>2. PICK ns \in Namespaces : ns = call[c].ns
  BY <1>1
<1>3. PICK D \in SUBSET Docs : D = call[c].batch
  BY <1>1, CallFacts
<1>4. PICK E : E = indexed \ indexed'
  OBVIOUS
<1>5. D # {} /\ call[c].docs = {}
  BY <1>0, <1>1, <1>3 DEF Shaped, Writing
<1>6. PICK content \in Values : content = call[c].content
  BY <1>1, CallFacts
<1>7. /\ IF content = None THEN HotDelete(ns, D) ELSE InsertMany(ns, D, content)
      /\ call' = [Holding(E) EXCEPT ![c].pc = "evict"]
      /\ hotTaint' = IF call[c].solo THEN hotTaint ELSE hotTaint \cup {ns}
  BY <1>2, <1>3, <1>4, <1>6 DEF WriteHot
<1>8. /\ authoritative' \subseteq authoritative
      /\ \A n \in authoritative' : \A d \in Docs :
           copy'[n][d] = IF n = ns /\ d \in D THEN content ELSE copy[n][d]
      /\ \A n \in Namespaces \ {ns} : copy'[n] = copy[n] \/ n \in E
  BY <1>1, <1>4, <1>7, WriteThroughEffect
<1>9. \A b \in Clients \ {c} : call'[b] = Holding(E)[b]
  BY <1>7 DEF Holding
<1>10. ASSUME NEW b \in Clients
       PROVE  /\ call'[b] \in Call
              /\ call'[b].pc = IF b = c THEN "evict" ELSE call[b].pc
              /\ call'[b].ns = call[b].ns /\ call'[b].content = call[b].content
              /\ call'[b].batch = call[b].batch /\ call'[b].docs = call[b].docs
              /\ call'[b].solo = call[b].solo
              /\ call[b].pc # "scan" => call'[b].held = call[b].held
  <2> DEFINE i == Holding(E)[b]
  <2>1. /\ i \in Call /\ i.pc = call[b].pc
        /\ i.ns = call[b].ns /\ i.content = call[b].content
        /\ i.batch = call[b].batch /\ i.docs = call[b].docs /\ i.solo = call[b].solo
        /\ call[b].pc # "scan" => i.held = call[b].held
    BY <1>1, HoldingFields
  <2>2. b \in DOMAIN Holding(E)
    BY DEF Holding
  <2>3. call'[b] = IF b = c THEN [i EXCEPT !.pc = "evict"] ELSE i
    BY <1>7, <2>2
  <2> HIDE DEF i
  <2> QED BY <2>1, <2>3 DEF Call
<1>11. CallsTyped'
  <2>1. DOMAIN call' = Clients /\ call' = [b \in Clients |-> call'[b]]
    BY <1>7 DEF Holding
  <2>2. \A b \in Clients : call'[b].pc # "idle" => call'[b].ns \in Namespaces
    BY <1>1, <1>10, CallFacts
  <2> QED BY <1>10, <2>1, <2>2 DEF CallsTyped
<1>12. \A b \in Clients : \A n, d : Writes(b, n, d)' <=> Writes(b, n, d)
  BY <1>0, <1>10 DEF Writes, Writing
<1>13. \A n, d : Abandoned(n, d)' <=> Abandoned(n, d)
  BY <1>0 DEF Abandoned
<1>14. \A n : Untouched(n)' <=> Untouched(n)
  BY <1>12, <1>13 DEF Untouched
<1>15. ~Untouched(ns)
  BY <1>0, <1>2, <1>3, <1>5 DEF Untouched, Writes, Writing
<1>16. ASSUME NEW b \in Clients
       PROVE  Shaped(b)' /\ WriterAlone(b)' /\ ReaderAlone(b)' /\ ReaderExact(b)'
  <2>0. /\ Shaped(b) /\ WriterAlone(b) /\ ReaderAlone(b)
        /\ call[b].pc # "idle" => call[b].ns \in Namespaces
    BY DEF ReadInv, Settled, CallsTyped
  <2>1. Shaped(b)'
    BY <1>0, <1>5, <1>10, <2>0 DEF Shaped, Writing
  <2>2. WriterAlone(b)'
    BY <1>0, <1>10, <1>12, <1>13, <2>0 DEF WriterAlone, Writing
  <2>3. ReaderAlone(b)'
    BY <1>0, <1>10, <1>14, <2>0 DEF ReaderAlone, Reading
  <2>4. ReaderExact(b)'
    <3>1. CASE b = c
      BY <1>10, <3>1 DEF ReaderExact, Reading
    <3>2. CASE b # c
      <4>1. call[b].pc = "scan" /\ call[b].solo => call[b].ns \in Namespaces \ {ns}
        BY <1>15, <2>0 DEF ReaderAlone, Reading
      <4> QED BY <1>0, <1>8, <1>9, <3>2, <4>1, IndexKept
    <3> QED BY <3>1, <3>2
  <2> QED BY <2>1, <2>2, <2>3, <2>4
<1>17. \A n, d : Unsettled(n, d) => Unsettled(n, d)' \/ (n = ns /\ d \in D)
  BY <1>2, <1>3, <1>10, <1>12, <1>13 DEF Unsettled, Writes
<1>18. call[c].solo => \A d \in D : store[ns][d] = content
  BY <1>0, <1>1, <1>2, <1>3, <1>5, <1>6 DEF WriterAlone, Writing
<1>19. CopiesFollow'
  BY <1>0, <1>7, <1>8, <1>17, <1>18 DEF CopiesFollow, ReadInv, Settled
<1>20. CacheFollows'
  BY <1>0, <1>14 DEF CacheFollows, ReadInv, Settled
<1> QED BY <1>11, <1>16, <1>19, <1>20 DEF Settled

(* A load: the copy is what the stores hold, when no write overlapped the  *)
(* scan.                                                                   *)
LEMMA WarmLoadKeeps ==
  ASSUME ReadInv, NEW c \in Clients, WarmLoad(c)
  PROVE  Settled'
<1>0. UNCHANGED <<store, late, cache, cacheTaint>> /\ call[c].pc = "load"
  BY DEF WarmLoad
<1>1. ReadTypeOK /\ HotInv /\ Shaped(c) /\ ReaderExact(c) /\ call[c].ns \in Namespaces
  BY <1>0 DEF ReadInv, Settled, CallsTyped
<1>2. PICK ns \in Namespaces : ns = call[c].ns
  BY <1>1
<1>3. PICK snap \in Contents : snap = call[c].snap
  BY <1>1, CallFacts
<1>4. PICK E : E = {ns} \cup (indexed \ indexed')
  OBVIOUS
<1>5. /\ Load(ns, snap)
      /\ call' = [Holding(E) EXCEPT ![c] = Idle]
      /\ hotTaint' = IF call[c].solo THEN hotTaint \ {ns} ELSE hotTaint \cup {ns}
  BY <1>2, <1>3, <1>4 DEF WarmLoad
<1>6. /\ \A n \in authoritative' : IF n = ns THEN copy'[n] = snap
                                    ELSE n \in authoritative /\ copy'[n] = copy[n]
      /\ \A n \in Namespaces : copy'[n] = copy[n] \/ n \in E
  BY <1>1, <1>4, <1>5, LoadEffect
<1>7. call'[c] = Idle /\ \A b \in Clients \ {c} : call'[b] = Holding(E)[b]
  BY <1>5 DEF Holding
<1>8. ASSUME NEW b \in Clients \ {c}
      PROVE  /\ call'[b] \in Call
             /\ call'[b].pc = call[b].pc
             /\ call'[b].ns = call[b].ns /\ call'[b].content = call[b].content
             /\ call'[b].batch = call[b].batch /\ call'[b].docs = call[b].docs
             /\ call'[b].solo = call[b].solo
             /\ call[b].pc # "scan" => call'[b].held = call[b].held
  BY <1>1, <1>7, HoldingFields
<1>9. CallsTyped'
  <2>1. DOMAIN call' = Clients /\ call' = [b \in Clients |-> call'[b]]
    BY <1>5 DEF Holding
  <2>2. \A b \in Clients : call'[b].pc # "idle" => call'[b].ns \in Namespaces
    BY <1>1, <1>7, <1>8, CallFacts, IdleFacts
  <2> QED BY <1>7, <1>8, <2>1, <2>2, IdleFacts DEF CallsTyped
<1>10. \A b \in Clients : \A n, d : Writes(b, n, d)' <=> Writes(b, n, d)
  BY <1>0, <1>7, <1>8, IdleFacts DEF Writes, Writing
<1>11. \A n, d : Abandoned(n, d)' <=> Abandoned(n, d)
  BY <1>0 DEF Abandoned
<1>12. \A n : Untouched(n)' <=> Untouched(n)
  BY <1>10, <1>11 DEF Untouched
<1>13. ASSUME NEW b \in Clients
       PROVE  Shaped(b)' /\ WriterAlone(b)' /\ ReaderAlone(b)' /\ ReaderExact(b)'
  <2>1. CASE b = c
    BY <1>7, <2>1, IdleFacts DEF Shaped, WriterAlone, ReaderAlone, ReaderExact, Reading, Writing
  <2>2. CASE b # c
    <3>0. /\ Shaped(b) /\ WriterAlone(b) /\ ReaderAlone(b)
          /\ call[b].pc # "idle" => call[b].ns \in Namespaces
      BY DEF ReadInv, Settled, CallsTyped
    <3>1. Shaped(b)'
      BY <1>8, <2>2, <3>0 DEF Shaped
    <3>2. WriterAlone(b)'
      BY <1>0, <1>8, <1>10, <1>11, <2>2, <3>0 DEF WriterAlone
    <3>3. ReaderAlone(b)'
      BY <1>8, <1>12, <2>2, <3>0 DEF ReaderAlone
    <3>4. ReaderExact(b)'
      BY <1>0, <1>6, <1>7, <2>2, <3>0, IndexKept
    <3> QED BY <3>1, <3>2, <3>3, <3>4
  <2> QED BY <2>1, <2>2
<1>14. \A n, d : Unsettled(n, d) => Unsettled(n, d)'
  BY <1>0, <1>8, <1>10, <1>11 DEF Unsettled, Writes, Writing
<1>15. call[c].solo => \A d \in Docs : snap[d] = store[ns][d]
  BY <1>0, <1>1, <1>2, <1>3 DEF ReaderExact, Reading, Shaped
<1>16. CopiesFollow'
  BY <1>0, <1>5, <1>6, <1>14, <1>15 DEF CopiesFollow, ReadInv, Settled
<1>17. CacheFollows'
  BY <1>0, <1>12 DEF CacheFollows, ReadInv, Settled
<1> QED BY <1>9, <1>13, <1>16, <1>17 DEF Settled

(* Whatever step is taken, what is settled stays so. *)
LEMMA SettledNext ==
  ASSUME ReadInv, Next
  PROVE  Settled'
<1>1. ASSUME NEW c \in Clients,
             \/ Write(c) \/ WriteStore(c) \/ WriteFault(c) \/ WriteHot(c) \/ WriteEvict(c)
      PROVE  Settled'
  BY <1>1, WriteKeeps, WriteStoreKeeps, WriteFaultKeeps, WriteHotKeeps, WriteEvictKeeps
<1>2. ASSUME NEW c \in Clients,
             \/ Search(c) \/ SearchPin(c) \/ SearchScan(c) \/ SearchQuery(c)
             \/ SearchHydrate(c) \/ SearchAnswer(c)
      PROVE  Settled'
  BY <1>2, SearchKeeps, SearchPinKeeps, SearchScanKeeps, SearchQueryKeeps,
     SearchHydrateKeeps, SearchAnswerKeeps
<1>3. ASSUME NEW c \in Clients, Warm(c) \/ WarmList(c) \/ WarmLoad(c) \/ ReadFault(c)
      PROVE  Settled'
  BY <1>3, WarmKeeps, WarmListKeeps, WarmLoadKeeps, ReadFaultKeeps
<1> QED BY <1>1, <1>2, <1>3, CacheDropKeeps, LateWriteKeeps DEF Next

(* The threads use the hot tier as HotTier says it is used: every step is  *)
(* one of its operations, on contents it can be given, or leaves it alone. *)
LEMMA HotStep ==
  ASSUME ReadInv, Next
  PROVE  [HotNext]_hotVars
<1>1. ASSUME NEW c \in Clients, WriteHot(c)
      PROVE  HotNext
  <2>1. call[c].ns \in Namespaces /\ call[c].batch \in SUBSET Docs /\ call[c].content \in Values
    BY <1>1, CallFacts DEF ReadInv, WriteHot
  <2>2. call[c].content # None => call[c].content \in Copies
    BY <2>1 DEF Values
  <2>3. \/ HotDelete(call[c].ns, call[c].batch)
        \/ call[c].content # None /\ InsertMany(call[c].ns, call[c].batch, call[c].content)
    BY <1>1 DEF WriteHot
  <2> QED BY <2>1, <2>2, <2>3 DEF HotNext
<1>2. ASSUME NEW c \in Clients, WarmLoad(c)
      PROVE  HotNext
  <2>1. call[c].ns \in Namespaces /\ call[c].snap \in Contents
    BY <1>2, CallFacts DEF ReadInv, WarmLoad
  <2> QED BY <1>2, <2>1 DEF HotNext, WarmLoad
<1>3. ASSUME NEW c \in Clients, SearchPin(c)
      PROVE  HotNext \/ UNCHANGED hotVars
  <2>1. call[c].ns \in Namespaces
    BY <1>3, CallFacts DEF ReadInv, SearchPin
  <2> QED BY <1>3, <2>1 DEF HotNext, SearchPin
<1>4. ASSUME NEW c \in Clients,
             \/ Write(c) \/ WriteStore(c) \/ WriteFault(c) \/ WriteEvict(c)
             \/ Search(c) \/ SearchScan(c) \/ SearchQuery(c) \/ SearchHydrate(c)
             \/ SearchAnswer(c) \/ Warm(c) \/ WarmList(c) \/ ReadFault(c)
      PROVE  UNCHANGED hotVars
  BY <1>4 DEF Write, WriteStore, WriteFault, WriteEvict, Search, SearchScan, SearchQuery,
              SearchHydrate, SearchAnswer, Warm, WarmList, ReadFault
<1> QED BY <1>1, <1>2, <1>3, <1>4 DEF Next, CacheDrop, LateWrite

(* The calls started and the calls that failed are counted within bounds.  *)
LEMMA Counting ==
  ASSUME NEW n \in 0 .. MaxCalls, NEW f \in 0 .. MaxFaults
  PROVE  /\ n < MaxCalls => n + 1 \in 0 .. MaxCalls
         /\ f < MaxFaults => f + 1 \in 0 .. MaxFaults
BY ReadBoundsAssumption

(* The state stays typed; the calls are, by what was shown above.          *)
LEMMA TypeNext ==
  ASSUME ReadInv, Next, CallsTyped'
  PROVE  ReadTypeOK'
<1>0. /\ ReadTypeOK
      /\ call' \in [Clients -> Call]
      /\ \A b \in Clients : call'[b].pc # "idle" => call'[b].ns \in Namespaces
  BY DEF ReadInv, CallsTyped
<1>1. ASSUME NEW c \in Clients, Write(c) \/ Search(c) \/ Warm(c)
      PROVE  ReadTypeOK'
  <2>1. started' \in 0 .. MaxCalls
    BY <1>0, <1>1, Counting DEF ReadTypeOK, Write, Search, Warm, Start
  <2> QED BY <1>0, <1>1, <2>1 DEF ReadTypeOK, Write, Search, Warm
<1>2. ASSUME NEW c \in Clients, WriteStore(c)
      PROVE  ReadTypeOK'
  <2>1. call[c].ns \in Namespaces /\ call[c].content \in Values /\ call[c].docs \subseteq Docs
    BY <1>0, <1>2, CallFacts DEF WriteStore
  <2>2. PICK d \in Docs : store' = [store EXCEPT ![call[c].ns][d] = call[c].content]
    BY <1>2, <2>1 DEF WriteStore
  <2>3. store' \in [Namespaces -> Contents]
    BY <1>0, <2>1, <2>2, ContentsFacts DEF ReadTypeOK
  <2> QED BY <1>0, <1>2, <2>3 DEF ReadTypeOK, WriteStore
<1>3. ASSUME NEW c \in Clients, WriteFault(c)
      PROVE  ReadTypeOK'
  <2>1. call[c].ns \in Namespaces /\ call[c].content \in Values /\ call[c].docs \subseteq Docs
    BY <1>0, <1>3, CallFacts DEF WriteFault
  <2>2. late' \subseteq [ns : Namespaces, doc : Docs, content : Values]
    BY <1>0, <1>3, <2>1 DEF ReadTypeOK, WriteFault
  <2>3. faults' \in 0 .. MaxFaults
    BY <1>0, <1>3, Counting DEF ReadTypeOK, WriteFault
  <2> QED BY <1>0, <1>3, <2>1, <2>2, <2>3 DEF ReadTypeOK, WriteFault
<1>4. ASSUME NEW c \in Clients, WriteHot(c) \/ WarmLoad(c)
      PROVE  ReadTypeOK'
  <2>1. call[c].ns \in Namespaces
    BY <1>0, <1>4, CallFacts DEF WriteHot, WarmLoad
  <2>2. hotTaint' \subseteq Namespaces
    BY <1>0, <1>4, <2>1 DEF ReadTypeOK, WriteHot, WarmLoad
  <2> QED BY <1>0, <1>4, <2>2 DEF ReadTypeOK, WriteHot, WarmLoad
<1>5. ASSUME NEW c \in Clients, WriteEvict(c)
      PROVE  ReadTypeOK'
  BY <1>0, <1>5 DEF ReadTypeOK, WriteEvict
<1>6. ASSUME NEW c \in Clients,
             \/ SearchPin(c) \/ SearchScan(c) \/ SearchQuery(c) \/ SearchHydrate(c) \/ WarmList(c)
      PROVE  ReadTypeOK'
  BY <1>0, <1>6 DEF ReadTypeOK, SearchPin, SearchScan, SearchQuery, SearchHydrate, WarmList
<1>7. ASSUME NEW c \in Clients, SearchAnswer(c)
      PROVE  ReadTypeOK'
  <2>1. call[c].ns \in Namespaces /\ call[c].snap \in Contents
    BY <1>0, <1>7, CallFacts DEF SearchAnswer
  <2>2. cache' \in [Namespaces -> Contents \cup {None}] /\ cacheTaint' \subseteq Namespaces
    BY <1>0, <1>7, <2>1 DEF ReadTypeOK, SearchAnswer
  <2> QED BY <1>0, <1>7, <2>2 DEF ReadTypeOK, SearchAnswer
<1>8. ASSUME NEW c \in Clients, ReadFault(c)
      PROVE  ReadTypeOK'
  <2>1. faults' \in 0 .. MaxFaults
    BY <1>0, <1>8, Counting DEF ReadTypeOK, ReadFault
  <2> QED BY <1>0, <1>8, <2>1 DEF ReadTypeOK, ReadFault
<1>9. ASSUME NEW ns \in Namespaces, CacheDrop(ns)
      PROVE  ReadTypeOK'
  BY <1>0, <1>9 DEF ReadTypeOK, CacheDrop
<1>10. CASE LateWrite
  <2>1. PICK w \in late : /\ store' = [store EXCEPT ![w.ns][w.doc] = w.content]
                          /\ late' = late \ {w}
                          /\ hotTaint' = hotTaint \cup {w.ns}
                          /\ cacheTaint' = cacheTaint \cup {w.ns}
    BY <1>10 DEF LateWrite
  <2>2. w.ns \in Namespaces /\ w.doc \in Docs /\ w.content \in Values
    BY <1>0 DEF ReadTypeOK
  <2>3. store' \in [Namespaces -> Contents]
    BY <1>0, <2>1, <2>2, ContentsFacts DEF ReadTypeOK
  <2> QED BY <1>0, <1>10, <2>1, <2>2, <2>3 DEF ReadTypeOK, LateWrite
<1> QED BY <1>1, <1>2, <1>3, <1>4, <1>5, <1>6, <1>7, <1>8, <1>9, <1>10 DEF Next

(* Nothing is stored, copied, cached or under way at first. *)
LEMMA ReadInvInit == Init => ReadInv
<1> SUFFICES ASSUME Init PROVE ReadInv
  OBVIOUS
<1>1. HotInv
  BY HotInvInit DEF Init
<1>2. ReadTypeOK
  BY ContentsFacts, IdleFacts, ReadBoundsAssumption DEF Init, ReadTypeOK
<1>3. Settled
  <2>1. CallsTyped
    BY <1>2 DEF ReadTypeOK, CallsTyped
  <2>2. \A b \in Clients : Shaped(b) /\ WriterAlone(b) /\ ReaderAlone(b) /\ ReaderExact(b)
    BY IdleFacts DEF Init, Shaped, WriterAlone, ReaderAlone, ReaderExact, Reading, Writing
  <2>3. CopiesFollow
    BY DEF Init, HotInit, CopiesFollow
  <2>4. CacheFollows
    BY DEF Init, CacheFollows
  <2> QED BY <2>1, <2>2, <2>3, <2>4 DEF Settled
<1> QED BY <1>1, <1>2, <1>3 DEF ReadInv

(* Every step keeps the invariant. *)
LEMMA ReadInvNext == ReadInv /\ [Next]_vars => ReadInv'
<1> SUFFICES ASSUME ReadInv, [Next]_vars PROVE ReadInv'
  OBVIOUS
<1>1. CASE Next
  <2>1. Settled'
    BY <1>1, SettledNext
  <2>2. ReadTypeOK'
    BY <1>1, <2>1, TypeNext DEF Settled
  <2>3. HotInv'
    BY <1>1, HotStep, HotInvNext DEF ReadInv
  <2> QED BY <2>1, <2>2, <2>3 DEF ReadInv
<1>2. CASE UNCHANGED vars
  <2>0. UNCHANGED <<store, cache, call, late, started, faults, hotTaint, cacheTaint>>
        /\ UNCHANGED <<indexed, copy, authoritative, order>>
    BY <1>2 DEF vars, callVars, hotVars
  <2>1. ReadTypeOK'
    BY <2>0 DEF ReadInv, ReadTypeOK
  <2>2. HotInv'
    BY <2>0 DEF ReadInv, HotInv, Indexed, WithinBudget, Resident
  <2>3. \A n, d : Abandoned(n, d)' <=> Abandoned(n, d)
    BY <2>0 DEF Abandoned
  <2>4. \A b \in Clients : \A n, d : Writes(b, n, d)' <=> Writes(b, n, d)
    BY <2>0 DEF Writes
  <2>5. \A n : Untouched(n)' <=> Untouched(n)
    BY <2>3, <2>4 DEF Untouched
  <2>6. \A n, d : Unsettled(n, d)' <=> Unsettled(n, d)
    BY <2>0, <2>3, <2>4 DEF Unsettled
  <2>7. \A b \in Clients : Shaped(b)' /\ WriterAlone(b)' /\ ReaderAlone(b)' /\ ReaderExact(b)'
    <3> TAKE b \in Clients
    <3>0. Shaped(b) /\ WriterAlone(b) /\ ReaderAlone(b) /\ ReaderExact(b)
      BY DEF ReadInv, Settled
    <3>1. Shaped(b)' /\ ReaderExact(b)'
      BY <2>0, <3>0 DEF Shaped, ReaderExact, Held
    <3>2. WriterAlone(b)' /\ ReaderAlone(b)'
      BY <2>0, <2>3, <2>4, <2>5, <3>0 DEF WriterAlone, ReaderAlone
    <3> QED BY <3>1, <3>2
  <2>8. CallsTyped' /\ CopiesFollow' /\ CacheFollows'
    BY <2>0, <2>5, <2>6 DEF CallsTyped, CopiesFollow, CacheFollows, ReadInv, Settled
  <2> QED BY <2>1, <2>2, <2>7, <2>8 DEF ReadInv, Settled
<1> QED BY <1>1, <1>2

(* Whatever the threads do, they drive the hot tier only through behaviours*)
(* its own specification allows; what HotTier promises therefore holds of  *)
(* the tier inside the client, its RAM budget first.                       *)
THEOREM ReadPathDrivesHotTier == Spec => HotSpec
<1>1. Init => HotInit
  BY DEF Init
<1>2. ReadInv /\ [Next]_vars => [HotNext]_hotVars
  BY HotStep DEF vars
<1> QED BY <1>1, <1>2, ReadInvInit, ReadInvNext, PTL DEF Spec, HotSpec

(* The tier inside the client keeps its RAM budget: no use that upsert,    *)
(* delete, search and warm make of it exceeds hot_tier_max_vectors.        *)
THEOREM BudgetKeptByClients == Spec => []WithinBudget
BY ReadPathDrivesHotTier, BudgetKept, PTL

(* Authority can be trusted, for any number of threads, calls, failures,   *)
(* namespaces and documents.                                               *)
THEOREM HotTierTrusted == Spec => []HotFresh
<1>1. ReadInv => HotFresh
  <2> SUFFICES ASSUME ReadInv, NEW ns \in authoritative \ hotTaint
               PROVE  Written(ns, Docs) \/ copy[ns] = store[ns]
    BY DEF HotFresh, ReadInv
  <2> QED BY UntouchedNow, CopyExact DEF ReadInv
<1> QED BY <1>1, ReadInvInit, ReadInvNext, PTL DEF Spec

(* No write is hidden behind an entry of the query cache that a search     *)
(* put undisturbed.                                                        *)
THEOREM CacheTrusted == Spec => []CacheFresh
<1>1. ReadInv => CacheFresh
  BY UntouchedNow DEF CacheFresh, CacheFollows, ReadInv, Settled
<1> QED BY <1>1, ReadInvInit, ReadInvNext, PTL DEF Spec

(* An undisturbed search answers with what the stores hold, also when the  *)
(* index it was given is evicted or rebuilt while it scans.                *)
THEOREM UndisturbedSearchExact == Spec => []QuietAnswersExact
<1>1. ReadInv => QuietAnswersExact
  BY DEF QuietAnswersExact, ReadInv, Settled, ReaderExact, Reading
<1> QED BY <1>1, ReadInvInit, ReadInvNext, PTL DEF Spec
=============================================================================
