--------------------------- MODULE Sublists_proofs ---------------------------
(***************************************************************************)
(* What the operators of Sublists compute.                                 *)
(***************************************************************************)
EXTENDS Sublists, FiniteSetTheorems, SequenceTheorems, WellFoundedInduction, TLAPS

(* R is a linear order of S. *)
Orders(R, S) ==
  /\ \A x \in S : <<x, x>> \in R
  /\ \A x, y \in S : <<x, y>> \in R \/ <<y, x>> \in R
  /\ \A x, y \in S : <<x, y>> \in R /\ <<y, x>> \in R => x = y
  /\ \A x, y, z \in S : <<x, y>> \in R /\ <<y, z>> \in R => <<x, z>> \in R

(* at numbers the elements of S from 1 to n. *)
Numbers(at, n, S) ==
  /\ n \in Nat
  /\ at \in [1 .. n -> S]
  /\ \A j, k \in 1 .. n : at[j] = at[k] => j = k
  /\ \A x \in S : \E k \in 1 .. n : at[k] = x

(* A set of numbers has a least one. *)
LEMMA MinimalInSet ==
  ASSUME NEW R, IsWellFoundedOn(R, Nat), NEW T, T \subseteq Nat, T # {}
  PROVE  \E n \in T : \A m \in T : ~(<<m, n>> \in R)
BY WFMin, Zenon

LEMMA LeastOfSet ==
  ASSUME NEW R, IsWellFoundedOn(R, Nat), \A m, n \in Nat : m < n => <<m, n>> \in R,
         NEW T \in SUBSET Nat, T # {}
  PROVE  \E n \in T : \A m \in T : n <= m
<1>1. PICK n \in T : \A m \in T : ~(<<m, n>> \in R)
  BY MinimalInSet
<1>2. \A m \in T : ~(m < n)
  BY <1>1
<1>3. \A m \in T : n <= m
  BY <1>2
<1> QED  BY <1>3

LEMMA LeastNumber ==
  ASSUME NEW T \in SUBSET Nat, T # {}
  PROVE  \E n \in T : \A m \in T : n <= m
<1> DEFINE R == OpToRel(<, Nat)
<1>1. IsWellFoundedOn(R, Nat)
  BY NatLessThanWellFounded
<1>2. \A m, n \in Nat : m < n => <<m, n>> \in R
  BY DEF OpToRel
<1> HIDE DEF R
<1> QED  BY <1>1, <1>2, LeastOfSet

(* Sets that a function puts in correspondence are of one size.            *)
LEMMA SameSize ==
  ASSUME NEW S, NEW T, IsFiniteSet(S), NEW f \in [S -> T],
         \A x, y \in S : f[x] = f[y] => x = y,
         \A z \in T : \E x \in S : f[x] = z
  PROVE  IsFiniteSet(T) /\ Cardinality(T) = Cardinality(S)
<1>1. f \in Bijection(S, T)
  BY DEF Bijection, Injection, IsInjective, Surjection
<1>2. ExistsBijection(S, T)
  BY <1>1 DEF ExistsBijection
<1> QED  BY <1>2, FS_Bijection

(* A set that a function maps into another one, no two elements to one, is *)
(* not larger.                                                             *)
LEMMA NoLarger ==
  ASSUME NEW S, NEW T, IsFiniteSet(T), NEW f \in [S -> T],
         \A x, y \in S : f[x] = f[y] => x = y
  PROVE  IsFiniteSet(S) /\ Cardinality(S) <= Cardinality(T)
<1>1. f \in Injection(S, T)
  BY DEF Injection, IsInjective
<1> QED  BY <1>1, FS_Injection

(* The values of a function on a finite set.                               *)
LEMMA ImageFinite ==
  ASSUME NEW S, IsFiniteSet(S), NEW f, f = [x \in S |-> f[x]]
  PROVE  IsFiniteSet({f[x] : x \in S})
<1> DEFINE T == {f[x] : x \in S}
<1>1. f \in [S -> T] /\ \A y \in T : \E x \in S : f[x] = y
  OBVIOUS
<1> HIDE DEF T
<1>2. f \in Surjection(S, T)
  BY <1>1 DEF Surjection
<1>3. IsFiniteSet(T)
  BY <1>2, FS_Surjection
<1> QED  BY <1>3 DEF T

(* Every number up to the size of a set is the place of one element.       *)
LEMMA EveryPlaceTaken ==
  ASSUME NEW S, NEW R, IsFiniteSet(S), Orders(R, S),
         NEW k \in 1 .. Cardinality(S)
  PROVE  \E x \in S : Cardinality({y \in S : <<y, x>> \in R}) = k
<1> DEFINE Upto(x) == {y \in S : <<y, x>> \in R}
           n == Cardinality(S)
           place == [x \in S |-> Cardinality(Upto(x))]
<1>1. n \in Nat
  BY FS_CardinalityType
<1>2. \A x \in S : IsFiniteSet(Upto(x)) /\ place[x] \in 1 .. n
  <2> SUFFICES ASSUME NEW x \in S  PROVE IsFiniteSet(Upto(x)) /\ place[x] \in 1 .. n
    OBVIOUS
  <2>1. Upto(x) \in SUBSET S /\ x \in Upto(x)
    BY DEF Orders
  <2>2. IsFiniteSet(Upto(x)) /\ Cardinality(Upto(x)) <= n
    BY <2>1, FS_Subset
  <2>3. Cardinality(Upto(x)) \in Nat /\ Cardinality(Upto(x)) # 0
    BY <2>1, <2>2, FS_CardinalityType, FS_EmptySet
  <2> HIDE DEF Upto
  <2> QED  BY <2>2, <2>3, <1>1
<1>3. \A x, y \in S : place[x] = place[y] => x = y
  <2> SUFFICES ASSUME NEW x \in S, NEW y \in S, <<x, y>> \in R, place[x] = place[y]
               PROVE  x = y
    BY DEF Orders
  <2>1. Upto(x) \in SUBSET Upto(y) /\ y \in Upto(y)
    BY DEF Orders
  <2>2. Cardinality(Upto(y)) = Cardinality(Upto(x))
    OBVIOUS
  <2>3. Upto(y) = Upto(x)
    BY <2>1, <2>2, <1>2, FS_Subset
  <2> QED  BY <2>1, <2>3 DEF Orders
<1>4. SUFFICES ASSUME \A x \in S : place[x] # k  PROVE FALSE
  OBVIOUS
<1> HIDE DEF Upto
<1>5. place \in [S -> (1 .. n) \ {k}]
  BY <1>2, <1>4
<1>6. IsFiniteSet(1 .. n) /\ Cardinality(1 .. n) = n
  BY <1>1, FS_Interval
<1>7. IsFiniteSet((1 .. n) \ {k}) /\ Cardinality((1 .. n) \ {k}) = n - 1
  BY <1>6, FS_RemoveElement
<1> HIDE DEF place
<1>8. Cardinality((1 .. n) \ {k}) < Cardinality(S)
  BY <1>1, <1>7
<1> QED  BY <1>3, <1>5, <1>7, <1>8, FS_PigeonHole

(* InOrder lists each element of the set once.                             *)
LEMMA InOrderNumbers ==
  ASSUME NEW S, NEW R, IsFiniteSet(S), Orders(R, S)
  PROVE  Numbers(InOrder(S, R), Cardinality(S), S) /\ DOMAIN InOrder(S, R) = 1 .. Cardinality(S)
<1> DEFINE Place(x) == Cardinality({y \in S : <<y, x>> \in R})
           n == Cardinality(S)
           at == InOrder(S, R)
<1>1. n \in Nat /\ ExistsBijection(1 .. n, S)
  BY FS_CardinalityType
<1>2. \A k \in 1 .. n : \E x \in S : Place(x) = k
  BY EveryPlaceTaken
<1>3. at = [k \in 1 .. n |-> CHOOSE x \in S : Place(x) = k]
  BY DEF InOrder
<1> HIDE DEF Place, at, n
<1>4. \A k \in 1 .. n : at[k] \in S /\ Place(at[k]) = k
  BY <1>2, <1>3
<1>5. at \in [1 .. n -> S] /\ \A j, k \in 1 .. n : at[j] = at[k] => j = k
  BY <1>3, <1>4
<1>6. IsFiniteSet(1 .. n) /\ Cardinality(1 .. n) = n
  BY <1>1, FS_Interval
<1>7. at \in Injection(1 .. n, S)
  BY <1>5 DEF Injection, IsInjective
<1>8. at \in Surjection(1 .. n, S)
  BY <1>6, <1>7, FS_Injection DEF n
<1>9. \A x \in S : \E k \in 1 .. n : at[k] = x
  BY <1>8 DEF Surjection
<1>10. Numbers(at, n, S)
  BY <1>1, <1>5, <1>9 DEF Numbers
<1> QED  BY <1>3, <1>10 DEF at, n

-----------------------------------------------------------------------------
(* What the positions of a list hold. *)
LEMMA Positions ==
  ASSUME NEW X, NEW seq \in Seq(X)
  PROVE  /\ Len(seq) \in Nat /\ DOMAIN seq = 1 .. Len(seq) /\ IsFiniteSet(DOMAIN seq)
         /\ seq \in [1 .. Len(seq) -> X]
         /\ \A i \in DOMAIN seq : seq[i] \in X
<1>1. Len(seq) \in Nat /\ DOMAIN seq = 1 .. Len(seq) /\ seq \in [1 .. Len(seq) -> X]
  OBVIOUS
<1> QED  BY <1>1, FS_Interval

LEMMA CountFinite ==
  ASSUME NEW X, NEW seq \in Seq(X), NEW x
  PROVE  IsFiniteSet({i \in DOMAIN seq : seq[i] = x}) /\ Count(seq, x) \in Nat
<1>1. {i \in DOMAIN seq : seq[i] = x} \in SUBSET DOMAIN seq
  OBVIOUS
<1> QED  BY <1>1, Positions, FS_Subset, FS_CardinalityType DEF Count

LEMMA CountEmpty ==
  ASSUME NEW x
  PROVE  Count(<< >>, x) = 0
<1>1. {i \in DOMAIN << >> : << >>[i] = x} = {}
  OBVIOUS
<1> QED  BY <1>1, FS_EmptySet DEF Count

(* Picked is the elements at the positions I, in some order of I.          *)
LEMMA PickedFrom ==
  ASSUME NEW X, NEW seq \in Seq(X), NEW I \in SUBSET DOMAIN seq
  PROVE  /\ Numbers(Increasing(I), Cardinality(I), I)
         /\ Picked(seq, I) \in Seq(X) /\ Len(Picked(seq, I)) = Cardinality(I)
         /\ \A k \in 1 .. Cardinality(I) : Picked(seq, I)[k] = seq[Increasing(I)[k]]
<1> DEFINE R == {p \in I \X I : p[1] <= p[2]}
           at == Increasing(I)
           n == Cardinality(I)
<1>1. IsFiniteSet(I) /\ I \subseteq Nat
  BY Positions, FS_Subset
<1>2. Orders(R, I)
  <2>1. \A x, y \in I : <<x, y>> \in R <=> x <= y
    OBVIOUS
  <2> HIDE DEF R
  <2> QED  BY <1>1, <2>1 DEF Orders
<1>3. Numbers(at, n, I) /\ DOMAIN at = 1 .. n
  BY <1>1, <1>2, InOrderNumbers DEF Increasing
<1>4. Picked(seq, I) = [k \in 1 .. n |-> seq[at[k]]]
  BY <1>3 DEF Picked
<1>5. n \in Nat /\ \A k \in 1 .. n : seq[at[k]] \in X
  BY <1>3, Positions DEF Numbers
<1> HIDE DEF at, n
<1>6. Picked(seq, I) \in Seq(X) /\ Len(Picked(seq, I)) = n
  BY <1>4, <1>5, IsASeq
<1> QED  BY <1>3, <1>4, <1>6 DEF at, n

LEMMA PickedElements ==
  ASSUME NEW X, NEW seq \in Seq(X), NEW I \in SUBSET DOMAIN seq
  PROVE  /\ \A k \in DOMAIN Picked(seq, I) : \E i \in I : Picked(seq, I)[k] = seq[i]
         /\ \A i \in I : \E k \in DOMAIN Picked(seq, I) : Picked(seq, I)[k] = seq[i]
<1> DEFINE out == Picked(seq, I)
           at == Increasing(I)
           n == Cardinality(I)
<1>1. /\ Numbers(at, n, I) /\ DOMAIN out = 1 .. n
      /\ \A k \in 1 .. n : out[k] = seq[at[k]]
  BY PickedFrom, Positions
<1> HIDE DEF out, at, n
<1>2. /\ \A k \in DOMAIN out : \E i \in I : out[k] = seq[i]
      /\ \A i \in I : \E k \in DOMAIN out : out[k] = seq[i]
  BY <1>1 DEF Numbers
<1> QED  BY <1>2 DEF out

(* An element is picked as often as it stands at one of the positions.     *)
LEMMA PickedCount ==
  ASSUME NEW X, NEW seq \in Seq(X), NEW I \in SUBSET DOMAIN seq, NEW x
  PROVE  /\ Count(Picked(seq, I), x) = Cardinality({i \in I : seq[i] = x})
         /\ Count(Picked(seq, I), x) <= Count(seq, x)
         /\ (\A i \in DOMAIN seq : seq[i] = x => i \in I) => Count(Picked(seq, I), x) = Count(seq, x)
<1> DEFINE out == Picked(seq, I)
           at == Increasing(I)
           n == Cardinality(I)
           K == {k \in DOMAIN out : out[k] = x}
           J == {i \in I : seq[i] = x}
           A == {i \in DOMAIN seq : seq[i] = x}
<1>1. /\ Numbers(at, n, I) /\ DOMAIN out = 1 .. n /\ out \in Seq(X)
      /\ \A k \in 1 .. n : out[k] = seq[at[k]]
  BY PickedFrom, Positions
<1>2. IsFiniteSet(K) /\ IsFiniteSet(A) /\ Count(out, x) = Cardinality(K) /\ Count(seq, x) = Cardinality(A)
  BY <1>1, CountFinite DEF Count
<1> HIDE DEF out, at, n
<1> DEFINE f == [k \in K |-> at[k]]
<1>3. f \in [K -> J]
  BY <1>1 DEF Numbers
<1>4. \A j, k \in K : f[j] = f[k] => j = k
  BY <1>1 DEF Numbers
<1>5. \A i \in J : \E k \in K : f[k] = i
  BY <1>1 DEF Numbers
<1> HIDE DEF f, K
<1>6. IsFiniteSet(J) /\ Cardinality(J) = Cardinality(K)
  BY <1>2, <1>3, <1>4, <1>5, SameSize
<1>7. J \in SUBSET A
  OBVIOUS
<1>8. Cardinality(J) <= Cardinality(A)
  BY <1>2, <1>7, FS_Subset
<1>9. (\A i \in DOMAIN seq : seq[i] = x => i \in I) => J = A
  OBVIOUS
<1> HIDE DEF J, A
<1> QED  BY <1>2, <1>6, <1>8, <1>9 DEF out, J

(* Once has each element, and has it once. *)
LEMMA OnceListsEach ==
  ASSUME NEW X, NEW seq \in Seq(X)
  PROVE  /\ Once(seq) \in Seq(X)
         /\ \A k \in DOMAIN Once(seq) : \E i \in DOMAIN seq : Once(seq)[k] = seq[i]
         /\ \A i \in DOMAIN seq : \E k \in DOMAIN Once(seq) : Once(seq)[k] = seq[i]
         /\ \A j, k \in DOMAIN Once(seq) : Once(seq)[j] = Once(seq)[k] => j = k
<1> DEFINE First(i) == \A j \in 1 .. i - 1 : seq[j] # seq[i]
           I == {i \in DOMAIN seq : First(i)}
           out == Picked(seq, I)
           at == Increasing(I)
           n == Cardinality(I)
<1>1. I \in SUBSET DOMAIN seq /\ Once(seq) = out
  BY DEF Once
<1>2. \A i \in DOMAIN seq : \E j \in I : seq[j] = seq[i]
  <2> SUFFICES ASSUME NEW i \in DOMAIN seq  PROVE \E j \in I : seq[j] = seq[i]
    OBVIOUS
  <2> DEFINE T == {j \in DOMAIN seq : seq[j] = seq[i]}
  <2>1. T \in SUBSET Nat /\ T # {}
    BY Positions
  <2>2. PICK j \in T : \A m \in T : j <= m
    BY <2>1, LeastNumber
  <2>3. First(j)
    BY <2>2, Positions
  <2> QED  BY <2>2, <2>3
<1>3. \A i, j \in I : seq[i] = seq[j] => i = j
  <2> SUFFICES ASSUME NEW i \in I, NEW j \in I, i < j  PROVE seq[i] # seq[j]
    BY Positions
  <2>1. i \in 1 .. j - 1
    BY Positions
  <2> QED  BY <2>1
<1> HIDE DEF I
<1>4. /\ Numbers(at, n, I) /\ DOMAIN out = 1 .. n /\ out \in Seq(X)
      /\ \A k \in 1 .. n : out[k] = seq[at[k]]
  BY <1>1, PickedFrom, Positions
<1>5. /\ \A k \in DOMAIN out : \E i \in I : out[k] = seq[i]
      /\ \A i \in I : \E k \in DOMAIN out : out[k] = seq[i]
  BY <1>1, PickedElements
<1>6. \A j, k \in DOMAIN out : out[j] = out[k] => j = k
  <2> HIDE DEF out, at, n
  <2> QED  BY <1>3, <1>4 DEF Numbers
<1> HIDE DEF out
<1>7. \A i \in DOMAIN seq : \E k \in DOMAIN out : out[k] = seq[i]
  BY <1>2, <1>5
<1> QED  BY <1>1, <1>4, <1>5, <1>6, <1>7

(* What is appended is counted with what was there. *)
LEMMA CountConcat ==
  ASSUME NEW X, NEW s \in Seq(X), NEW t \in Seq(X), NEW x
  PROVE  Count(s \o t, x) = Count(s, x) + Count(t, x)
<1> DEFINE u == s \o t
           m == Len(s)
           A == {i \in DOMAIN s : s[i] = x}
           B == {i \in DOMAIN t : t[i] = x}
           C == {i \in DOMAIN u : u[i] = x}
           D == {i \in C : i > m}
<1>1. /\ u \in Seq(X) /\ Len(u) = m + Len(t) /\ m \in Nat /\ Len(t) \in Nat
      /\ DOMAIN s = 1 .. m /\ DOMAIN t = 1 .. Len(t) /\ DOMAIN u = 1 .. m + Len(t)
      /\ \A i \in 1 .. m + Len(t) : u[i] = IF i <= m THEN s[i] ELSE t[i - m]
  BY ConcatProperties, Positions
<1>2. /\ IsFiniteSet(A) /\ Count(s, x) = Cardinality(A) /\ Count(s, x) \in Nat
      /\ IsFiniteSet(B) /\ Count(t, x) = Cardinality(B) /\ Count(t, x) \in Nat
      /\ Count(u, x) = Cardinality(C)
  BY CountFinite DEF Count
<1> DEFINE f == [i \in B |-> i + m]
<1> HIDE DEF u, m
<1>3. f \in [B -> D] /\ (\A i, j \in B : f[i] = f[j] => i = j) /\ \A k \in D : \E i \in B : f[i] = k
  <2>1. \A i \in B : i + m \in D
    BY <1>1
  <2>2. \A k \in D : k - m \in B /\ k - m + m = k
    BY <1>1
  <2>3. \A i \in B : i \in Nat
    BY <1>1
  <2> HIDE DEF B, D
  <2> QED  BY <1>1, <2>1, <2>2, <2>3
<1> HIDE DEF f
<1>4. IsFiniteSet(D) /\ Cardinality(D) = Cardinality(B)
  <2> HIDE DEF B, D
  <2> QED  BY <1>2, <1>3, SameSize
<1>5. C = A \cup D /\ A \cap D = {}
  BY <1>1
<1> HIDE DEF A, B, C, D
<1>6. Cardinality(C) = Cardinality(A) + Cardinality(D) - Cardinality(A \cap D)
  BY <1>2, <1>4, <1>5, FS_Union
<1>7. Cardinality(A \cap D) = 0
  BY <1>5, FS_EmptySet
<1> QED  BY <1>2, <1>4, <1>6, <1>7 DEF u

(* Joined is the elements of all the sequences, each from its place.       *)
LEMMA JoinedFrom ==
  ASSUME NEW X, NEW seqs \in Seq(Seq(X))
  PROVE  LET P == Places(seqs)
             at == InOrder(P, RowByRow(P))
         IN /\ Numbers(at, Cardinality(P), P)
            /\ Joined(seqs) \in Seq(X) /\ Len(Joined(seqs)) = Cardinality(P)
            /\ \A k \in 1 .. Cardinality(P) : Joined(seqs)[k] = seqs[at[k][1]][at[k][2]]
<1> DEFINE P == Places(seqs)
           R == RowByRow(P)
           at == InOrder(P, R)
           n == Cardinality(P)
<1>1. /\ DOMAIN seqs \subseteq Nat /\ IsFiniteSet(DOMAIN seqs)
      /\ \A i \in DOMAIN seqs : seqs[i] \in Seq(X) /\ DOMAIN seqs[i] \subseteq Nat
                                /\ IsFiniteSet(DOMAIN seqs[i])
      /\ \A i \in DOMAIN seqs : \A j \in DOMAIN seqs[i] : seqs[i][j] \in X
  <2>1. DOMAIN seqs \subseteq Nat /\ IsFiniteSet(DOMAIN seqs) /\ \A i \in DOMAIN seqs : seqs[i] \in Seq(X)
    BY Positions
  <2>2. \A i \in DOMAIN seqs : DOMAIN seqs[i] \subseteq Nat /\ IsFiniteSet(DOMAIN seqs[i])
    BY <2>1, Positions
  <2>3. \A i \in DOMAIN seqs : \A j \in DOMAIN seqs[i] : seqs[i][j] \in X
    BY <2>1, Positions
  <2> QED  BY <2>1, <2>2, <2>3
<1>2. \A p \in P : /\ p = <<p[1], p[2]>> /\ p[1] \in DOMAIN seqs /\ p[2] \in DOMAIN seqs[p[1]]
                   /\ p[1] \in Nat /\ p[2] \in Nat
  BY <1>1 DEF Places
<1>3. IsFiniteSet(P)
  <2> DEFINE row == [i \in DOMAIN seqs |-> {i} \X DOMAIN seqs[i]]
             rows == {{i} \X DOMAIN seqs[i] : i \in DOMAIN seqs}
  <2>1. row \in Surjection(DOMAIN seqs, rows)
    BY DEF Surjection
  <2>2. IsFiniteSet(rows)
    BY <1>1, <2>1, FS_Surjection
  <2>3. \A r \in rows : IsFiniteSet(r)
    <3> SUFFICES ASSUME NEW i \in DOMAIN seqs  PROVE IsFiniteSet({i} \X DOMAIN seqs[i])
      OBVIOUS
    <3> QED  BY <1>1, FS_Singleton, FS_Product
  <2> HIDE DEF rows
  <2>4. IsFiniteSet(UNION rows)
    BY <2>2, <2>3, FS_UNION
  <2> QED  BY <2>4 DEF Places, rows
<1>4. Orders(R, P)
  <2>1. \A p, q \in P : <<p, q>> \in R <=> p[1] < q[1] \/ (p[1] = q[1] /\ p[2] <= q[2])
    BY DEF RowByRow
  <2>0. \A p \in P : p[1] \in Nat /\ p[2] \in Nat
    BY <1>2
  <2> HIDE DEF R, P
  <2>2. \A p \in P : <<p, p>> \in R
    BY <2>0, <2>1
  <2>3. \A p, q \in P : <<p, q>> \in R \/ <<q, p>> \in R
    <3> SUFFICES ASSUME NEW p \in P, NEW q \in P  PROVE <<p, q>> \in R \/ <<q, p>> \in R
      OBVIOUS
    <3> DEFINE a == p[1]
               b == p[2]
               c == q[1]
               d == q[2]
    <3>1. a \in Nat /\ b \in Nat /\ c \in Nat /\ d \in Nat
      BY <2>0
    <3>2. /\ <<p, q>> \in R <=> a < c \/ (a = c /\ b <= d)
          /\ <<q, p>> \in R <=> c < a \/ (c = a /\ d <= b)
      BY <2>1
    <3> HIDE DEF a, b, c, d
    <3> QED  BY <3>1, <3>2
  <2>4. \A p, q \in P : <<p, q>> \in R /\ <<q, p>> \in R => p = q
    <3> SUFFICES ASSUME NEW p \in P, NEW q \in P, <<p, q>> \in R, <<q, p>> \in R  PROVE p = q
      OBVIOUS
    <3>1. p[1] = q[1] /\ p[2] = q[2]
      BY <2>0, <2>1
    <3> QED  BY <1>2, <3>1
  <2>5. \A p, q, r \in P : <<p, q>> \in R /\ <<q, r>> \in R => <<p, r>> \in R
    <3> SUFFICES ASSUME NEW p \in P, NEW q \in P, NEW r \in P, <<p, q>> \in R, <<q, r>> \in R
                 PROVE  <<p, r>> \in R
      OBVIOUS
    <3> DEFINE a == p[1]
               b == p[2]
               c == q[1]
               d == q[2]
               e == r[1]
               f == r[2]
    <3>1. a \in Nat /\ b \in Nat /\ c \in Nat /\ d \in Nat /\ e \in Nat /\ f \in Nat
      BY <2>0
    <3>2. /\ a < c \/ (a = c /\ b <= d)
          /\ c < e \/ (c = e /\ d <= f)
          /\ <<p, r>> \in R <=> a < e \/ (a = e /\ b <= f)
      BY <2>1
    <3> HIDE DEF a, b, c, d, e, f
    <3> QED  BY <3>1, <3>2
  <2> QED  BY <2>2, <2>3, <2>4, <2>5 DEF Orders
<1>5. Numbers(at, n, P) /\ DOMAIN at = 1 .. n
  <2> HIDE DEF P, R
  <2> QED  BY <1>3, <1>4, InOrderNumbers
<1>6. Joined(seqs) = [k \in 1 .. n |-> seqs[at[k][1]][at[k][2]]]
  BY <1>5 DEF Joined
<1> HIDE DEF at, n, P, R
<1>7. n \in Nat /\ \A k \in 1 .. n : seqs[at[k][1]][at[k][2]] \in X
  <2>1. \A k \in 1 .. n : at[k] \in P
    BY <1>5 DEF Numbers
  <2> QED  BY <1>1, <1>2, <1>5, <2>1 DEF Numbers
<1>8. Joined(seqs) \in Seq(X) /\ Len(Joined(seqs)) = n
  BY <1>6, <1>7, IsASeq
<1>9. \A k \in 1 .. n : Joined(seqs)[k] = seqs[at[k][1]][at[k][2]]
  BY <1>6
<1> QED  BY <1>5, <1>8, <1>9 DEF at, n, P, R

(* The pieces of a sequence are parts of it, and no position of it is in   *)
(* two of them.                                                            *)
LEMMA ChunkedFrom ==
  ASSUME NEW X, NEW seq \in Seq(X), NEW size \in Nat \ {0}
  PROVE  /\ Chunked(seq, size) \in Seq(Seq(X))
         /\ \A i \in DOMAIN Chunked(seq, size) : \A j \in DOMAIN Chunked(seq, size)[i] :
              /\ j \in 1 .. size /\ i \in Nat \ {0} /\ (i - 1) * size + j \in DOMAIN seq
              /\ Chunked(seq, size)[i][j] = seq[(i - 1) * size + j]
<1> DEFINE n == (Len(seq) + size - 1) \div size
           first(i) == (i - 1) * size + 1
           last(i) == IF i * size < Len(seq) THEN i * size ELSE Len(seq)
           out == Chunked(seq, size)
<1>1. Len(seq) \in Nat /\ DOMAIN seq = 1 .. Len(seq)
  BY Positions
<1>2. n \in Nat
  BY <1>1
<1>3. \A i \in 1 .. n : /\ first(i) \in Nat \ {0} /\ i * size \in Nat
                        /\ i * size = (i - 1) * size + size
  <2> SUFFICES ASSUME NEW i \in 1 .. n
               PROVE  first(i) \in Nat \ {0} /\ i * size \in Nat /\ i * size = (i - 1) * size + size
    OBVIOUS
  <2>1. i \in Nat /\ i - 1 \in Nat
    BY <1>2
  <2>2. (i - 1) * size \in Nat /\ i * size \in Nat
    BY <2>1
  <2> QED  BY <2>1, <2>2
<1>4. \A i \in 1 .. n : last(i) \in Nat /\ last(i) <= Len(seq) /\ last(i) <= i * size
  BY <1>1, <1>3
<1>5. \A i \in 1 .. n : /\ SubSeq(seq, first(i), last(i)) \in Seq(X)
                        /\ \A j \in DOMAIN SubSeq(seq, first(i), last(i)) :
                             /\ j \in 1 .. size /\ first(i) + j - 1 \in 1 .. Len(seq)
                             /\ SubSeq(seq, first(i), last(i))[j] = seq[first(i) + j - 1]
  <2> SUFFICES ASSUME NEW i \in 1 .. n
               PROVE  /\ SubSeq(seq, first(i), last(i)) \in Seq(X)
                      /\ \A j \in DOMAIN SubSeq(seq, first(i), last(i)) :
                           /\ j \in 1 .. size /\ first(i) + j - 1 \in 1 .. Len(seq)
                           /\ SubSeq(seq, first(i), last(i))[j] = seq[first(i) + j - 1]
    OBVIOUS
  <2> DEFINE f == first(i)
             l == last(i)
  <2>1. /\ f \in Nat /\ f >= 1 /\ l \in Nat /\ l <= Len(seq) /\ l - f + 1 <= size
    BY <1>3, <1>4
  <2> HIDE DEF f, l
  <2>2. SubSeq(seq, f, l) \in Seq(X) /\ DOMAIN SubSeq(seq, f, l) = 1 .. l - f + 1
        /\ \A j \in 1 .. l - f + 1 : SubSeq(seq, f, l)[j] = seq[f + j - 1]
    BY <1>1, <2>1, SubSeqProperties
  <2>3. \A j \in 1 .. l - f + 1 : j \in 1 .. size /\ f + j - 1 \in 1 .. Len(seq)
    BY <1>1, <2>1
  <2> QED  BY <2>2, <2>3 DEF f, l
<1>6. out = [i \in 1 .. n |-> SubSeq(seq, first(i), last(i))]
  BY DEF Chunked
<1>7. \A i \in 1 .. n : \A j \in 1 .. size : first(i) + j - 1 = (i - 1) * size + j
  BY <1>3
<1>10. \A i \in 1 .. n : SubSeq(seq, first(i), last(i)) \in Seq(X)
  BY <1>5
<1> HIDE DEF n, first, last
<1>8. out \in Seq(Seq(X)) /\ DOMAIN out = 1 .. n /\ \A i \in 1 .. n : out[i] = SubSeq(seq, first(i), last(i))
  <2>1. out \in Seq(Seq(X)) /\ Len(out) = n
    BY <1>2, <1>6, <1>10, IsASeq
  <2> QED  BY <1>6, <2>1
<1> HIDE DEF out
<1>9. ASSUME NEW i \in DOMAIN out, NEW j \in DOMAIN out[i]
      PROVE  /\ j \in 1 .. size /\ i \in Nat \ {0} /\ (i - 1) * size + j \in DOMAIN seq
             /\ out[i][j] = seq[(i - 1) * size + j]
  <2>1. i \in 1 .. n /\ out[i] = SubSeq(seq, first(i), last(i))
    BY <1>8
  <2>2. j \in 1 .. size /\ first(i) + j - 1 \in DOMAIN seq /\ out[i][j] = seq[first(i) + j - 1]
    BY <1>1, <1>5, <2>1
  <2>3. first(i) + j - 1 = (i - 1) * size + j
    BY <1>7, <2>1, <2>2
  <2> QED  BY <1>2, <2>1, <2>2, <2>3
<1> QED  BY <1>8, <1>9 DEF out

LEMMA PiecesApart ==
  ASSUME NEW size \in Nat \ {0}, NEW i \in Nat \ {0}, NEW k \in Nat \ {0},
         NEW j \in 1 .. size, NEW l \in 1 .. size, (i - 1) * size + j = (k - 1) * size + l
  PROVE  i = k /\ j = l
<1>1. \A m, n \in Nat : m < n => m * size + size <= n * size
  <2> SUFFICES ASSUME NEW m \in Nat, NEW n \in Nat, m < n  PROVE m * size + size <= n * size
    OBVIOUS
  <2>1. PICK d \in Nat : n = m + 1 + d
    <3>1. n - m - 1 \in Nat /\ n = m + 1 + (n - m - 1)
      OBVIOUS
    <3> QED  BY <3>1
  <2>2. n * size = m * size + size + d * size
    BY <2>1
  <2>3. d * size \in Nat /\ m * size \in Nat
    OBVIOUS
  <2> QED  BY <2>2, <2>3
<1>2. i - 1 \in Nat /\ k - 1 \in Nat /\ (i - 1) * size \in Nat /\ (k - 1) * size \in Nat
  OBVIOUS
<1>3. ~(i - 1 < k - 1) /\ ~(k - 1 < i - 1)
  BY <1>1, <1>2
<1>4. i = k
  BY <1>2, <1>3
<1> QED  BY <1>2, <1>4

-----------------------------------------------------------------------------
(* Positions in order: the place of a position is how many there are up to *)
(* it, and no other position has that many.                                *)
LEMMA IncreasingPlace ==
  ASSUME NEW X, NEW seq \in Seq(X), NEW I \in SUBSET DOMAIN seq, NEW x \in I
  PROVE  LET k == Cardinality({y \in I : y <= x}) IN
         k \in 1 .. Cardinality(I) /\ Increasing(I)[k] = x
<1> DEFINE R == {p \in I \X I : p[1] <= p[2]}
           Upto(z) == {y \in I : y <= z}
           Before(z) == {y \in I : <<y, z>> \in R}
           k == Cardinality(Upto(x))
           n == Cardinality(I)
<1>1. IsFiniteSet(I) /\ I \subseteq Nat
  BY Positions, FS_Subset
<1>2. \A z \in I : Before(z) = Upto(z)
  OBVIOUS
<1>3. \A z \in I : IsFiniteSet(Upto(z)) /\ Cardinality(Upto(z)) \in Nat /\ Cardinality(Upto(z)) <= n
                   /\ z \in Upto(z)
  <2> SUFFICES ASSUME NEW z \in I
               PROVE  IsFiniteSet(Upto(z)) /\ Cardinality(Upto(z)) \in Nat /\ Cardinality(Upto(z)) <= n
                      /\ z \in Upto(z)
    OBVIOUS
  <2>1. Upto(z) \in SUBSET I /\ z \in Upto(z)
    BY <1>1
  <2> HIDE DEF Upto
  <2> QED  BY <1>1, <2>1, FS_Subset, FS_CardinalityType
<1>4. k # 0
  BY <1>3, FS_EmptySet
<1>5. n \in Nat
  BY <1>1, FS_CardinalityType
<1>6. k \in 1 .. n
  <2> HIDE DEF k, n
  <2>1. k \in Nat /\ k <= n
    BY <1>3 DEF k
  <2> QED  BY <1>4, <1>5, <2>1
<1>7. \A z \in I : Cardinality(Upto(z)) = k => z = x
  <2> SUFFICES ASSUME NEW z \in I, Cardinality(Upto(z)) = k, z # x  PROVE FALSE
    OBVIOUS
  <2>1. CASE z < x
    <3>1. Upto(z) \in SUBSET Upto(x) /\ x \notin Upto(z) /\ x \in Upto(x)
      BY <1>1, <2>1
    <3> HIDE DEF Upto
    <3>2. Upto(z) = Upto(x)
      BY <1>3, <3>1, FS_Subset
    <3> QED  BY <3>1, <3>2
  <2>2. CASE x < z
    <3>1. Upto(x) \in SUBSET Upto(z) /\ z \notin Upto(x) /\ z \in Upto(z)
      BY <1>1, <2>2
    <3> HIDE DEF Upto
    <3>2. Upto(z) = Upto(x)
      BY <1>3, <3>1, FS_Subset
    <3> QED  BY <3>1, <3>2
  <2> QED  BY <1>1, <2>1, <2>2
<1>8. Increasing(I) = [j \in 1 .. n |-> CHOOSE z \in I : Cardinality(Before(z)) = j]
  BY DEF Increasing, InOrder
<1> HIDE DEF R, Before, n, k
<1>9. Increasing(I)[k] = CHOOSE z \in I : Cardinality(Before(z)) = k
  BY <1>6, <1>8
<1>10. Cardinality(Before(x)) = k /\ \A z \in I : Cardinality(Before(z)) = k => z = x
  BY <1>2, <1>7 DEF k
<1> QED  BY <1>6, <1>9, <1>10 DEF k, n

(* The positions I come first of J: they are picked first.                 *)
LEMMA PickedFirst ==
  ASSUME NEW X, NEW seq \in Seq(X), NEW J \in SUBSET DOMAIN seq, NEW I \in SUBSET J,
         \A i \in I : \A j \in J \ I : i < j
  PROVE  /\ Cardinality(I) \in Nat /\ Cardinality(I) <= Cardinality(J)
         /\ Len(Picked(seq, I)) = Cardinality(I) /\ Len(Picked(seq, J)) = Cardinality(J)
         /\ \A k \in 1 .. Cardinality(I) : Picked(seq, I)[k] = Picked(seq, J)[k]
<1>1. IsFiniteSet(I) /\ IsFiniteSet(J) /\ J \subseteq Nat /\ Cardinality(I) <= Cardinality(J)
      /\ Cardinality(I) \in Nat /\ Cardinality(J) \in Nat
  BY Positions, FS_Subset, FS_CardinalityType
<1>2. I \in SUBSET DOMAIN seq
  OBVIOUS
<1>3. \A x \in I : {y \in I : y <= x} = {y \in J : y <= x}
  BY <1>1
<1>4. \A k \in 1 .. Cardinality(I) : Increasing(I)[k] = Increasing(J)[k]
  <2> SUFFICES ASSUME NEW k \in 1 .. Cardinality(I)  PROVE Increasing(I)[k] = Increasing(J)[k]
    OBVIOUS
  <2> DEFINE x == Increasing(I)[k]
             m == Cardinality({y \in I : y <= x})
  <2>1. x \in I /\ \A j \in 1 .. Cardinality(I) : Increasing(I)[j] = x => j = k
    BY <1>2, PickedFrom DEF Numbers
  <2> HIDE DEF x
  <2>2. m \in 1 .. Cardinality(I) /\ Increasing(I)[m] = x
    BY <1>2, <2>1, IncreasingPlace
  <2>3. m = k
    BY <2>1, <2>2
  <2>4. Increasing(J)[Cardinality({y \in J : y <= x})] = x
    BY <2>1, IncreasingPlace
  <2>5. Cardinality({y \in J : y <= x}) = k
    BY <1>3, <2>1, <2>3
  <2> QED  BY <2>4, <2>5 DEF x
<1>5. /\ Len(Picked(seq, I)) = Cardinality(I) /\ Len(Picked(seq, J)) = Cardinality(J)
      /\ \A k \in 1 .. Cardinality(I) : Picked(seq, I)[k] = seq[Increasing(I)[k]]
      /\ \A k \in 1 .. Cardinality(J) : Picked(seq, J)[k] = seq[Increasing(J)[k]]
  BY <1>2, PickedFrom
<1>6. \A k \in 1 .. Cardinality(I) : k \in 1 .. Cardinality(J)
  BY <1>1
<1> QED  BY <1>1, <1>4, <1>5, <1>6

(* One more position, after all the others, adds its element at the end.   *)
LEMMA PickedNext ==
  ASSUME NEW X, NEW seq \in Seq(X), NEW I \in SUBSET DOMAIN seq, NEW m \in DOMAIN seq,
         \A i \in I : i < m
  PROVE  Picked(seq, I \cup {m}) = Append(Picked(seq, I), seq[m])
<1> DEFINE J == I \cup {m}
           n == Cardinality(I)
           s == Picked(seq, I)
           t == Picked(seq, J)
<1>1. J \in SUBSET DOMAIN seq /\ I \in SUBSET J /\ \A i \in I : \A j \in J \ I : i < j
  OBVIOUS
<1>2. IsFiniteSet(I) /\ I \subseteq Nat /\ m \in Nat /\ m \notin I
  BY Positions, FS_Subset
<1>3. n \in Nat /\ Cardinality(J) = n + 1
  BY <1>2, FS_AddElement, FS_CardinalityType
<1>4. {y \in J : y <= m} = J
  BY <1>2
<1>5. Increasing(J)[n + 1] = m
  <2>1. m \in J
    OBVIOUS
  <2> HIDE DEF J, n
  <2>2. Increasing(J)[Cardinality({y \in J : y <= m})] = m
    BY <1>1, <2>1, IncreasingPlace
  <2> QED  BY <1>3, <1>4, <2>2
<1>6. s \in Seq(X) /\ t \in Seq(X) /\ Len(t) = n + 1 /\ Len(s) = n /\ t[n + 1] = seq[m]
  BY <1>1, <1>3, <1>5, PickedFrom
<1>7. \A k \in 1 .. n : s[k] = t[k]
  BY <1>1, PickedFirst
<1> HIDE DEF n, s, t
<1>8. t = Append(s, seq[m])
  <2>1. Append(s, seq[m]) \in Seq(X) /\ Len(Append(s, seq[m])) = n + 1
    BY <1>6, Positions
  <2>2. \A k \in 1 .. n + 1 : Append(s, seq[m])[k] = IF k = n + 1 THEN seq[m] ELSE s[k]
    BY <1>3, <1>6
  <2>3. \A k \in 1 .. n + 1 : t[k] = Append(s, seq[m])[k]
    BY <1>3, <1>6, <1>7, <2>2
  <2> QED  BY <1>6, <2>1, <2>3, SeqEqual
<1> QED  BY <1>8 DEF s, t

-----------------------------------------------------------------------------
(* Induction, by sets of numbers.                                          *)
LEMMA InductionBySet ==
  ASSUME NEW T, 0 \in T, \A n \in Nat : n \in T => n + 1 \in T
  PROVE  Nat \subseteq T
<1> SUFFICES ASSUME ~(Nat \subseteq T) PROVE FALSE
  OBVIOUS
<1>1. PICK n \in Nat \ T : \A m \in Nat \ T : n <= m
  BY LeastNumber
<1>2. n # 0 /\ n - 1 \in Nat /\ n - 1 + 1 = n
  BY <1>1
<1>3. n - 1 \notin T
  BY <1>2
<1>4. n <= n - 1
  BY <1>1, <1>2, <1>3
<1> QED  BY <1>1, <1>4

(* A loop over the numbers up to n has a run: what it keeps in hand after  *)
(* each of its rounds, step giving the next from the last.                 *)
RunOf(f, X, n, x, step) ==
  /\ f \in [0 .. n -> X] /\ f[0] = x
  /\ \A i \in 1 .. n : f[i] = step[i][f[i - 1]]

LEMMA LoopRuns ==
  ASSUME NEW X, NEW n \in Nat, NEW x \in X, NEW step \in [1 .. n -> [X -> X]]
  PROVE  \E f : RunOf(f, X, n, x, step)
<1> DEFINE Runs(f, k) == f[0] = x /\ \A i \in 1 .. k : f[i] = step[i][f[i - 1]]
           T == {k \in Nat : k <= n => \E f \in [0 .. k -> X] : Runs(f, k)}
<1>0. \A y \in X, i \in 1 .. n : step[i][y] \in X
  OBVIOUS
<1>1. 0 \in T
  <2> DEFINE f == [i \in 0 .. 0 |-> x]
  <2>1. f \in [0 .. 0 -> X] /\ f[0] = x
    OBVIOUS
  <2> HIDE DEF f
  <2>2. Runs(f, 0)
    BY <2>1
  <2> QED  BY <2>1, <2>2
<1>2. ASSUME NEW k \in Nat, k \in T  PROVE k + 1 \in T
  <2> SUFFICES ASSUME k + 1 <= n  PROVE \E g \in [0 .. k + 1 -> X] : Runs(g, k + 1)
    OBVIOUS
  <2>1. PICK f \in [0 .. k -> X] : Runs(f, k)
    BY <1>2
  <2> DEFINE next == step[k + 1][f[k]]
             g == [i \in 0 .. k + 1 |-> IF i <= k THEN f[i] ELSE next]
  <2>2. next \in X
    <3>1. f[k] \in X /\ k + 1 \in 1 .. n
      BY <2>1
    <3> QED  BY <1>0, <3>1
  <2> HIDE DEF next
  <2>3. g \in [0 .. k + 1 -> X]
    BY <2>1, <2>2
  <2>4. (\A i \in 0 .. k : g[i] = f[i]) /\ g[k + 1] = next
    OBVIOUS
  <2> HIDE DEF g
  <2>5. g[0] = x
    BY <2>1, <2>4
  <2>6. \A i \in 1 .. k + 1 : g[i] = step[i][g[i - 1]]
    <3> SUFFICES ASSUME NEW i \in 1 .. k + 1  PROVE g[i] = step[i][g[i - 1]]
      OBVIOUS
    <3>1. CASE i = k + 1
      <4>1. i - 1 = k /\ k \in 0 .. k
        BY <3>1
      <4> QED  BY <2>4, <3>1, <4>1 DEF next
    <3>2. CASE i # k + 1
      <4>1. i \in 1 .. k /\ i \in 0 .. k /\ i - 1 \in 0 .. k
        BY <3>2
      <4> QED  BY <2>1, <2>4, <4>1
    <3> QED  BY <3>1, <3>2
  <2> QED  BY <2>3, <2>5, <2>6
<1> HIDE DEF T
<1>3. n \in T
  <2>1. Nat \subseteq T
    BY <1>1, <1>2, InductionBySet
  <2> QED  BY <2>1
<1> QED  BY <1>3 DEF T, RunOf
=============================================================================
