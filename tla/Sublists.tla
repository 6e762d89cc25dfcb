------------------------------ MODULE Sublists ------------------------------
(***************************************************************************)
(* Parts of lists, and lists of lists put together, as the loops and       *)
(* dictionaries of the code make them.  They are given by the positions    *)
(* their elements come from, in order; nothing here is recursive.          *)
(***************************************************************************)
EXTENDS Naturals, Sequences, FiniteSets

(* The elements of a finite set in the order R, a set of pairs <<x, y>>    *)
(* with x no later than y: the k-th has k elements no later than it.       *)
InOrder(S, R) ==
  [k \in 1 .. Cardinality(S) |-> CHOOSE x \in S : Cardinality({y \in S : <<y, x>> \in R}) = k]

(* The elements of seq at the positions I, in order. *)
Increasing(I) == InOrder(I, {p \in I \X I : p[1] <= p[2]})
Picked(seq, I) == LET at == Increasing(I) IN [k \in DOMAIN at |-> seq[at[k]]]

(* Each element of seq once, where it comes first. *)
Once(seq) == Picked(seq, {i \in DOMAIN seq : \A j \in 1 .. i - 1 : seq[j] # seq[i]})

(* The sequences in seqs one after the other. *)
Places(seqs) == UNION {{i} \X DOMAIN seqs[i] : i \in DOMAIN seqs}
RowByRow(P) ==
  {p \in P \X P : p[1][1] < p[2][1] \/ (p[1][1] = p[2][1] /\ p[1][2] <= p[2][2])}
Joined(seqs) ==
  LET at == InOrder(Places(seqs), RowByRow(Places(seqs)))
  IN [k \in DOMAIN at |-> seqs[at[k][1]][at[k][2]]]

(* seq in pieces of the given size, the last one shorter. *)
Chunked(seq, size) ==
  [i \in 1 .. (Len(seq) + size - 1) \div size |->
     SubSeq(seq, (i - 1) * size + 1, IF i * size < Len(seq) THEN i * size ELSE Len(seq))]

(* How often x is in seq. *)
Count(seq, x) == Cardinality({i \in DOMAIN seq : seq[i] = x})
=============================================================================
