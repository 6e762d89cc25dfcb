------------------------------- MODULE Ranking -------------------------------
(***************************************************************************)
(* The ranking arithmetic of a search (src/src/dynavec/retrieval.py,       *)
(* metrics.py and fusion.py, and the end of client.py's _search_core):     *)
(* fusion by reciprocal rank, rescoring, maximal marginal relevance,       *)
(* normalisation, and the search for fusion weights.                       *)
(*                                                                         *)
(* A hit is an id and a vector, or NoVector.  Vectors are pairs of         *)
(* integers of integer length; scores are whole thousandths, and           *)
(* reciprocal ranks are taken over a common multiple of their              *)
(* denominators.                                                           *)
(***************************************************************************)
EXTENDS Integers, Sequences, FiniteSets, SequencesExt

CONSTANTS
  RrfK,        \* the smoothing constant k
  LongestList, \* the longest list fused
  NoVector

ASSUME RankingAssumption == RrfK \in Nat \ {0} /\ LongestList \in Nat

Indices(s) == [i \in DOMAIN s |-> i]
SumOver(s, F(_)) == FoldLeft(LAMBDA n, x : n + F(x), 0, s)
Largest(S) == CHOOSE x \in S : \A y \in S : y <= x
Smallest(S) == CHOOSE x \in S : \A y \in S : x <= y
Unique(s) == FoldLeft(LAMBDA acc, x : IF x \in ToSet(acc) THEN acc ELSE Append(acc, x), <<>>, s)
Cut(s, k) == SubSeq(s, 1, IF k < Len(s) THEN k ELSE Len(s))
IdsOf(hits) == [i \in DOMAIN hits |-> hits[i].id]

(* A stable sort, largest score first: the order of the positions of s.    *)
SortedBy(s, score) ==
  LET place(i) == Cardinality({j \in DOMAIN s : score[j] > score[i]
                                                 \/ (score[j] = score[i] /\ j < i)}) + 1
  IN [p \in DOMAIN s |-> CHOOSE i \in DOMAIN s : place(i) = p]
Reordered(s, order) == [p \in DOMAIN order |-> s[order[p]]]

(* sum of w / (k + rank + 1) over the lists, times Multiple.               *)
Multiple == FoldLeft(LAMBDA m, i : m * (RrfK + i), 1, [i \in 1 .. LongestList |-> i])
(* Mutant: a document counts where it first appears only. *)
RrfScoreFirst(lists, weights, d) ==
  LET at(l) == {r \in DOMAIN lists[l] : lists[l][r].id = d}
      l == CHOOSE l \in DOMAIN lists : at(l) # {} /\ \A m \in 1 .. l - 1 : at(m) = {}
  IN weights[l] * (Multiple \div (RrfK + Smallest(at(l))))
RrfScore(lists, weights, d) ==
  SumOver(Indices(lists), LAMBDA l :
    SumOver(Indices(lists[l]), LAMBDA r :
      IF lists[l][r].id = d THEN weights[l] * (Multiple \div (RrfK + r)) ELSE 0))
ReciprocalRankFusion(lists, weights) ==
  LET all == FoldLeft(LAMBDA acc, l : acc \o l, <<>>, lists)
      ids == Unique(IdsOf(all))
      score == [i \in DOMAIN ids |-> RrfScore(lists, weights, ids[i])]
      first(d) == all[Smallest({i \in DOMAIN all : all[i].id = d})]
  IN [p \in DOMAIN ids |-> LET i == SortedBy(ids, score)[p]
                           IN [first(ids[i]) EXCEPT !.score = score[i]]]

(* metrics.score, larger for closer.  A root is taken to a tenth.          *)
Dot(v, w) == v[1] * w[1] + v[2] * w[2]
Magnitude(n) == IF n < 0 THEN -n ELSE n
Root(n, unit) == CHOOSE r \in 0 .. 30 * unit : r * r <= n * unit * unit /\ n * unit * unit < (r + 1) * (r + 1)
MetricScore(metric, q, v) ==
  LET away == <<q[1] - v[1], q[2] - v[2]>>
      lengths == Root(Dot(q, q), 1) * Root(Dot(v, v), 1)
  IN CASE metric = "dot" -> 1000 * Dot(q, v)
       [] metric = "cosine" -> IF lengths = 0 THEN 0 ELSE (1000 * Dot(q, v)) \div lengths
       [] metric = "euclidean" -> 10000 \div (10 + Root(Dot(away, away), 10))
       [] metric = "manhattan" -> 1000 \div (1 + Magnitude(away[1]) + Magnitude(away[2]))

NormalizeScores(scores) ==
  IF scores = <<>> THEN scores
  ELSE LET lo == Smallest(ToSet(scores))  hi == Largest(ToSet(scores)) IN
       [i \in DOMAIN scores |-> IF hi = lo THEN 0 ELSE (1000 * (scores[i] - lo)) \div (hi - lo)]
(* A combination is a function from some metrics to weights.               *)
CompositeScore(q, vectors, weights) ==
  LET part(m) == NormalizeScores([i \in DOMAIN vectors |-> MetricScore(m, q, vectors[i])])
      total == FoldSet(LAMBDA m, n : n + weights[m], 0, DOMAIN weights)
  IN [i \in DOMAIN vectors |->
        FoldSet(LAMBDA m, n : n + weights[m] * part(m)[i], 0, DOMAIN weights)
          \div (IF total = 0 THEN 1 ELSE total)]

WithVectors(hits) == SelectSeq(hits, LAMBDA h : h.vec # NoVector)
VectorsOf(hits) == [i \in DOMAIN hits |-> hits[i].vec]

(* _apply_rescore: hits that have no vector are left out, unless none has. *)
ApplyRescore(q, hits, weights) ==
  LET scored == WithVectors(hits)
      only == CHOOSE m \in DOMAIN weights : TRUE
      score == IF Cardinality(DOMAIN weights) = 1
               THEN [i \in DOMAIN scored |-> MetricScore(only, q, scored[i].vec)]
               ELSE CompositeScore(q, VectorsOf(scored), weights)
      order == SortedBy(scored, score)
  IN IF scored = <<>> THEN hits
     ELSE [p \in DOMAIN order |-> [scored[order[p]] EXCEPT !.score = score[order[p]]]]

(* maximal_marginal_relevance, lambda in halves.  The largest similarity   *)
(* to what is selected is carried from pick to pick.                       *)
Cosine(v, w) == MetricScore("cosine", v, w)
FirstBest(S, F(_)) == Smallest({i \in S : \A j \in S : F(j) <= F(i)})
MaximalMarginalRelevance(q, hits, k, lambda) ==
  LET usable == WithVectors(hits)
      sim(i, j) == Cosine(usable[i].vec, usable[j].vec)
      toQuery(i) == Cosine(q, usable[i].vec)
      start == FirstBest(DOMAIN usable, toQuery)
      pick(acc, n) ==
        LET last == acc.selected[Len(acc.selected)]
            near == [i \in DOMAIN usable |-> Largest({acc.near[i], sim(i, last)})]
            left == DOMAIN usable \ ToSet(acc.selected)
            mmr(i) == lambda * toQuery(i) - (2 - lambda) * near[i]
        IN [selected |-> Append(acc.selected, FirstBest(left, mmr)), near |-> near]
      rounds == [n \in 1 .. (IF k < Len(usable) THEN k ELSE Len(usable)) - 1 |-> n]
  IN IF usable = <<>> THEN Cut(hits, k)
     ELSE Reordered(usable, FoldLeft(pick, [selected |-> <<start>>,
                                         near |-> [i \in DOMAIN usable |-> -1000]], rounds).selected)

(* The end of _search_core, on the hits that were fetched.                 *)
NoRescore == <<>>
Reranked(q, hits, k, rerank, lambda) ==
  IF rerank = "mmr" THEN MaximalMarginalRelevance(q, hits, k, lambda) ELSE Cut(hits, k)
Normalized(hits) ==
  [i \in DOMAIN hits |->
     [hits[i] EXCEPT !.score = NormalizeScores([j \in DOMAIN hits |-> hits[j].score])[i]]]
SearchTail(q, hits, k, weights, rerank, lambda) ==
  Reranked(q, IF weights = NoRescore THEN hits ELSE ApplyRescore(q, hits, weights),
           k, rerank, lambda)
FetchK(k, overFetch, weights, rerank) ==
  IF weights # NoRescore \/ rerank # "none" THEN k * overFetch ELSE k

(* _fit_grid: the weights tried, in order, for n retrievers.               *)
Ascending(m, b) ==
  {c \in [1 .. m -> 0 .. b - 1] : \A i \in 1 .. m - 1 : c[i] < c[i + 1]}
GridOf(n, steps) ==
  IF n = 2 THEN {<<i, steps - i>> : i \in 0 .. steps}
  ELSE { [j \in 1 .. n |->
            (IF j = n THEN steps + n - 1 ELSE c[j]) - (IF j = 1 THEN -1 ELSE c[j - 1]) - 1] :
         c \in Ascending(n - 1, steps + n - 1) }
-----------------------------------------------------------------------------
(* What fusion promises of lists that each name a document once: every     *)
(* document comes once, a document that every list that has the other      *)
(* places above it comes above it, and what two lists say does not depend  *)
(* on which of them is given first.                                        *)
FusionFair(lists, weights) ==
  LET fused == ReciprocalRankFusion(lists, weights)
      rank(l, d) == {r \in DOMAIN lists[l] : lists[l][r].id = d}
      placed(d) == CHOOSE p \in DOMAIN fused : fused[p].id = d
      above(l, d, e) == rank(l, e) = {} \/ \E r \in rank(l, d) : \A s \in rank(l, e) : r < s
      ids == UNION {ToSet(IdsOf(lists[l])) : l \in DOMAIN lists}
      turned == ReciprocalRankFusion(Reverse(lists), Reverse(weights))
  IN /\ ToSet(IdsOf(fused)) = ids /\ Len(fused) = Cardinality(ids)
     /\ \A d, e \in ids : d # e /\ (\A l \in DOMAIN lists : above(l, d, e)) => placed(d) < placed(e)
     /\ \A p \in DOMAIN fused : fused[p].score = turned[p].score
     /\ \A p \in DOMAIN fused : \A l \in DOMAIN lists :
          (rank(l, fused[p].id) # {} /\ \A m \in 1 .. l - 1 : rank(m, fused[p].id) = {})
            => fused[p].vec = lists[l][Smallest(rank(l, fused[p].id))].vec

(* What the reranking promises: the answer is drawn from the hits without  *)
(* repeating one and has top_k of them if that many have vectors; asking   *)
(* for one more only adds to what was chosen before; each choice has the   *)
(* largest margin over all that was left, counted against everything       *)
(* chosen before it; with lambda 1 it is the order of similarity.          *)
DiverseExact(q, hits, k, lambda) ==
  LET out == MaximalMarginalRelevance(q, hits, k, lambda)
      usable == WithVectors(hits)
      near(h, p) == Largest({Cosine(h.vec, out[j].vec) : j \in 1 .. p - 1})
      margin(h, p) == lambda * Cosine(q, h.vec) - (2 - lambda) * near(h, p)
  IN usable # <<>> =>
     /\ ToSet(out) \subseteq ToSet(usable) /\ Cardinality(ToSet(out)) = Len(out)
     /\ Len(out) = Largest({1, Smallest({k, Len(usable)})})
     /\ k > 1 => IsPrefix(MaximalMarginalRelevance(q, hits, k - 1, lambda), out)
     /\ \A p \in 2 .. Len(out) : \A h \in ToSet(usable) \ ToSet(Cut(out, p - 1)) :
          margin(h, p) <= margin(out[p], p)
     /\ lambda = 2 => \A p \in 2 .. Len(out) : Cosine(q, out[p].vec) <= Cosine(q, out[p - 1].vec)

(* What the combination of metrics promises: a hit that no metric puts     *)
(* below another and that a metric of positive weight puts well above it   *)
(* comes first, and one metric orders as it does alone.                    *)
CombinationFair(q, hits, weights) ==
  LET out == ApplyRescore(q, hits, weights)
      scores == CompositeScore(q, VectorsOf(WithVectors(hits)), weights)
      m(x, h) == MetricScore(x, q, h.vec)
  IN WithVectors(hits) # <<>> =>
     /\ ToSet(IdsOf(out)) = ToSet(IdsOf(WithVectors(hits)))
     /\ \A i \in DOMAIN scores : scores[i] \in 0 .. 1000
     /\ \A p, r \in DOMAIN out : p < r =>
          \E x \in DOMAIN weights : m(x, out[p]) >= m(x, out[r])

(* What a search gives in the end: at most top_k of the hits it fetched,   *)
(* each once, as many as there are to give; without reranking, those it    *)
(* would have given with a larger top_k first; and normalised scores keep  *)
(* the order of the scores.                                                *)
TailExact(q, hits, k, weights, rerank, lambda) ==
  \A out \in {SearchTail(q, hits, k, weights, rerank, lambda)},
     more \in {SearchTail(q, hits, k + 1, weights, rerank, lambda)},
     usable \in {IF (weights # NoRescore \/ rerank = "mmr") /\ WithVectors(hits) # <<>>
                 THEN WithVectors(hits) ELSE hits} :
    /\ Len(out) = Smallest({k, Len(usable)}) /\ FetchK(k, 2, weights, rerank) >= k
    /\ ToSet(IdsOf(out)) \subseteq ToSet(IdsOf(usable)) /\ Cardinality(ToSet(IdsOf(out))) = Len(out)
    /\ IsPrefix(out, more)
    /\ \A scaled \in {Normalized(out)} :
         /\ IdsOf(scaled) = IdsOf(out)
         /\ \A i, j \in DOMAIN out : out[i].score < out[j].score => scaled[i].score <= scaled[j].score

(* The grid holds every split of the steps over the retrievers.            *)
GridComplete(n, steps) ==
  GridOf(n, steps) =
    {w \in [1 .. n -> 0 .. steps] : SumOver(Indices(w), LAMBDA i : w[i]) = steps}
=============================================================================
