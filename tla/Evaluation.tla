------------------------------ MODULE Evaluation ------------------------------
(***************************************************************************)
(* The scores of an evaluation (src/src/dynavec/eval): the retrieval       *)
(* metrics of retrieval.py, the judged metrics of metrics.py, the averages *)
(* of runner.py and the store of runs of trend.py.                         *)
(*                                                                         *)
(* Scores are whole parts of Unit.  What a judge says of a claim or of a   *)
(* context is one of Verdicts, each a JSON value: true, false, the text    *)
(* "false", or nothing.                                                    *)
(***************************************************************************)
EXTENDS Integers, Sequences, FiniteSets, SequencesExt

CONSTANTS
  Unit,        \* parts of a score of 1
  Discount     \* [rank -> 1 / log2(rank + 1), in parts of Unit]

ASSUME EvaluationAssumption == Unit \in Nat \ {0}

Total(s) == FoldLeft(LAMBDA n, x : n + x, 0, s)
Top(s, k) == SubSeq(s, 1, IF k < Len(s) THEN k ELSE Len(s))
HitsIn(retrieved, relevant, k) ==
  Cardinality({i \in DOMAIN Top(retrieved, k) : retrieved[i] \in relevant})
Descending(s) ==
  LET place(i) == Cardinality({j \in DOMAIN s : s[j] > s[i] \/ (s[j] = s[i] /\ j <= i)})
  IN [p \in DOMAIN s |-> s[CHOOSE i \in DOMAIN s : place(i) = p]]
Average(s) == IF s = <<>> THEN 0 ELSE Total(s) \div Len(s)

ComputeRecallAtK(retrieved, relevant, k) ==
  IF relevant = {} \/ k <= 0 THEN 0
  ELSE (Unit * HitsIn(retrieved, relevant, k)) \div Cardinality(relevant)
ComputePrecisionAtK(retrieved, relevant, k) ==
  IF relevant = {} \/ k <= 0 THEN 0 ELSE (Unit * HitsIn(retrieved, relevant, k)) \div k
ComputeMRR(retrieved, relevant, k) ==
  LET at == {i \in DOMAIN retrieved : retrieved[i] \in relevant /\ (k > 0 => i <= k)}
  IN IF at = {} THEN 0 ELSE Unit \div (CHOOSE i \in at : \A j \in at : i <= j)

(* Grades are a function from some documents to integers; a gain is        *)
(* 2^grade - 1, and an absent or negative grade gains nothing.             *)
Gain(g) == IF g > 0 THEN 2 ^ g - 1 ELSE 0
Discounted(gains) == Total([i \in DOMAIN gains |-> gains[i] * Discount[i]])
ComputeNDCGAtK(retrieved, grades, k) ==
  LET top == Top(retrieved, k)
      dcg == Discounted([i \in DOMAIN top |-> IF top[i] \in DOMAIN grades THEN Gain(grades[top[i]]) ELSE 0])
      best == Descending([i \in 1 .. Cardinality(DOMAIN grades) |->
                            Gain(grades[SetToSeq(DOMAIN grades)[i]])])
      idcg == Discounted(Top(best, k))
  IN IF k <= 0 \/ idcg = 0 THEN 0 ELSE IF dcg >= idcg THEN Unit ELSE (Unit * dcg) \div idcg

(* _percentile, of values in order, in parts of a hundredth.               *)
Percentile(values, pct) ==
  LET at == (Len(values) - 1) * pct
      lo == at \div 100
      hi == IF lo + 1 < Len(values) THEN lo + 1 ELSE Len(values) - 1
  IN IF values = <<>> THEN 0
     ELSE values[lo + 1] * (100 - (at % 100)) + values[hi + 1] * (at % 100)

(***************************************************************************)
(* Judged metrics.  A claim is [claimed, verdict]; one without text is     *)
(* left out.  Faithfulness takes any verdict Python holds for true.        *)
(***************************************************************************)
Verdicts == {"true", "false", "'false'", "nothing"}
Truthy(v) == v \in {"true", "'false'"}
Claimed(claims) == SelectSeq(claims, LAMBDA c : c.claimed)
Supported(claims, Holds(_)) == Cardinality({i \in DOMAIN claims : Holds(claims[i].verdict)})
Clamp(x) == IF x < 0 THEN 0 ELSE IF x > Unit THEN Unit ELSE x

EvaluateFaithfulness(answered, hasContext, claims, score) ==
  LET made == Claimed(claims) IN
  IF ~answered \/ ~hasContext THEN 0
  ELSE IF made = <<>> THEN Clamp(score)
  ELSE (Unit * Supported(made, Truthy)) \div Len(made)
EvaluateAnswerRelevance(asked, answered, score) == IF ~asked \/ ~answered THEN 0 ELSE Clamp(score)
EvaluateContextRecall(referenced, hasContext, claims) ==
  LET made == Claimed(claims) IN
  IF ~referenced \/ ~hasContext \/ made = <<>> THEN 0
  ELSE (Unit * Supported(made, LAMBDA v : v = "true")) \div Len(made)

(* The judge names a context by its number, or by its place in the list if *)
(* it gives none (0 here stands for none); a number that is out of range   *)
(* is passed over and the last of several holds.                           *)
ContextPrecision(n, said) ==
  LET index(i) == IF said[i].index = 0 THEN i ELSE said[i].index
      last(r) == {i \in DOMAIN said : index(i) = r /\ \A j \in DOMAIN said : index(j) = r => j <= i}
      relevant == {r \in 1 .. n : \E i \in last(r) : said[i].verdict = "true"}
      upTo(r) == Cardinality({s \in relevant : s <= r})
  IN IF relevant = {} THEN 0
     ELSE Total([r \in 1 .. n |-> IF r \in relevant THEN (Unit * upTo(r)) \div r ELSE 0])
            \div Cardinality(relevant)

(* EvalRunner.run on samples, each a function from the metrics that were   *)
(* evaluated to scores.                                                    *)
Passes(sample, threshold) == DOMAIN sample # {} /\ \A m \in DOMAIN sample : sample[m] >= threshold
PassRate(samples, threshold) ==
  IF samples = <<>> THEN 0
  ELSE (Unit * Cardinality({i \in DOMAIN samples : Passes(samples[i], threshold)})) \div Len(samples)
MeanOf(samples, m) ==
  LET scored == SelectSeq(samples, LAMBDA s : m \in DOMAIN s)
  IN Average([i \in DOMAIN scored |-> scored[i][m]])

(* EvalRunStore.record keeps the last max_runs; the slice [-0:] is all.    *)
Recorded(kept, r, maxRuns) ==
  LET all == Append(kept, r) IN
  IF Len(all) > maxRuns /\ maxRuns > 0 THEN SubSeq(all, Len(all) - maxRuns + 1, Len(all)) ELSE all
Trend(kept, metric, tags) ==
  LET matching == SelectSeq(kept, LAMBDA r :
        metric \in DOMAIN r.metrics /\ \A t \in DOMAIN tags : t \in DOMAIN r.tags /\ r.tags[t] = tags[t])
      place(i) == Cardinality({j \in DOMAIN matching : matching[j].ts < matching[i].ts
                                 \/ (matching[j].ts = matching[i].ts /\ j <= i)})
  IN [p \in DOMAIN matching |->
        LET i == CHOOSE x \in DOMAIN matching : place(x) = p IN <<matching[i].ts, matching[i].metrics[metric]>>]
-----------------------------------------------------------------------------
(* Moving a document that is worth more in front of one that is worth less *)
(* raises no metric's verdict on the order before; the metrics of one      *)
(* answer fit each other; an answer in the best order, and no other, has   *)
(* nDCG 1.  Retrieved documents are distinct.                              *)
Swapped(s, i) == [j \in DOMAIN s |-> IF j = i THEN s[i + 1] ELSE IF j = i + 1 THEN s[i] ELSE s[j]]
Worth(grades, d) == IF d \in DOMAIN grades THEN Gain(grades[d]) ELSE 0
RetrievalFair(retrieved, grades, k) ==
  LET relevant == {d \in DOMAIN grades : grades[d] > 0}
      recall == ComputeRecallAtK(retrieved, relevant, k)
      precision == ComputePrecisionAtK(retrieved, relevant, k)
      ndcg(s) == ComputeNDCGAtK(s, grades, k)
      ideal == Top(Descending([i \in 1 .. Cardinality(relevant) |-> Worth(grades, SetToSeq(relevant)[i])]), k)
      first == [i \in DOMAIN Top(retrieved, k) |-> Worth(grades, retrieved[i])]
  IN relevant # {} /\ k > 0 =>
     /\ {recall, precision, ndcg(retrieved)} \subseteq 0 .. Unit
     /\ recall <= ComputeRecallAtK(retrieved, relevant, k + 1)
     /\ (recall = 0) = (precision = 0) /\ (recall = 0) = (ComputeMRR(retrieved, relevant, k) = 0)
     /\ (recall = 0) = (ndcg(retrieved) = 0)
     /\ \A i \in 1 .. Len(retrieved) - 1 :
          Worth(grades, retrieved[i + 1]) > Worth(grades, retrieved[i]) =>
            /\ ndcg(Swapped(retrieved, i)) >= ndcg(retrieved)
            /\ ComputeMRR(Swapped(retrieved, i), relevant, k) >= ComputeMRR(retrieved, relevant, k)
     /\ (ndcg(retrieved) = Unit) = (\A i \in DOMAIN ideal : i \in DOMAIN first /\ first[i] = ideal[i])

(* A score that a judge's words are turned into is one of 0 to 1; a        *)
(* verdict for a claim or a context never lowers it; and the precision of  *)
(* a context list is 1 exactly if the relevant ones come first.            *)
Better(said, i) == [said EXCEPT ![i].verdict = "true"]
Perfect(n, said) ==
  \E m \in 1 .. n : \A r \in 1 .. n : (r <= m) = (\E i \in DOMAIN said : said[i].index = r /\ said[i].verdict = "true")
JudgedFair(n, said, score) ==
  LET claims == [i \in DOMAIN said |-> [claimed |-> said[i].index # 0, verdict |-> said[i].verdict]]
      faithful(c) == EvaluateFaithfulness(TRUE, TRUE, c, score)
      recall(c) == EvaluateContextRecall(TRUE, TRUE, c)
      distinct == \A i, j \in DOMAIN said : said[i].index # 0 /\ (i # j => said[i].index # said[j].index)
  IN /\ {faithful(claims), recall(claims), ContextPrecision(n, said),
         EvaluateAnswerRelevance(TRUE, TRUE, score)} \subseteq 0 .. Unit
     /\ \A i \in DOMAIN claims : /\ faithful(Better(claims, i)) >= faithful(claims)
                                  /\ recall(Better(claims, i)) >= recall(claims)
     /\ recall(claims) <= faithful(claims)
     /\ distinct => (ContextPrecision(n, said) = Unit) = Perfect(n, said)

(* The store of runs holds the latest and a trend is in order of time, and *)
(* of recording at one time.                                               *)
TrendFair(rs, maxRuns) ==
  LET kept == FoldLeft(LAMBDA acc, r : Recorded(acc, r, maxRuns), <<>>, rs)
      series == Trend(kept, "mrr", <<>>)
  IN /\ maxRuns > 0 => kept = SubSeq(rs, Len(rs) - Len(kept) + 1, Len(rs)) /\ Len(kept) <= maxRuns
     /\ \A i, j \in DOMAIN series : i < j => series[i][1] <= series[j][1]
     /\ Len(series) = Cardinality({i \in DOMAIN kept : "mrr" \in DOMAIN kept[i].metrics})

(* Of latencies in order, the percentiles run from the least to the        *)
(* largest and never fall.                                                 *)
PercentileFair(values) ==
  /\ Percentile(values, 0) = 100 * values[1]
  /\ Percentile(values, 100) = 100 * values[Len(values)]
  /\ \A p \in 1 .. 100 : Percentile(values, p - 1) <= Percentile(values, p)

(* Samples pass alone or not at all: the rate is at most each metric's     *)
(* share of samples at or above the threshold, and a mean lies between the *)
(* least and the largest score.                                            *)
RunnerFair(samples, threshold) ==
  \A m \in UNION {DOMAIN samples[i] : i \in DOMAIN samples} :
    LET with == {i \in DOMAIN samples : m \in DOMAIN samples[i]}
        failing == {i \in with : samples[i][m] < threshold}
    IN /\ PassRate(samples, threshold) * Len(samples) <= Unit * (Len(samples) - Cardinality(failing))
       /\ \E i \in with : samples[i][m] <= MeanOf(samples, m)
       /\ \E i \in with : samples[i][m] >= MeanOf(samples, m)
=============================================================================
