------------------------------ MODULE MCServices ------------------------------
(***************************************************************************)
(* Instances of the library's services for TLC.  They share no state, so a *)
(* behaviour is of one of them, chosen at the start, and the others stand  *)
(* still.                                                                  *)
(***************************************************************************)
EXTENDS SemanticCache, SharedCache, TokenBucket, EmbedCache, BM25Index, Retriever,
        GraphQuery, Ingest, Evaluation, ResultPages, Transfer, AsyncClient, HotTier

CONSTANTS
  Machines,     \* the services to run
  s1, s2, s3, n1, n2, n3, v1, v2, c1, c3, sku, num, the, u1, u2, u3, u4, NoCase

VARIABLES
  part,
  case      \* the input of a computation, when `part' is "computed"

services == <<scvars, shvars, tbvars, ecvars, bmvars, rtvars, invars, rpvars, trvars, acvars, hotVars, case>>

(* Three signatures in two namespaces; the cache holds two entries and     *)
(* three bytes.                                                            *)
SigSpaces == [s \in {s1, s2, s3} |-> IF s = s3 THEN n2 ELSE n1]
Likeness == [p \in {v1, v2} \X {v1, v2} |-> IF p[1] = p[2] THEN 10 ELSE 6]
KeySpaces == [k \in {c1, c3} |-> IF k = c3 THEN n2 ELSE n1]

(* Texts with a compound word, a stop word, a repetition; no text at all.  *)
SomeTexts == { <<>>, << <<sku, num>> >>, << <<the>>, <<sku>>, <<sku>> >> }
SomeQuestions == { << <<sku>> >>, << <<num>>, <<the>>, <<sku>> >> }
IdfTable == << [f \in 0 .. 1 |-> <<1386, 288>>[f + 1]], [f \in 0 .. 2 |-> <<1792, 693, 182>>[f + 1]] >>
Condition(op, val, vals) == [op |-> op, val |-> val, vals |-> vals]
SomeFilters ==
  { { Condition("$gte", 2, {}) }, { Condition("$lt", 2, {}) }, { Condition("$gt", 1, {}) },
    { Condition("$in", NoTag, {1, NoTag}), Condition("$nin", NoTag, {1}), Condition("$exists", NoTag, {}) },
    { Condition("$or", NoTag, {}) } }

(* Texts u2 and u3 differ in case only, u4 is blank; the model repeats     *)
(* itself, gives nothing of use, or gives back the query.                  *)
Keyed == [u \in {u1, u2, u3, u4} |-> CASE u = u1 -> 1 [] u = u4 -> 0 [] OTHER -> 2]
SomeOutputs == { <<u2, u3>>, <<u1, u4>>, <<u2, u1>> }
HitOf(d) == [id |-> d, vec |-> NoVector, score |-> 0]
Results == [t \in [by: {"text", "vector", "words"}, of: SUBSET {u1, u2, u3, u4}] |->
              CASE t.by = "text" /\ t.of = {u1} -> << HitOf(1), HitOf(2), HitOf(3) >>
                [] t.by = "text" -> << HitOf(3), HitOf(1) >>
                [] t.by = "words" -> << HitOf(2) >>
                [] OTHER -> << HitOf(3), HitOf(2) >> ]
Composed(kind, original, raises, weight, depth) ==
  [kind |-> kind, original |-> original, raises |-> raises, limit |-> 2, weight |-> weight, depth |-> depth]
SomeSetups ==
  { Composed("multi query", TRUE, FALSE, 1, 0), Composed("multi query", FALSE, TRUE, 1, 1),
    Composed("hyde average", TRUE, FALSE, 2, 0), Composed("hyde fuse", FALSE, FALSE, 1, 3),
    Composed("hybrid", TRUE, TRUE, 1, 1) }

(* Documents that share a text, that shrink, and that repeat themselves.   *)
Doc(id, texts) == [id |-> id, texts |-> texts]
SomeCorpora ==
  { << Doc(1, <<u1, u4, u2>>), Doc(2, <<u2, u3>>) >>, << Doc(1, <<u2>>), Doc(2, <<u3, u3>>) >> }

(* An asynchronous write of two documents, then one of the first of them.  *)
SomeBatches == << {1, 2}, {1} >>

(* Inputs of the computations.                                             *)
Sequences_(S, n) == [1 .. n -> S]
Injective(S, n) == {s \in [1 .. n -> S] : \A i, j \in 1 .. n : i # j => s[i] # s[j]}
Lists(l) == {[i \in DOMAIN s |-> [id |-> s[i], vec |-> l, score |-> 0]] :
               s \in UNION {Injective(1 .. 3, n) : n \in 0 .. 3}}
FusionCases == {[lists |-> <<a, b>>, weights |-> w] : a \in Lists(1), b \in Lists(2), w \in {<<1, 1>>, <<2, 1>>}}
Vectored(vs) == [i \in DOMAIN vs |-> [id |-> i, vec |-> vs[i], score |-> 10 * i]]
VectorLists(S) == {Vectored(vs) : vs \in Sequences_(S, 3)}
Mixed == { [m \in {"cosine"} |-> 1], [m \in {"manhattan", "dot"} |-> 1],
           [m \in {"cosine", "euclidean"} |-> IF m = "cosine" THEN 2 ELSE 1] }
DiverseCases ==
  [hits: VectorLists({<<3, 4>>, <<5, 0>>, <<0, -5>>, NoVector}), k: 1 .. 3, lambda: 0 .. 2]
CombinationCases == [hits: VectorLists({<<3, 4>>, <<4, 3>>, <<-6, 8>>, NoVector}), weights: Mixed]
TailCases ==
  [hits: VectorLists({<<3, 4>>, <<0, -5>>, NoVector}), k: 1 .. 2, rerank: {"none", "mmr"},
   weights: Mixed \cup {NoRescore}]

Related(S, x, Ts) ==
  LET ts == SelectSeq(<<1, 2, 3>>, LAMBDA t : t \in Ts)
  IN [edges |-> [i \in DOMAIN ts |-> [target |-> ts[i], relation |-> (x + ts[i]) % 2, weight |-> (x * ts[i]) % 3]],
      docs |-> <<10 * x, 40>>]
GraphCases ==
  UNION {{[g |-> [x \in S |-> Related(S, x, t[x])], rel |-> r] : t \in [S -> SUBSET (1 .. 3)], r \in {AnyRelation, 0}} :
           S \in {{1, 2, 3}, {1, 3}}}
Likes == [d \in {10, 20, 40} |-> d % 40]

Units == UNION {Sequences_({u1, u4}, n) : n \in 0 .. 3}
File(key, ext, units, sheets, front) ==
  [key |-> key, ext |-> ext, units |-> units, sheets |-> sheets, front |-> front]
FileCases ==
  {File("a", ext, units, <<units, <<u1, u1>>>>, front) :
     ext \in {"pdf", "pptx", "docx", "csv", "xlsx", "md", "txt"}, units \in Units, front \in {"none", "bad"}}
SpanCases == {[n |-> n, size |-> z, overlap |-> o] : n \in 0 .. 6, z \in 1 .. 4, o \in 0 .. 3}

Logs == <<10000, 6309, 5000, 4307>>
AnswerCases ==
  [retrieved: Injective(1 .. 4, 3) \cup {<<>>}, grades: [1 .. 3 -> -1 .. 2], k: {1, 3}]
Said(n, vs) == [index: 0 .. n + 1, verdict: vs]
JudgeCases ==
  [n: {2}, said: UNION {Sequences_(Said(2, Verdicts), l) : l \in 0 .. 2}, score: {-1, Unit + 1}]
    \cup [n: {3}, said: Sequences_(Said(3, {"true", "nothing"}), 3), score: {0}]
RunRecord == {[ts |-> t, tags |-> <<>>, metrics |-> [m \in {x} |-> t]] : t \in 1 .. 2, x \in {"mrr", "relevance"}}
TrendCases == [rs: UNION {Sequences_(RunRecord, n) : n \in 0 .. 4}, max: 0 .. 2]
Samples == UNION {[S -> {0, 6, 9}] : S \in SUBSET {"faithfulness", "relevance"}}
RunnerCases == [samples: UNION {Sequences_(Samples, n) : n \in 0 .. 2}, threshold: {6, 7}]

CaseInit ==
  \/ case \in [fusion: FusionCases]
  \/ case \in [diverse: DiverseCases]
  \/ case \in [combination: CombinationCases]
  \/ case \in [tail: TailCases]
  \/ case \in [grid: (2 .. 4) \X (1 .. 4)]
  \/ case \in [graph: GraphCases]
  \/ case \in [file: FileCases]
  \/ case \in [span: SpanCases]
  \/ case \in [answer: AnswerCases]
  \/ case \in [judged: JudgeCases]
  \/ case \in [trend: TrendCases]
  \/ case \in [ran: RunnerCases]
  \/ case \in [times: { <<3>>, <<1, 4>>, <<2, 2, 9>>, <<0, 1, 5, 7>> }]

Init ==
  /\ part \in Machines
  /\ SemanticCacheInit
  /\ SharedCacheInit /\ (part # "shared cache" => backend = CHOOSE b \in Backends : TRUE)
  /\ BucketInit
  /\ EmbedCacheInit /\ (part # "embeddings" => limit = CHOOSE n \in StoreLimits : TRUE)
  /\ BM25Init
  /\ RetrieverInit /\ (part # "retriever" => setup = CHOOSE s \in Setups : TRUE)
  /\ IngestInit /\ (part # "ingest" => corpus = CHOOSE c \in Corpora : TRUE)
  /\ ResultPagesInit
  /\ TransferInit /\ (part # "transfer" => source = [d \in Exported |-> Absent])
  /\ AsyncInit
  /\ HotInit
  /\ IF part = "computed" THEN CaseInit ELSE case = NoCase

Next ==
  /\ UNCHANGED <<part, case>>
  /\ \/ /\ part = "semantic cache" /\ SemanticCacheNext
        /\ UNCHANGED <<shvars, tbvars, ecvars, bmvars, rtvars, invars, rpvars, trvars, acvars, hotVars>>
     \/ /\ part = "shared cache" /\ SharedCacheNext
        /\ UNCHANGED <<scvars, tbvars, ecvars, bmvars, rtvars, invars, rpvars, trvars, acvars, hotVars>>
     \/ /\ part = "bucket" /\ BucketNext
        /\ UNCHANGED <<scvars, shvars, ecvars, bmvars, rtvars, invars, rpvars, trvars, acvars, hotVars>>
     \/ /\ part = "embeddings" /\ EmbedCacheNext
        /\ UNCHANGED <<scvars, shvars, tbvars, bmvars, rtvars, invars, rpvars, trvars, acvars, hotVars>>
     \/ /\ part = "lexical" /\ BM25Next
        /\ UNCHANGED <<scvars, shvars, tbvars, ecvars, rtvars, invars, rpvars, trvars, acvars, hotVars>>
     \/ /\ part = "retriever" /\ RetrieverNext
        /\ UNCHANGED <<scvars, shvars, tbvars, ecvars, bmvars, invars, rpvars, trvars, acvars, hotVars>>
     \/ /\ part = "ingest" /\ IngestNext
        /\ UNCHANGED <<scvars, shvars, tbvars, ecvars, bmvars, rtvars, rpvars, trvars, acvars, hotVars>>
     \/ /\ part = "pages" /\ ResultPagesNext
        /\ UNCHANGED <<scvars, shvars, tbvars, ecvars, bmvars, rtvars, invars, trvars, acvars, hotVars>>
     \/ /\ part = "transfer" /\ TransferNext
        /\ UNCHANGED <<scvars, shvars, tbvars, ecvars, bmvars, rtvars, invars, rpvars, acvars, hotVars>>
     \/ /\ part = "async client" /\ AsyncNext
        /\ UNCHANGED <<scvars, shvars, tbvars, ecvars, bmvars, rtvars, invars, rpvars, trvars, hotVars>>
     \/ /\ part = "hot tier" /\ HotNext
        /\ UNCHANGED <<scvars, shvars, tbvars, ecvars, bmvars, rtvars, invars, rpvars, trvars, acvars>>

Spec == Init /\ [][Next]_<<part, services>>

(* What the library computes is what it should be, on every input here:    *)
(* fusion, reranking, rescoring and the end of a search; walks of the      *)
(* graph and searches within it; records and chunks of files; and the      *)
(* scores of an evaluation, whatever the judge says.                       *)
AnswersExact ==
  part = "computed" =>
    CASE DOMAIN case = {"fusion"} -> FusionFair(case.fusion.lists, case.fusion.weights)
      [] DOMAIN case = {"diverse"} ->
           DiverseExact(<<4, 3>>, case.diverse.hits, case.diverse.k, case.diverse.lambda)
      [] DOMAIN case = {"combination"} ->
           CombinationFair(<<4, 3>>, case.combination.hits, case.combination.weights)
      [] DOMAIN case = {"tail"} ->
           TailExact(<<4, 3>>, case.tail.hits, case.tail.k, case.tail.weights, case.tail.rerank, 1)
      [] DOMAIN case = {"grid"} -> GridComplete(case.grid[1], case.grid[2])
      [] DOMAIN case = {"graph"} ->
           \A hops \in {0, 1, 3} :
             /\ \A x \in 1 .. 3 : WalksExact(case.graph.g, 1 .. 3, x, case.graph.rel, hops)
             /\ ScopeExact(case.graph.g, 1 .. 3, <<1, 2, 1>>, case.graph.rel, hops, 2, Likes)
      [] DOMAIN case = {"file"} ->
           SourcesAgree(case.file, File("b", "txt", <<u1>>, << >>, "none"))
      [] DOMAIN case = {"span"} ->
           case.span.overlap < case.span.size => SpansExact(case.span.n, case.span.size, case.span.overlap)
      [] DOMAIN case = {"answer"} -> RetrievalFair(case.answer.retrieved, case.answer.grades, case.answer.k)
      [] DOMAIN case = {"judged"} -> JudgedFair(case.judged.n, case.judged.said, case.judged.score)
      [] DOMAIN case = {"trend"} -> TrendFair(case.trend.rs, case.trend.max)
      [] DOMAIN case = {"times"} -> PercentileFair(case.times)
      [] DOMAIN case = {"ran"} -> RunnerFair(case.ran.samples, case.ran.threshold)
=============================================================================
