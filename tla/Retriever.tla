------------------------------ MODULE Retriever ------------------------------
(***************************************************************************)
(* The composed retrievers (src/src/dynavec/retrievers.py): a call plans   *)
(* several sub-searches (the query and what a model makes of it, or a      *)
(* dense and a lexical search), gives them to the client's thread pool,    *)
(* collects them in the order of the plan and fuses them.                  *)
(*                                                                         *)
(* Callers share the pool.  What a sub-search finds is fixed; it may fail  *)
(* instead.  A task is what is searched for: the text of a query, or the   *)
(* mean of the vectors of some passages, or the words of the query.        *)
(***************************************************************************)
EXTENDS Ranking, Sublists

CONSTANTS
  Askers, Workers,   \* concurrent callers, and threads of the pool
  Query,             \* the text asked for
  Setups,            \* retrievers: see SetupOK
  Outputs,           \* what the model may return: sequences of texts
  KeyOf, Blank,      \* a text stripped and case-folded
  Found,             \* [tasks -> hits]
  MaxAsks, MaxTop,   \* bounds: calls, and the largest top_k
  Unknown, Failed

SetupOK(s) ==
  /\ s.kind \in {"multi query", "hyde average", "hyde fuse", "hybrid"}
  /\ s.original \in BOOLEAN /\ s.raises \in BOOLEAN
  /\ s.limit \in Nat \ {0} /\ s.weight \in Nat \ {0} /\ s.depth \in Nat

ASSUME RetrieverAssumption ==
  /\ \A s \in Setups : SetupOK(s)
  /\ Outputs \subseteq Seq(DOMAIN KeyOf)

VARIABLES
  setup,     \* the retriever in use
  pool,      \* futures submitted and not begun, in order: caller, call, place
  threads,   \* futures that run
  asked,     \* [Askers -> the call of each]
  asks       \* calls so far

rtvars == <<setup, pool, threads, asked, asks>>

NotAsked == [at |-> "idle", serial |-> 0, k |-> 1, out |-> <<>>, plan |-> <<>>, lists |-> <<>>, answer |-> <<>>]

Text(t) == [by |-> "text", of |-> {t}]
Mean(ts) == [by |-> "vector", of |-> ToSet(ts)]
Lexical(t) == [by |-> "words", of |-> {t}]

(* _clean_texts.  Passages are not compared with the query.                *)
CleanTexts(seen, out, limit) ==
  LET new == {i \in DOMAIN out : /\ KeyOf[out[i]] # Blank /\ KeyOf[out[i]] \notin seen
                                 /\ \A j \in 1 .. i - 1 : KeyOf[out[j]] # KeyOf[out[i]]}
  IN Picked(out, {i \in new : Cardinality({j \in new : j < i}) < limit})

Depth(k) ==
  LET asked_ == IF setup.depth > 0 THEN setup.depth ELSE 2 * k IN
  IF setup.kind = "hybrid" THEN (IF setup.depth > 0 THEN setup.depth ELSE Largest({2 * k, 10}))
  ELSE Largest({asked_, k})

(* _build_plan: weighted tasks.  A failed generation leaves the query.     *)
PlanFor(out) ==
  LET hyde == setup.kind \in {"hyde average", "hyde fuse"}
      texts == IF out = Failed THEN <<>>
               ELSE CleanTexts(IF hyde THEN {} ELSE {KeyOf[Query]}, out, setup.limit)
      plain == IF setup.original \/ texts = <<>> THEN << [w |-> setup.weight, task |-> Text(Query)] >>
               ELSE <<>>
      expanded == IF setup.kind = "multi query" THEN [i \in DOMAIN texts |-> Text(texts[i])]
                  ELSE IF setup.kind = "hyde fuse" THEN [i \in DOMAIN texts |-> Mean(<<texts[i]>>)]
                  ELSE IF texts = <<>> THEN <<>> ELSE <<Mean(texts)>>
  IN IF setup.kind = "hybrid"
     THEN << [w |-> 2, task |-> Text(Query)], [w |-> setup.weight, task |-> Lexical(Query)] >>
     ELSE plain \o [i \in DOMAIN expanded |-> [w |-> 1, task |-> expanded[i]]]

(* search: the model is asked, and the plan submitted; one call alone is   *)
(* made by the caller itself.                                              *)
AskFor(a, k, out) ==
  /\ asked[a].at \notin {"collects", "alone"} /\ asks < MaxAsks
  /\ asks' = asks + 1
  /\ IF out = Failed /\ setup.raises /\ setup.kind # "hybrid"
     THEN /\ asked' = [asked EXCEPT ![a] = [NotAsked EXCEPT !.at = "raised"]]
          /\ UNCHANGED pool
     ELSE LET plan == PlanFor(out) IN
          /\ asked' = [asked EXCEPT ![a] =
               [at |-> IF Len(plan) = 1 THEN "alone" ELSE "collects", serial |-> asks + 1, k |-> k,
                out |-> out, plan |-> plan, lists |-> [i \in DOMAIN plan |-> Unknown], answer |-> <<>>]]
          /\ pool' = IF Len(plan) = 1 THEN pool
                     ELSE pool \o [i \in DOMAIN plan |-> [by |-> a, serial |-> asks + 1, place |-> i]]
  /\ UNCHANGED <<setup, threads>>

SearchAlone(a) ==
  /\ asked[a].at = "alone"
  /\ asked' = [asked EXCEPT ![a].lists = << Cut(Found[asked[a].plan[1].task], Depth(asked[a].k)) >>,
                            ![a].at = "collects"]
  /\ UNCHANGED <<setup, pool, threads, asks>>

FailAlone(a) ==
  /\ asked[a].at = "alone"
  /\ asked' = [asked EXCEPT ![a] = [NotAsked EXCEPT !.at = "raised"]]
  /\ UNCHANGED <<setup, pool, threads, asks>>

TakeUp ==
  /\ pool # <<>> /\ Cardinality(threads) < Workers
  /\ threads' = threads \cup {Head(pool)} /\ pool' = Tail(pool)
  /\ UNCHANGED <<setup, asked, asks>>

(* A sub-search ends.  Nobody waits any more for one of a call that has    *)
(* failed.                                                                 *)
Deliver(f, hits) ==
  /\ f \in threads
  /\ threads' = threads \ {f}
  /\ asked' = IF asked[f.by].serial = f.serial
              THEN [asked EXCEPT ![f.by].lists[f.place] = hits] ELSE asked
  /\ UNCHANGED <<setup, pool, asks>>
FinishSearch(f) ==
  f \in threads /\ Deliver(f, IF asked[f.by].serial = f.serial
              THEN Cut(Found[asked[f.by].plan[f.place].task], Depth(asked[f.by].k)) ELSE Failed)
FailSearch(f) == f \in threads /\ Deliver(f, Failed)

(* The futures are awaited in order: the first that failed raises, once    *)
(* all before it are there.                                                *)
(* Mutant: a sub-search that failed counts as one that found nothing. *)
CollectWithout(a) ==
  LET c == asked[a]
      lists == [i \in DOMAIN c.lists |-> IF c.lists[i] = Failed THEN <<>> ELSE c.lists[i]]
      weights == [i \in DOMAIN c.plan |-> c.plan[i].w]
  IN /\ c.at = "collects" /\ \A i \in DOMAIN c.lists : c.lists[i] # Unknown
     /\ asked' = [asked EXCEPT ![a].at = "done",
                               ![a].answer = Cut(ReciprocalRankFusion(lists, weights), c.k)]
     /\ UNCHANGED <<setup, pool, threads, asks>>
Collect(a) ==
  LET c == asked[a]
      weights == [i \in DOMAIN c.plan |-> c.plan[i].w]
  IN /\ c.at = "collects"
     /\ \/ /\ \A i \in DOMAIN c.lists : c.lists[i] \notin {Unknown, Failed}
           /\ asked' = [asked EXCEPT ![a].at = "done",
                                     ![a].answer = Cut(ReciprocalRankFusion(c.lists, weights), c.k)]
        \/ \E i \in DOMAIN c.lists :
             /\ c.lists[i] = Failed /\ \A j \in 1 .. i - 1 : c.lists[j] \notin {Unknown, Failed}
             /\ asked' = [asked EXCEPT ![a] = [NotAsked EXCEPT !.at = "raised"]]
     /\ UNCHANGED <<setup, pool, threads, asks>>

RetrieverInit ==
  /\ setup \in Setups /\ pool = <<>> /\ threads = {} /\ asks = 0
  /\ asked = [a \in Askers |-> NotAsked]

RetrieverNext ==
  \/ \E a \in Askers :
       \/ \E k \in 1 .. MaxTop, out \in Outputs \cup {Failed} : AskFor(a, k, out)
       \/ SearchAlone(a)
       \/ FailAlone(a)
       \/ Collect(a)
  \/ TakeUp
  \/ \E f \in threads : FinishSearch(f) \/ FailSearch(f)

RetrieverSpec == RetrieverInit /\ [][RetrieverNext]_rtvars
-----------------------------------------------------------------------------
(* An answer is the fusion of all of the sub-searches the call planned,    *)
(* each weighted as planned, in whatever order they ended, whatever else   *)
(* ran on the pool and whatever an earlier call that failed left there: a  *)
(* partial answer is never given.  The query itself is searched if it was  *)
(* asked to be or if the model gave nothing to search for, and no more     *)
(* expansions than allowed, no two of them alike.                          *)
FusionInOrder ==
  \A a \in Askers : asked[a].at = "done" =>
    LET c == asked[a]
        lists == [i \in DOMAIN c.plan |-> Cut(Found[c.plan[i].task], Depth(c.k))]
        usable == IF c.out = Failed THEN {}
                  ELSE {KeyOf[t] : t \in ToSet(c.out)} \ {Blank, KeyOf[Query]}
        plain == {i \in DOMAIN c.plan : c.plan[i].task = Text(Query)}
    IN /\ IdsOf(c.answer) =
            IdsOf(Cut(ReciprocalRankFusion(lists, [i \in DOMAIN c.plan |-> c.plan[i].w]), c.k))
       /\ (setup.original \/ (usable = {} /\ setup.kind = "multi query")) => plain = {1}
       /\ c.plan # <<>> /\ Cardinality(DOMAIN c.plan \ plain) <= setup.limit
       /\ \A i, j \in DOMAIN c.plan : i # j => c.plan[i].task # c.plan[j].task
=============================================================================
