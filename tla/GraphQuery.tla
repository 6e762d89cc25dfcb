------------------------------ MODULE GraphQuery ------------------------------
(***************************************************************************)
(* What is read from the graph (neighbors, get_docs and _collect_subgraph  *)
(* in src/src/dynavec/graph.py, the graph_* queries in client.py): walks   *)
(* over a graph of items that does not change meanwhile.                   *)
(*                                                                         *)
(* A graph is a function from stored entities to items, each a sequence of *)
(* edges [target, relation, weight] and a sequence of documents.           *)
(***************************************************************************)
EXTENDS Integers, Sequences, FiniteSets, SequencesExt

CONSTANTS
  AnyRelation,   \* relation=None
  NoPath         \* the empty list

Items(g, e) == IF e \in DOMAIN g THEN g[e] ELSE [edges |-> <<>>, docs |-> <<>>]
Distinct(s) == FoldLeft(LAMBDA acc, x : IF x \in ToSet(acc) THEN acc ELSE Append(acc, x), <<>>, s)
OfRelation(g, e, rel) ==
  SelectSeq(Items(g, e).edges, LAMBDA x : rel = AnyRelation \/ x.relation = rel)
Targets(edges) == [i \in DOMAIN edges |-> edges[i].target]
Neighbors(g, e, rel) == Targets(OfRelation(g, e, rel))

(* neighbors(min_weight, with_weights): heaviest first, and as stored among *)
(* equals.                                                                 *)
WeightedNeighbors(g, e, rel, least) ==
  LET edges == SelectSeq(OfRelation(g, e, rel), LAMBDA x : x.weight >= least)
      place(i) == Cardinality({j \in DOMAIN edges : edges[j].weight > edges[i].weight
                                 \/ (edges[j].weight = edges[i].weight /\ j <= i)})
  IN [p \in DOMAIN edges |-> LET x == edges[CHOOSE i \in DOMAIN edges : place(i) = p]
                             IN <<x.target, x.weight>>]

GetDocs(g, es) == Distinct(FoldLeft(LAMBDA acc, e : acc \o Items(g, e).docs, <<>>, es))

(* One level of the breadth-first walk: from each node of the frontier, in *)
(* order, its neighbours that no walk has reached, with the path to each.  *)
Visit(acc, node, nb) ==
  IF nb \in DOMAIN acc.path THEN acc
  ELSE [path |-> [x \in DOMAIN acc.path \cup {nb} |->
                    IF x = nb THEN Append(acc.path[node], nb) ELSE acc.path[x]],
        next |-> Append(acc.next, nb)]
Level(g, rel, acc) ==
  LET from(a, node) == FoldLeft(LAMBDA b, nb : Visit(b, node, nb), a, Neighbors(g, node, rel))
  IN FoldLeft(from, [acc EXCEPT !.next = <<>>], acc.next)
(* Mutant: one level too many. *)
WalkOneMore(g, e, rel, hops) ==
  FoldLeft(LAMBDA acc, h : Level(g, rel, acc), [path |-> [x \in {e} |-> <<e>>], next |-> <<e>>],
           [h \in 1 .. hops + 1 |-> h])
Walk(g, e, rel, hops) ==
  FoldLeft(LAMBDA acc, h : Level(g, rel, acc), [path |-> [x \in {e} |-> <<e>>], next |-> <<e>>],
           [h \in 1 .. hops |-> h])

GraphNeighbors(g, e, rel, hops) == DOMAIN Walk(g, e, rel, hops).path \ {e}
(* The walk returns as soon as it reaches the destination; what it would   *)
(* reach after that does not change the path it has found.                 *)
ShortestPath(g, a, b, rel, hops) ==
  LET path == Walk(g, a, rel, hops).path IN IF b \in DOMAIN path THEN path[b] ELSE NoPath

(* graph_search: the documents of the seeds and of what is near them that  *)
(* have a vector, the k closest first.  Ties follow an order of documents. *)
GraphSearch(g, seeds, rel, hops, k, score) ==
  LET near == Distinct(seeds) \o
        SetToSeq(UNION {GraphNeighbors(g, e, rel, hops) : e \in ToSet(seeds)} \ ToSet(seeds))
      docs == SelectSeq(GetDocs(g, near), LAMBDA d : d \in DOMAIN score)
      place(i) == Cardinality({j \in DOMAIN docs : score[docs[j]] > score[docs[i]]
                                 \/ (score[docs[j]] = score[docs[i]] /\ j <= i)})
  IN [p \in 1 .. (IF k < Len(docs) THEN k ELSE Len(docs)) |->
        docs[CHOOSE i \in DOMAIN docs : place(i) = p]]

(* _collect_subgraph: what the roots reach along a relation, and the edges *)
(* met on the way, each once.  Every stored node is a root by default.     *)
Collected(g, roots, rel) ==
  LET reached == FoldLeft(LAMBDA S, i : S \cup UNION {ToSet(Neighbors(g, e, rel)) : e \in S},
                          roots, [i \in 1 .. Cardinality(roots) +
                            Cardinality(UNION {ToSet(Neighbors(g, e, rel)) : e \in DOMAIN g}) |-> i])
  IN [nodes |-> reached,
      edges |-> UNION {{<<e, x.relation, x.target>> : x \in ToSet(OfRelation(g, e, rel))} : e \in reached}]
-----------------------------------------------------------------------------
(* Walks of a graph, stated by themselves: sequences of entities of which  *)
(* each has an edge to the next.                                           *)
WalksOf(g, Entities, rel, hops) ==
  UNION {{w \in [1 .. n -> Entities] :
            \A i \in 1 .. n - 1 : w[i + 1] \in ToSet(Neighbors(g, w[i], rel))} : n \in 1 .. hops + 1}

(* The queries say what the graph has: graph_neighbors names exactly the   *)
(* other entities that some walk of at most `hops' edges reaches, and a    *)
(* shortest path is such a walk and no walk between its ends is shorter.   *)
WalksExact(g, Entities, e, rel, hops) ==
  LET walks == {w \in WalksOf(g, Entities, rel, hops) : w[1] = e}
      ends(x) == {w \in walks : w[Len(w)] = x}
  IN /\ GraphNeighbors(g, e, rel, hops) = {x \in Entities \ {e} : ends(x) # {}}
     /\ \A x \in Entities :
          LET found == ShortestPath(g, e, x, rel, hops) IN
          IF ends(x) = {} THEN found = NoPath
          ELSE found \in ends(x) /\ \A w \in ends(x) : Len(found) <= Len(w)

(* A scoped search ranks the documents of what the seeds reach and of      *)
(* nothing else, none twice, and leaves out none that is closer than one   *)
(* it gives; an export holds an edge exactly if it holds its source; and   *)
(* the neighbours with their weights are the same, heaviest first.         *)
ScopeExact(g, Entities, seeds, rel, hops, k, score) ==
  LET near == {x \in Entities : \E w \in WalksOf(g, Entities, rel, hops) :
                 w[1] \in ToSet(seeds) /\ w[Len(w)] = x}
      scoped == UNION {ToSet(Items(g, x).docs) : x \in near} \cap DOMAIN score
      out == GraphSearch(g, seeds, rel, hops, k, score)
      whole == Collected(g, ToSet(seeds), rel)
  IN /\ ToSet(out) \subseteq scoped /\ Cardinality(ToSet(out)) = Len(out)
     /\ Len(out) = IF k < Cardinality(scoped) THEN k ELSE Cardinality(scoped)
     /\ \A i \in DOMAIN out : \A d \in scoped \ {out[j] : j \in 1 .. i} : score[d] <= score[out[i]]
     /\ hops >= Cardinality(Entities) => whole.nodes = near
     /\ whole.edges = {x \in Entities \X {r : r \in
                         UNION {{y.relation : y \in ToSet(g[e].edges)} : e \in DOMAIN g}} \X Entities :
                        x[1] \in whole.nodes /\ \E y \in ToSet(OfRelation(g, x[1], rel)) :
                          y.relation = x[2] /\ y.target = x[3]}
     /\ \A e \in Entities :
          LET heavy == WeightedNeighbors(g, e, rel, k) IN
          /\ \A i \in 1 .. Len(heavy) - 1 : heavy[i][2] >= heavy[i + 1][2]
          /\ {heavy[i][1] : i \in DOMAIN heavy} \subseteq ToSet(Neighbors(g, e, rel))
          /\ Len(heavy) = Cardinality({i \in DOMAIN Items(g, e).edges :
                 Items(g, e).edges[i].weight >= k /\ Items(g, e).edges[i].relation \in
                   (IF rel = AnyRelation THEN {Items(g, e).edges[i].relation} ELSE {rel})})
=============================================================================
