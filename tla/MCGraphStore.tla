---------------------------- MODULE MCGraphStore ----------------------------
(* Instances of GraphStore for TLC. *)
EXTENDS GraphStore

CONSTANTS n1, n2, r1

(* One import: an edge each way, in batches of one. *)
OneEdge(s, t) == [src |-> s, relation |-> r1, dst |-> t]
Edge(t) == [relation |-> r1, target |-> t]
Holding(es) == [known |-> TRUE, edges |-> es, docs |-> <<>>]

(* An empty table, and two nodes that point at each other, one of them     *)
(* twice.                                                                  *)
SmallStarts == { [n \in Nodes |-> NoItem],
                 [n \in Nodes |-> IF n = n1 THEN Holding(<<Edge(n2), Edge(n1)>>)
                                  ELSE Holding(<<Edge(n1), Edge(n1)>>)] }

SmallImports == { << OneEdge(n1, n2), OneEdge(n2, n1) >> }
=============================================================================
