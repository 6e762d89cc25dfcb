------------------------- MODULE GraphStore_proofs -------------------------
(***************************************************************************)
(* What is proved of GraphStore, for any clients, nodes, tables, imports   *)
(* and bounds.                                                             *)
(***************************************************************************)
EXTENDS GraphStore, Sublists_proofs

(***************************************************************************)
(* Types.                                                                  *)
(***************************************************************************)
WriteRec == [kind: {"node", "append", "link"}, node: Nodes, edges: Seq(EdgeRec), docs: Seq(Docs)]
Writing == {"add_node", "add_edge", "link_docs", "import"}
Deleting == {"delete_edge", "delete_node"}
Steps == {"none", "write", "read", "rewrite", "scan", "next", "remove"}
CallRec == [op: Writing \cup Deleting \cup {"none"}, step: Steps,
            all: Seq(WriteRec), todo: Seq(WriteRec),
            src: Nodes \cup {None}, rel: Relations \cup {None}, dst: Nodes \cup {None},
            unscanned: SUBSET Nodes, sources: SUBSET Nodes, seen: Seq(EdgeRec),
            inner: 0 .. MaxAttempts - 1, outer: 0 .. MaxAttempts - 1]
Tallies == [Nodes -> [EdgeRec -> Nat]]

Typed ==
  /\ items \in [Nodes -> Item \cup {NoItem}]
  /\ behind \in [Nodes -> Item \cup {NoItem}]
  /\ call \in [Clients -> CallRec]
  /\ calls \in 0 .. MaxCalls /\ faults \in 0 .. MaxFaults
  /\ asked \in Tallies /\ redone \in Tallies
  /\ raced \in SUBSET Nodes

(* How far a writer is in its list. *)
Behind(k) == Len(k.all) - Len(k.todo)

(* The nodes that a write names. *)
Named(w) == {w.node} \cup {w.edges[j].target : j \in DOMAIN w.edges}

(* A list of writes makes every node before it appends to it or points at  *)
(* it.                                                                     *)
Prepared(ws) ==
  \A i \in DOMAIN ws :
    /\ ws[i].kind = "node" => ws[i].edges = << >>
    /\ ws[i].kind # "node" =>
         \A x \in Named(ws[i]) : \E j \in 1 .. i - 1 : ws[j].kind = "node" /\ ws[j].node = x

(* Where the operation of a client can be. *)
Shaped(k) ==
  /\ k.step = "none" <=> k.op = "none"
  /\ k.step = "write" <=> k.op \in Writing
  /\ k.step = "write" =>
       /\ Len(k.todo) \in 1 .. Len(k.all)
       /\ \A i \in 1 .. Len(k.todo) : k.todo[i] = k.all[Behind(k) + i]
       /\ Prepared(k.all)
  /\ k.step # "write" => k.all = << >> /\ k.todo = << >>
  /\ k.op \in {"add_node", "link_docs"} => \A i \in DOMAIN k.all : k.all[i].kind # "append"
  /\ k.op = "add_edge" =>
       /\ Len(k.all) = 3 /\ k.all[1].kind = "node" /\ k.all[2].kind = "node"
       /\ k.all[3].kind = "append" /\ Len(k.all[3].edges) = 1
  /\ k.op \in Deleting => k.dst \in Nodes
  /\ k.op = "delete_node" => k.rel = None
  /\ k.step \in {"scan", "next", "remove"} => k.op = "delete_node"
  /\ k.step \in {"read", "rewrite"} => k.src \in Nodes
  /\ k.step # "scan" => k.unscanned = {}
  /\ k.step = "remove" => k.sources = {}

(* What a writer has made is in the table, but for the nodes gone. *)
Made(k, table, gone) ==
  k.step = "write" =>
    \A j \in 1 .. Behind(k) :
      k.all[j].kind = "node" /\ k.all[j].node \notin gone => table[k.all[j].node] # NoItem

(* A delete_node and a writer that uses its node have met. *)
Crossed ==
  \A c, d \in Clients :
    call[d].op = "delete_node" /\ call[d].dst \in Uses(call[c]) => call[d].dst \in raced

(* The sources that a delete_node has still to see to. *)
Ahead(k) == k.unscanned \cup k.sources \cup (IF k.step \in {"read", "rewrite"} THEN {k.src} ELSE {})

Points(table, s, t) == \E i \in DOMAIN Lists(table[s]) : Lists(table[s])[i].target = t

Tracked(k, table, gone) ==
  k.op = "delete_node" /\ k.dst \notin gone =>
    \A s \in Nodes \ {k.dst} : Points(table, s, k.dst) => s \in Ahead(k)

Clean(table, gone) ==
  \A n \in Nodes \ gone :
    /\ table[n] # NoItem => table[n].known
    /\ table[n] = NoItem => \A s \in Nodes : ~Points(table, s, n)

GraphInv ==
  /\ Typed
  /\ \A c \in Clients :
       Shaped(call[c]) /\ Made(call[c], items, raced) /\ Tracked(call[c], items, raced)
  /\ Crossed /\ Clean(items, raced)

(* The copies of e from n that clients have still to append. *)
OwedBy(ws, from, n, e) ==
  {p \in Nat \X Nat : /\ p[1] \in DOMAIN ws /\ p[1] > from
                      /\ ws[p[1]].kind = "append" /\ ws[p[1]].node = n
                      /\ p[2] \in DOMAIN ws[p[1]].edges /\ ws[p[1]].edges[p[2]] = e}
OwedIn(k, n, e) == IF k.step = "write" THEN OwedBy(k.all, Behind(k), n, e) ELSE {}
Owed(n, e) == {q \in Clients \X (Nat \X Nat) : q[2] \in OwedIn(call[q[1]], n, e)}

Accounted ==
  \A n \in Nodes, e \in EdgeRec :
    /\ IsFiniteSet(Owed(n, e))
    /\ Copies(n, e) + Cardinality(Owed(n, e)) <= asked[n][e] + redone[n][e]

-----------------------------------------------------------------------------
(***************************************************************************)
(* The writes of an import.                                                *)
(***************************************************************************)
LEMMA EndpointsAre ==
  ASSUME NEW edges \in Seq(ImportEdge)
  PROVE  /\ Endpoints(edges) \in Seq(Nodes)
         /\ \A i \in DOMAIN edges :
              /\ \E j \in DOMAIN Endpoints(edges) : Endpoints(edges)[j] = edges[i].src
              /\ \E j \in DOMAIN Endpoints(edges) : Endpoints(edges)[j] = edges[i].dst
         /\ edges # << >> => Len(Endpoints(edges)) >= 1
<1> DEFINE n == Len(edges)
           ends == [i \in 1 .. 2 * n |-> IF i % 2 = 1 THEN edges[(i + 1) \div 2].src ELSE edges[i \div 2].dst]
<1>1. n \in Nat /\ DOMAIN edges = 1 .. n /\ \A i \in 1 .. n : edges[i].src \in Nodes /\ edges[i].dst \in Nodes
  <2>1. \A i \in DOMAIN edges : edges[i] \in ImportEdge
    BY Positions
  <2> QED  BY <2>1, Positions DEF ImportEdge
<1>2. \A i \in 1 .. 2 * n : ends[i] \in Nodes
  <2> SUFFICES ASSUME NEW i \in 1 .. 2 * n  PROVE ends[i] \in Nodes
    OBVIOUS
  <2>1. CASE i % 2 = 1
    <3>1. (i + 1) \div 2 \in 1 .. n
      BY <1>1, <2>1
    <3> QED  BY <1>1, <2>1, <3>1
  <2>2. CASE i % 2 # 1
    <3>1. i \div 2 \in 1 .. n
      BY <1>1, <2>2
    <3> QED  BY <1>1, <2>2, <3>1
  <2> QED  BY <2>1, <2>2
<1>3. \A i \in 1 .. n : /\ 2 * i \in 1 .. 2 * n /\ ends[2 * i] = edges[i].dst
                        /\ 2 * i - 1 \in 1 .. 2 * n /\ ends[2 * i - 1] = edges[i].src
  <2> SUFFICES ASSUME NEW i \in 1 .. n
               PROVE  /\ 2 * i \in 1 .. 2 * n /\ ends[2 * i] = edges[i].dst
                      /\ 2 * i - 1 \in 1 .. 2 * n /\ ends[2 * i - 1] = edges[i].src
    OBVIOUS
  <2>1. /\ 2 * i \in 1 .. 2 * n /\ (2 * i) % 2 = 0 /\ (2 * i) \div 2 = i
        /\ 2 * i - 1 \in 1 .. 2 * n /\ (2 * i - 1) % 2 = 1 /\ (2 * i - 1 + 1) \div 2 = i
    BY <1>1
  <2> QED  BY <2>1
<1>4. ends \in Seq(Nodes) /\ DOMAIN ends = 1 .. 2 * n
  <2>1. 2 * n \in Nat
    BY <1>1
  <2> QED  BY <1>2, <2>1, IsASeq
<1>5. Endpoints(edges) = Once(ends)
  BY DEF Endpoints
<1> HIDE DEF ends, n
<1>6. Once(ends) \in Seq(Nodes) /\ \A i \in 1 .. 2 * n : \E j \in DOMAIN Once(ends) : Once(ends)[j] = ends[i]
  BY <1>4, OnceListsEach
<1>7. edges # << >> => n >= 1
  BY <1>1 DEF n
<1>8. n >= 1 => \E j \in DOMAIN Once(ends) : TRUE
  <2>1. n >= 1 => 1 \in 1 .. 2 * n
    BY <1>1
  <2> QED  BY <1>6, <2>1
<1>9. Len(Once(ends)) \in Nat /\ DOMAIN Once(ends) = 1 .. Len(Once(ends))
  BY <1>6, Positions
<1>10. n >= 1 => Len(Once(ends)) >= 1
  BY <1>8, <1>9
<1>11. \A i \in 1 .. n : /\ \E j \in DOMAIN Once(ends) : Once(ends)[j] = edges[i].src
                         /\ \E j \in DOMAIN Once(ends) : Once(ends)[j] = edges[i].dst
  <2> SUFFICES ASSUME NEW i \in 1 .. n
               PROVE  /\ \E j \in DOMAIN Once(ends) : Once(ends)[j] = edges[i].src
                      /\ \E j \in DOMAIN Once(ends) : Once(ends)[j] = edges[i].dst
    OBVIOUS
  <2>1. /\ 2 * i \in 1 .. 2 * n /\ ends[2 * i] = edges[i].dst
        /\ 2 * i - 1 \in 1 .. 2 * n /\ ends[2 * i - 1] = edges[i].src
    BY <1>3
  <2>2. \E j \in DOMAIN Once(ends) : Once(ends)[j] = ends[2 * i]
    BY <1>6, <2>1
  <2>3. \E j \in DOMAIN Once(ends) : Once(ends)[j] = ends[2 * i - 1]
    BY <1>6, <2>1
  <2> QED  BY <2>1, <2>2, <2>3
<1> QED  BY <1>1, <1>5, <1>6, <1>7, <1>10, <1>11

LEMMA SourcesAre ==
  ASSUME NEW edges \in Seq(ImportEdge)
  PROVE  /\ Sources(edges) \in Seq(Nodes)
         /\ \A k \in DOMAIN Sources(edges) : \E i \in DOMAIN edges : Sources(edges)[k] = edges[i].src
         /\ \A j, k \in DOMAIN Sources(edges) : Sources(edges)[j] = Sources(edges)[k] => j = k
<1> DEFINE srcs == [i \in DOMAIN edges |-> edges[i].src]
<1>1. srcs \in Seq(Nodes) /\ DOMAIN srcs = DOMAIN edges
  <2>1. Len(edges) \in Nat /\ DOMAIN edges = 1 .. Len(edges) /\ \A i \in 1 .. Len(edges) : edges[i].src \in Nodes
    <3>1. \A i \in DOMAIN edges : edges[i] \in ImportEdge
      BY Positions
    <3> QED  BY <3>1, Positions DEF ImportEdge
  <2> QED  BY <2>1, IsASeq
<1>2. \A i \in DOMAIN edges : srcs[i] = edges[i].src
  OBVIOUS
<1>3. Sources(edges) = Once(srcs)
  BY DEF Sources
<1> HIDE DEF srcs
<1> QED  BY <1>1, <1>2, <1>3, OnceListsEach

(* Where the edges of s stand among those of an import. *)
Own(edges, s) == {i \in DOMAIN edges : edges[i].src = s}

LEMMA GroupedAre ==
  ASSUME NEW edges \in Seq(ImportEdge), NEW s
  PROVE  /\ Grouped(edges, s) \in Seq(EdgeRec)
         /\ \A k \in DOMAIN Grouped(edges, s) :
              /\ Increasing(Own(edges, s))[k] \in DOMAIN edges
              /\ edges[Increasing(Own(edges, s))[k]].src = s
              /\ Grouped(edges, s)[k] = EdgeOf(edges[Increasing(Own(edges, s))[k]])
         /\ \A j, k \in DOMAIN Grouped(edges, s) :
              Increasing(Own(edges, s))[j] = Increasing(Own(edges, s))[k] => j = k
<1> DEFINE I == Own(edges, s)
           at == Increasing(I)
           n == Cardinality(I)
           of == Picked(edges, I)
<1>1. I \in SUBSET DOMAIN edges /\ \A i \in I : edges[i].src = s
  BY DEF Own
<1>2. Grouped(edges, s) = [i \in DOMAIN of |-> EdgeOf(of[i])]
  BY DEF Grouped, Own
<1> HIDE DEF I
<1>3. /\ Numbers(at, n, I) /\ of \in Seq(ImportEdge) /\ DOMAIN of = 1 .. n
      /\ \A k \in 1 .. n : of[k] = edges[at[k]]
  BY <1>1, PickedFrom, Positions
<1>4. n \in Nat /\ (\A k \in 1 .. n : at[k] \in I) /\ \A j, k \in 1 .. n : at[j] = at[k] => j = k
  BY <1>3 DEF Numbers
<1>5. \A k \in 1 .. n : EdgeOf(of[k]) \in EdgeRec
  <2>1. \A k \in 1 .. n : of[k] \in ImportEdge
    BY <1>3, Positions
  <2> QED  BY <2>1 DEF EdgeOf, EdgeRec, ImportEdge
<1> HIDE DEF at, n, of
<1>6. Grouped(edges, s) \in Seq(EdgeRec) /\ DOMAIN Grouped(edges, s) = 1 .. n
  <2>1. Grouped(edges, s) = [i \in 1 .. n |-> EdgeOf(of[i])]
    BY <1>2, <1>3
  <2> QED  BY <1>4, <1>5, <2>1, IsASeq
<1>7. \A k \in 1 .. n : Grouped(edges, s)[k] = EdgeOf(edges[at[k]])
  BY <1>2, <1>3
<1> QED  BY <1>1, <1>4, <1>6, <1>7 DEF at, I

LEMMA EdgeWriteTyped ==
  ASSUME NEW s \in Nodes, NEW es \in Seq(EdgeRec)
  PROVE  EdgeWrite(s, es) \in WriteRec
<1>1. << >> \in Seq(Docs)
  OBVIOUS
<1> QED  BY <1>1 DEF EdgeWrite, WriteRec

LEMMA NodeWriteTyped ==
  ASSUME NEW s \in Nodes
  PROVE  NodeWrite(s) \in WriteRec
<1>1. << >> \in Seq(Docs) /\ << >> \in Seq(EdgeRec)
  OBVIOUS
<1> QED  BY <1>1 DEF NodeWrite, WriteRec

LEMMA BatchesAre ==
  ASSUME NEW edges \in Seq(ImportEdge), NEW s \in Nodes
  PROVE  /\ Batches(edges, s) \in Seq(Seq(EdgeRec))
         /\ Appends(edges, s) \in Seq(WriteRec) /\ DOMAIN Appends(edges, s) = DOMAIN Batches(edges, s)
         /\ \A b \in DOMAIN Batches(edges, s) : Appends(edges, s)[b] = EdgeWrite(s, Batches(edges, s)[b])
<1>1. Batches(edges, s) \in Seq(Seq(EdgeRec))
  BY GroupedAre, ChunkedFrom, GraphAssumption DEF Batches
<1>2. /\ Len(Batches(edges, s)) \in Nat /\ DOMAIN Batches(edges, s) = 1 .. Len(Batches(edges, s))
      /\ \A b \in DOMAIN Batches(edges, s) : EdgeWrite(s, Batches(edges, s)[b]) \in WriteRec
  BY <1>1, Positions, EdgeWriteTyped
<1>3. Appends(edges, s) = [b \in 1 .. Len(Batches(edges, s)) |-> EdgeWrite(s, Batches(edges, s)[b])]
  BY <1>2 DEF Appends
<1>4. Appends(edges, s) \in Seq(WriteRec) /\ DOMAIN Appends(edges, s) = 1 .. Len(Batches(edges, s))
  BY <1>2, <1>3, IsASeq
<1> QED  BY <1>1, <1>2, <1>3, <1>4

(* The sources of an import and their batches, in order. *)
Series(edges) == [i \in DOMAIN Sources(edges) |-> Appends(edges, Sources(edges)[i])]
Cells(edges) == Places(Series(edges))
CellAt(edges) == InOrder(Cells(edges), RowByRow(Cells(edges)))

(* The writes of an import: first a node for each endpoint, then one       *)
(* append for each batch of each source.                                   *)
LEMMA ImportWritesAre ==
  ASSUME NEW edges \in Seq(ImportEdge)
  PROVE  LET m == Len(Endpoints(edges))
             ws == ImportWrites(edges)
         IN /\ m \in Nat /\ ws \in Seq(WriteRec) /\ Len(ws) >= m
            /\ \A i \in 1 .. m : ws[i] = NodeWrite(Endpoints(edges)[i])
            /\ \A i \in DOMAIN ws : i > m =>
                 \E a \in DOMAIN Sources(edges) :
                   \E b \in DOMAIN Batches(edges, Sources(edges)[a]) :
                     /\ CellAt(edges)[i - m] = <<a, b>>
                     /\ ws[i] = EdgeWrite(Sources(edges)[a], Batches(edges, Sources(edges)[a])[b])
            /\ \A i, j \in DOMAIN ws : i > m /\ j > m /\ CellAt(edges)[i - m] = CellAt(edges)[j - m] => i = j
<1> DEFINE m == Len(Endpoints(edges))
           n == Cardinality(Cells(edges))
           nodes == [i \in DOMAIN Endpoints(edges) |-> NodeWrite(Endpoints(edges)[i])]
           tail == Joined(Series(edges))
           at == CellAt(edges)
           ws == ImportWrites(edges)
<1>1. /\ m \in Nat /\ DOMAIN Endpoints(edges) = 1 .. m
      /\ \A i \in 1 .. m : Endpoints(edges)[i] \in Nodes
  BY EndpointsAre, Positions
<1>2. nodes \in Seq(WriteRec) /\ Len(nodes) = m /\ \A i \in 1 .. m : nodes[i] = NodeWrite(Endpoints(edges)[i])
  <2>1. nodes = [i \in 1 .. m |-> NodeWrite(Endpoints(edges)[i])]
    BY <1>1
  <2>2. \A i \in 1 .. m : NodeWrite(Endpoints(edges)[i]) \in WriteRec
    BY <1>1, NodeWriteTyped
  <2> HIDE DEF nodes, m
  <2> QED  BY <1>1, <2>1, <2>2, IsASeq
<1>3. /\ Len(Sources(edges)) \in Nat /\ DOMAIN Sources(edges) = 1 .. Len(Sources(edges))
      /\ \A a \in DOMAIN Sources(edges) : Sources(edges)[a] \in Nodes
  BY SourcesAre, Positions
<1>4. \A a \in DOMAIN Sources(edges) :
        /\ Appends(edges, Sources(edges)[a]) \in Seq(WriteRec)
        /\ DOMAIN Appends(edges, Sources(edges)[a]) = DOMAIN Batches(edges, Sources(edges)[a])
        /\ \A b \in DOMAIN Batches(edges, Sources(edges)[a]) :
             Appends(edges, Sources(edges)[a])[b]
               = EdgeWrite(Sources(edges)[a], Batches(edges, Sources(edges)[a])[b])
  BY <1>3, BatchesAre
<1>5. Series(edges) \in Seq(Seq(WriteRec))
  <2>1. Series(edges) = [a \in 1 .. Len(Sources(edges)) |-> Appends(edges, Sources(edges)[a])]
    BY <1>3 DEF Series
  <2>2. \A a \in 1 .. Len(Sources(edges)) : Appends(edges, Sources(edges)[a]) \in Seq(WriteRec)
    BY <1>3, <1>4
  <2> QED  BY <1>3, <2>1, <2>2, IsASeq
<1>6. /\ Numbers(at, n, Cells(edges)) /\ tail \in Seq(WriteRec) /\ Len(tail) = n
      /\ \A k \in 1 .. n : tail[k] = Series(edges)[at[k][1]][at[k][2]]
  BY <1>5, JoinedFrom DEF Cells, CellAt
<1>7. ws = nodes \o tail
  BY DEF ImportWrites, Series
<1> HIDE DEF m, n, nodes, tail, at, ws
<1>8. /\ ws \in Seq(WriteRec) /\ Len(ws) = m + n /\ n \in Nat /\ DOMAIN ws = 1 .. m + n
      /\ \A i \in 1 .. m + n : ws[i] = IF i <= m THEN nodes[i] ELSE tail[i - m]
  <2>1. n \in Nat
    BY <1>6 DEF Numbers
  <2>2. ws \in Seq(WriteRec) /\ Len(ws) = m + n
        /\ \A i \in 1 .. m + n : ws[i] = IF i <= m THEN nodes[i] ELSE tail[i - m]
    <3>1. /\ nodes \o tail \in Seq(WriteRec) /\ Len(nodes \o tail) = Len(nodes) + Len(tail)
          /\ \A i \in 1 .. Len(nodes) + Len(tail) :
               (nodes \o tail)[i] = IF i <= Len(nodes) THEN nodes[i] ELSE tail[i - Len(nodes)]
      BY <1>2, <1>6, ConcatProperties
    <3> QED  BY <1>2, <1>6, <1>7, <3>1
  <2> QED  BY <2>1, <2>2, Positions
<1>9. ASSUME NEW i \in DOMAIN ws, i > m
      PROVE  \E a \in DOMAIN Sources(edges) :
               \E b \in DOMAIN Batches(edges, Sources(edges)[a]) :
                 /\ at[i - m] = <<a, b>>
                 /\ ws[i] = EdgeWrite(Sources(edges)[a], Batches(edges, Sources(edges)[a])[b])
  <2>1. i - m \in 1 .. n /\ ws[i] = tail[i - m]
    BY <1>1, <1>8, <1>9
  <2>2. at[i - m] \in Cells(edges)
    BY <1>6, <2>1 DEF Numbers
  <2>3. PICK a \in DOMAIN Series(edges) : \E b \in DOMAIN Series(edges)[a] : at[i - m] = <<a, b>>
    BY <2>2 DEF Cells, Places
  <2>4. PICK b \in DOMAIN Series(edges)[a] : at[i - m] = <<a, b>>
    BY <2>3
  <2>5. a \in DOMAIN Sources(edges) /\ Series(edges)[a] = Appends(edges, Sources(edges)[a])
    BY DEF Series
  <2>6. ws[i] = Series(edges)[a][b]
    BY <1>6, <2>1, <2>4
  <2> QED  BY <1>4, <2>4, <2>5, <2>6
<1>10. ASSUME NEW i \in DOMAIN ws, NEW j \in DOMAIN ws, i > m, j > m, at[i - m] = at[j - m]
       PROVE  i = j
  <2>1. i - m \in 1 .. n /\ j - m \in 1 .. n
    BY <1>1, <1>8, <1>10
  <2>2. i - m = j - m
    BY <1>6, <1>10, <2>1 DEF Numbers
  <2> QED  BY <1>1, <1>8, <2>2
<1>11. Len(ws) >= m /\ \A i \in 1 .. m : ws[i] = NodeWrite(Endpoints(edges)[i])
  BY <1>1, <1>2, <1>8
<1> QED  BY <1>1, <1>8, <1>9, <1>10, <1>11 DEF m, at, ws
LEMMA NodeWriteNames ==
  ASSUME NEW n
  PROVE  /\ Named(NodeWrite(n)) = {n} /\ NodeWrite(n).edges = << >>
         /\ NodeWrite(n).kind = "node" /\ NodeWrite(n).node = n
<1>1. DOMAIN << >> = {}
  OBVIOUS
<1> QED  BY <1>1 DEF Named, NodeWrite

LEMMA ImportPrepared ==
  ASSUME NEW edges \in Seq(ImportEdge)
  PROVE  Prepared(ImportWrites(edges))
<1> DEFINE m == Len(Endpoints(edges))
           ws == ImportWrites(edges)
<1>1. /\ m \in Nat /\ ws \in Seq(WriteRec) /\ Len(ws) >= m
      /\ \A i \in 1 .. m : ws[i] = NodeWrite(Endpoints(edges)[i])
      /\ \A i \in DOMAIN ws : i > m =>
           \E a \in DOMAIN Sources(edges) :
             \E b \in DOMAIN Batches(edges, Sources(edges)[a]) :
               ws[i] = EdgeWrite(Sources(edges)[a], Batches(edges, Sources(edges)[a])[b])
  BY ImportWritesAre
<1>2. DOMAIN ws = 1 .. Len(ws) /\ Len(ws) \in Nat
  BY <1>1, Positions
<1>3. DOMAIN Endpoints(edges) = 1 .. m
  BY EndpointsAre, Positions
<1> HIDE DEF m, ws
<1>4. SUFFICES ASSUME NEW i \in DOMAIN ws
               PROVE  /\ ws[i].kind = "node" => ws[i].edges = << >>
                      /\ ws[i].kind # "node" =>
                           \A x \in Named(ws[i]) : \E j \in 1 .. i - 1 : ws[j].kind = "node" /\ ws[j].node = x
  BY DEF Prepared, ws
<1>5. CASE i <= m
  <2>1. ws[i] = NodeWrite(Endpoints(edges)[i])
    BY <1>1, <1>2, <1>5
  <2> QED  BY <2>1, NodeWriteNames
<1>6. CASE i > m
  <2>0. PICK a \in DOMAIN Sources(edges) :
          \E b \in DOMAIN Batches(edges, Sources(edges)[a]) :
            ws[i] = EdgeWrite(Sources(edges)[a], Batches(edges, Sources(edges)[a])[b])
    BY <1>1, <1>6
  <2>1. PICK b \in DOMAIN Batches(edges, Sources(edges)[a]) :
          ws[i] = EdgeWrite(Sources(edges)[a], Batches(edges, Sources(edges)[a])[b])
    BY <2>0
  <2> DEFINE s == Sources(edges)[a]
             es == Batches(edges, s)[b]
  <2>2. ws[i].kind = "append" /\ ws[i].node = s /\ ws[i].edges = es
    BY <2>1 DEF EdgeWrite
  <2>3. PICK k \in DOMAIN edges : s = edges[k].src
    BY SourcesAre
  <2>4. ASSUME NEW x \in Named(ws[i])  PROVE \E k2 \in DOMAIN edges : x = edges[k2].src \/ x = edges[k2].dst
    <3>1. CASE x = s
      BY <2>3, <3>1
    <3>2. CASE x # s
      <4>1. PICK j \in DOMAIN es : x = es[j].target
        BY <2>2, <2>4, <3>2 DEF Named
      <4> DEFINE p == (b - 1) * BatchSize + j
      <4>2. p \in DOMAIN Grouped(edges, s) /\ es[j] = Grouped(edges, s)[p]
        BY GroupedAre, ChunkedFrom, GraphAssumption DEF Batches
      <4> HIDE DEF p, es, s
      <4>3. PICK k2 \in DOMAIN edges : Grouped(edges, s)[p] = EdgeOf(edges[k2])
        BY <4>2, GroupedAre
      <4>4. x = edges[k2].dst
        BY <4>1, <4>2, <4>3 DEF EdgeOf
      <4> QED  BY <4>4
    <3> QED  BY <3>1, <3>2
  <2>5. ASSUME NEW x \in Named(ws[i])  PROVE \E j \in 1 .. i - 1 : ws[j].kind = "node" /\ ws[j].node = x
    <3>1. PICK k2 \in DOMAIN edges : x = edges[k2].src \/ x = edges[k2].dst
      BY <2>4, <2>5
    <3>2. PICK j \in DOMAIN Endpoints(edges) : Endpoints(edges)[j] = x
      BY <3>1, EndpointsAre
    <3>3. j \in 1 .. m /\ j \in 1 .. i - 1
      BY <1>1, <1>2, <1>3, <1>6
    <3>4. ws[j] = NodeWrite(x)
      BY <1>1, <3>2, <3>3
    <3> QED  BY <3>3, <3>4, NodeWriteNames
  <2> QED  BY <2>2, <2>5
<1> QED  BY <1>1, <1>2, <1>5, <1>6

(* An import appends no edge more often than its list has it.              *)
LEMMA ImportOwes ==
  ASSUME NEW edges \in Seq(ImportEdge), NEW n \in Nodes, NEW e \in EdgeRec
  PROVE  /\ IsFiniteSet(OwedBy(ImportWrites(edges), 0, n, e))
         /\ Cardinality(OwedBy(ImportWrites(edges), 0, n, e)) <= Wanted(edges, n, e)
<1> DEFINE m == Len(Endpoints(edges))
           ws == ImportWrites(edges)
           at == CellAt(edges)
           O == OwedBy(ws, 0, n, e)
           W == {i \in DOMAIN edges : edges[i].src = n /\ EdgeOf(edges[i]) = e}
           inc == Increasing(Own(edges, n))
           place(p) == (at[p[1] - m][2] - 1) * BatchSize + p[2]
           f == [p \in O |-> inc[place(p)]]
<1>1. /\ m \in Nat
      /\ \A i \in 1 .. m : ws[i] = NodeWrite(Endpoints(edges)[i])
      /\ \A i \in DOMAIN ws : i > m =>
           \E a \in DOMAIN Sources(edges) :
             \E b \in DOMAIN Batches(edges, Sources(edges)[a]) :
               /\ at[i - m] = <<a, b>>
               /\ ws[i] = EdgeWrite(Sources(edges)[a], Batches(edges, Sources(edges)[a])[b])
      /\ \A i, j \in DOMAIN ws : i > m /\ j > m /\ at[i - m] = at[j - m] => i = j
  BY ImportWritesAre
<1>2. /\ Grouped(edges, n) \in Seq(EdgeRec)
      /\ \A k \in DOMAIN Grouped(edges, n) :
           /\ inc[k] \in DOMAIN edges /\ edges[inc[k]].src = n
           /\ Grouped(edges, n)[k] = EdgeOf(edges[inc[k]])
      /\ \A j, k \in DOMAIN Grouped(edges, n) : inc[j] = inc[k] => j = k
  BY GroupedAre
<1>3. \A b \in DOMAIN Batches(edges, n) : \A j \in DOMAIN Batches(edges, n)[b] :
        /\ j \in 1 .. BatchSize /\ b \in Nat \ {0} /\ (b - 1) * BatchSize + j \in DOMAIN Grouped(edges, n)
        /\ Batches(edges, n)[b][j] = Grouped(edges, n)[(b - 1) * BatchSize + j]
  BY <1>2, ChunkedFrom, GraphAssumption DEF Batches
<1> HIDE DEF m, ws, at, inc
<1>4. ASSUME NEW p \in O
      PROVE  /\ p = <<p[1], p[2]>> /\ p[1] \in DOMAIN ws /\ p[1] > m /\ p[1] \in Nat
             /\ \E a \in DOMAIN Sources(edges) : Sources(edges)[a] = n /\ at[p[1] - m] = <<a, at[p[1] - m][2]>>
             /\ at[p[1] - m][2] \in DOMAIN Batches(edges, n)
             /\ p[2] \in DOMAIN Batches(edges, n)[at[p[1] - m][2]]
             /\ Batches(edges, n)[at[p[1] - m][2]][p[2]] = e
  <2>1. /\ p = <<p[1], p[2]>> /\ p[1] \in DOMAIN ws /\ p[1] > 0 /\ p[1] \in Nat
        /\ ws[p[1]].kind = "append" /\ ws[p[1]].node = n
        /\ p[2] \in DOMAIN ws[p[1]].edges /\ ws[p[1]].edges[p[2]] = e
    BY <1>4 DEF OwedBy
  <2>2. p[1] > m
    <3>1. p[1] \in 1 .. m => ws[p[1]].kind = "node"
      BY <1>1, NodeWriteNames
    <3> QED  BY <1>1, <2>1, <3>1
  <2>0. PICK a \in DOMAIN Sources(edges) :
          \E b \in DOMAIN Batches(edges, Sources(edges)[a]) :
            /\ at[p[1] - m] = <<a, b>>
            /\ ws[p[1]] = EdgeWrite(Sources(edges)[a], Batches(edges, Sources(edges)[a])[b])
    BY <1>1, <2>1, <2>2
  <2>3. PICK b \in DOMAIN Batches(edges, Sources(edges)[a]) :
          /\ at[p[1] - m] = <<a, b>>
          /\ ws[p[1]] = EdgeWrite(Sources(edges)[a], Batches(edges, Sources(edges)[a])[b])
    BY <2>0
  <2>4. ws[p[1]].node = Sources(edges)[a] /\ ws[p[1]].edges = Batches(edges, Sources(edges)[a])[b]
    BY <2>3 DEF EdgeWrite
  <2>5. Sources(edges)[a] = n /\ at[p[1] - m][2] = b
    BY <2>1, <2>3, <2>4
  <2> QED  BY <2>1, <2>2, <2>3, <2>4, <2>5
<1>5. ASSUME NEW p \in O
      PROVE  /\ p[2] \in 1 .. BatchSize /\ at[p[1] - m][2] \in Nat \ {0}
             /\ place(p) \in DOMAIN Grouped(edges, n) /\ inc[place(p)] \in W
  <2>1. /\ p[2] \in 1 .. BatchSize /\ at[p[1] - m][2] \in Nat \ {0} /\ place(p) \in DOMAIN Grouped(edges, n)
        /\ e = Grouped(edges, n)[place(p)]
    BY <1>3, <1>4, <1>5
  <2> HIDE DEF place
  <2> QED  BY <1>2, <2>1
<1>6. ASSUME NEW p \in O, NEW q \in O, inc[place(p)] = inc[place(q)]
      PROVE  p = q
  <2>1. place(p) = place(q)
    <3> HIDE DEF place
    <3> QED  BY <1>2, <1>5, <1>6
  <2>2. at[p[1] - m][2] = at[q[1] - m][2] /\ p[2] = q[2]
    <3> DEFINE b == at[p[1] - m][2]
               c == at[q[1] - m][2]
               j == p[2]
               l == q[2]
    <3>1. (b - 1) * BatchSize + j = (c - 1) * BatchSize + l
      BY <2>1
    <3>2. b \in Nat \ {0} /\ c \in Nat \ {0} /\ j \in 1 .. BatchSize /\ l \in 1 .. BatchSize
      BY <1>5, <1>6
    <3> HIDE DEF b, c, j, l
    <3>3. b = c /\ j = l
      BY <3>1, <3>2, GraphAssumption, PiecesApart
    <3> QED  BY <3>3 DEF b, c, j, l
  <2>3. PICK a \in DOMAIN Sources(edges) : Sources(edges)[a] = n /\ at[p[1] - m] = <<a, at[p[1] - m][2]>>
    BY <1>4, <1>6
  <2>4. PICK c \in DOMAIN Sources(edges) : Sources(edges)[c] = n /\ at[q[1] - m] = <<c, at[q[1] - m][2]>>
    BY <1>4, <1>6
  <2>5. a = c
    BY <2>3, <2>4, SourcesAre
  <2>6. p[1] = q[1]
    BY <1>1, <1>4, <1>6, <2>2, <2>3, <2>4, <2>5
  <2> QED  BY <1>4, <1>6, <2>2, <2>6
<1>7. f \in [O -> W] /\ \A p, q \in O : f[p] = f[q] => p = q
  <2> HIDE DEF place, O, W
  <2> QED  BY <1>5, <1>6
<1>8. IsFiniteSet(W)
  <2>1. W \in SUBSET DOMAIN edges
    OBVIOUS
  <2> QED  BY <2>1, Positions, FS_Subset
<1> HIDE DEF f, O, W
<1>9. IsFiniteSet(O) /\ Cardinality(O) <= Cardinality(W)
  BY <1>7, <1>8, NoLarger
<1> QED  BY <1>9 DEF O, W, ws, Wanted
-----------------------------------------------------------------------------
(* The lists of writes that operations begin with, and what their callers  *)
(* asked for.                                                              *)
WellMade(op, ws, edges) ==
  /\ op \in Writing /\ ws \in Seq(WriteRec) /\ Len(ws) >= 1 /\ Prepared(ws)
  /\ op \in {"add_node", "link_docs"} => \A i \in DOMAIN ws : ws[i].kind # "append"
  /\ op = "add_edge" => /\ Len(ws) = 3 /\ ws[1].kind = "node" /\ ws[2].kind = "node"
                        /\ ws[3].kind = "append" /\ Len(ws[3].edges) = 1
  /\ \A n \in Nodes, e \in EdgeRec :
       /\ IsFiniteSet(OwedBy(ws, 0, n, e)) /\ Wanted(edges, n, e) \in Nat
       /\ Cardinality(OwedBy(ws, 0, n, e)) <= Wanted(edges, n, e)

LEMMA WantedFinite ==
  ASSUME NEW edges \in Seq(ImportEdge), NEW n, NEW e
  PROVE  /\ Wanted(edges, n, e) \in Nat
         /\ IsFiniteSet({i \in DOMAIN edges : edges[i].src = n /\ EdgeOf(edges[i]) = e})
<1> DEFINE W == {i \in DOMAIN edges : edges[i].src = n /\ EdgeOf(edges[i]) = e}
<1>1. W \in SUBSET DOMAIN edges
  OBVIOUS
<1>2. IsFiniteSet(W)
  BY <1>1, Positions, FS_Subset
<1> QED  BY <1>2, FS_CardinalityType DEF Wanted

LEMMA NoneOwed ==
  ASSUME NEW ws, \A i \in DOMAIN ws : ws[i].kind # "append",
         NEW edges \in Seq(ImportEdge), NEW n, NEW e
  PROVE  /\ IsFiniteSet(OwedBy(ws, 0, n, e)) /\ Wanted(edges, n, e) \in Nat
         /\ Cardinality(OwedBy(ws, 0, n, e)) <= Wanted(edges, n, e)
<1>1. OwedBy(ws, 0, n, e) = {}
  BY DEF OwedBy
<1>2. IsFiniteSet(OwedBy(ws, 0, n, e)) /\ Cardinality(OwedBy(ws, 0, n, e)) = 0
  BY <1>1, FS_EmptySet
<1>3. Wanted(edges, n, e) \in Nat
  BY WantedFinite
<1> QED  BY <1>2, <1>3

LEMMA AddNodeMade ==
  ASSUME NEW n \in Nodes
  PROVE  WellMade("add_node", << NodeWrite(n) >>, << >>)
<1> DEFINE w == NodeWrite(n)
           ws == << w >>
<1>1. w \in WriteRec /\ w.kind = "node" /\ w.edges = << >>
  BY NodeWriteTyped, NodeWriteNames
<1> HIDE DEF w
<1>2. ws \in Seq(WriteRec) /\ Len(ws) = 1 /\ DOMAIN ws = {1} /\ ws[1] = w
  BY <1>1
<1> HIDE DEF ws
<1>3. Prepared(ws) /\ \A i \in DOMAIN ws : ws[i].kind # "append"
  BY <1>1, <1>2 DEF Prepared
<1>4. << >> \in Seq(ImportEdge)
  OBVIOUS
<1>5. WellMade("add_node", ws, << >>)
  <2>1. \A m \in Nodes, e \in EdgeRec :
          /\ IsFiniteSet(OwedBy(ws, 0, m, e)) /\ Wanted(<< >>, m, e) \in Nat
          /\ Cardinality(OwedBy(ws, 0, m, e)) <= Wanted(<< >>, m, e)
    BY <1>3, <1>4, NoneOwed
  <2> QED  BY <1>2, <1>3, <2>1 DEF WellMade, Writing
<1> QED  BY <1>5 DEF ws, w

LEMMA LinkDocsMade ==
  ASSUME NEW n \in Nodes, NEW ds \in Seq(Docs)
  PROVE  WellMade("link_docs", LinkDocsWrites(n, ds), << >>)
<1> DEFINE ws == LinkDocsWrites(n, ds)
           v == NodeWrite(n)
           w == DocsWrite(n, ds)
<1>1. v \in WriteRec /\ v.kind = "node" /\ v.node = n /\ v.edges = << >>
  BY NodeWriteTyped, NodeWriteNames
<1>2. w \in WriteRec /\ w.kind = "link" /\ w.node = n /\ w.edges = << >>
  <2>1. << >> \in Seq(EdgeRec)
    OBVIOUS
  <2> QED  BY <2>1 DEF DocsWrite, WriteRec
<1>3. ws = << v, w >>
  BY DEF LinkDocsWrites
<1> HIDE DEF v, w, ws
<1>4. ws \in Seq(WriteRec) /\ Len(ws) = 2 /\ DOMAIN ws = {1, 2} /\ ws[1] = v /\ ws[2] = w
  BY <1>1, <1>2, <1>3
<1>5. \A x \in Named(w) : x = n
  <2>1. DOMAIN w.edges = {}
    BY <1>2
  <2> QED  BY <1>2, <2>1 DEF Named
<1>6. 1 \in 1 .. 2 - 1
  OBVIOUS
<1>7. Prepared(ws)
  BY <1>1, <1>2, <1>4, <1>5, <1>6 DEF Prepared
<1>8. \A i \in DOMAIN ws : ws[i].kind # "append"
  BY <1>1, <1>2, <1>4
<1>9. << >> \in Seq(ImportEdge)
  OBVIOUS
<1>10. WellMade("link_docs", ws, << >>)
  <2>1. \A m \in Nodes, e \in EdgeRec :
          /\ IsFiniteSet(OwedBy(ws, 0, m, e)) /\ Wanted(<< >>, m, e) \in Nat
          /\ Cardinality(OwedBy(ws, 0, m, e)) <= Wanted(<< >>, m, e)
    BY <1>8, <1>9, NoneOwed
  <2> QED  BY <1>4, <1>7, <1>8, <2>1 DEF WellMade, Writing
<1> QED  BY <1>10 DEF ws

LEMMA AddEdgeMade ==
  ASSUME NEW s \in Nodes, NEW r \in Relations, NEW t \in Nodes
  PROVE  WellMade("add_edge", AddEdgeWrites(s, r, t), << [src |-> s, relation |-> r, dst |-> t] >>)
<1> DEFINE ws == AddEdgeWrites(s, r, t)
           edge == [relation |-> r, target |-> t]
           one == [src |-> s, relation |-> r, dst |-> t]
           edges == << one >>
           u == NodeWrite(s)
           v == NodeWrite(t)
           w == EdgeWrite(s, << edge >>)
<1>1. /\ u \in WriteRec /\ u.kind = "node" /\ u.node = s /\ u.edges = << >>
      /\ v \in WriteRec /\ v.kind = "node" /\ v.node = t /\ v.edges = << >>
  BY NodeWriteTyped, NodeWriteNames
<1>2. edge \in EdgeRec /\ edge.target = t /\ one \in ImportEdge /\ one.src = s /\ EdgeOf(one) = edge
  BY DEF EdgeRec, ImportEdge, EdgeOf
<1> HIDE DEF edge, one
<1>3. << edge >> \in Seq(EdgeRec) /\ Len(<< edge >>) = 1 /\ DOMAIN << edge >> = {1} /\ << edge >>[1] = edge
  BY <1>2
<1>4. edges \in Seq(ImportEdge) /\ DOMAIN edges = {1} /\ edges[1] = one
  BY <1>2
<1>5. w \in WriteRec /\ w.kind = "append" /\ w.node = s /\ w.edges = << edge >>
  BY <1>3, EdgeWriteTyped DEF EdgeWrite
<1>6. ws = << u, v, w >>
  BY DEF AddEdgeWrites, edge
<1> HIDE DEF u, v, w, ws, edges
<1>7. ws \in Seq(WriteRec) /\ Len(ws) = 3 /\ DOMAIN ws = {1, 2, 3} /\ ws[1] = u /\ ws[2] = v /\ ws[3] = w
  BY <1>1, <1>5, <1>6
<1>8. \A x \in Named(w) : x = s \/ x = t
  BY <1>2, <1>3, <1>5 DEF Named
<1>9. 1 \in 1 .. 3 - 1 /\ 2 \in 1 .. 3 - 1
  OBVIOUS
<1>10. Prepared(ws)
  BY <1>1, <1>5, <1>7, <1>8, <1>9 DEF Prepared
<1>11. ASSUME NEW n \in Nodes, NEW e \in EdgeRec
       PROVE  /\ IsFiniteSet(OwedBy(ws, 0, n, e)) /\ Wanted(edges, n, e) \in Nat
              /\ Cardinality(OwedBy(ws, 0, n, e)) <= Wanted(edges, n, e)
  <2> DEFINE O == OwedBy(ws, 0, n, e)
             W == {i \in DOMAIN edges : edges[i].src = n /\ EdgeOf(edges[i]) = e}
             f == [p \in O |-> 1]
  <2>1. \A p \in O : p = <<3, 1>> /\ n = s /\ e = edge
    <3> SUFFICES ASSUME NEW p \in O  PROVE p = <<3, 1>> /\ n = s /\ e = edge
      OBVIOUS
    <3>1. /\ p = <<p[1], p[2]>> /\ p[1] \in DOMAIN ws /\ ws[p[1]].kind = "append" /\ ws[p[1]].node = n
          /\ p[2] \in DOMAIN ws[p[1]].edges /\ ws[p[1]].edges[p[2]] = e
      BY DEF OwedBy
    <3>2. p[1] = 3
      BY <1>1, <1>7, <3>1
    <3>3. p[2] = 1 /\ n = s /\ e = edge
      BY <1>3, <1>5, <1>7, <3>1, <3>2
    <3> QED  BY <3>1, <3>2, <3>3
  <2> HIDE DEF O
  <2>2. f \in [O -> W]
    BY <1>2, <1>4, <2>1
  <2>3. \A p, q \in O : f[p] = f[q] => p = q
    BY <2>1
  <2>4. IsFiniteSet(W)
    BY <1>4, WantedFinite
  <2> HIDE DEF W, f
  <2>5. IsFiniteSet(O) /\ Cardinality(O) <= Cardinality(W)
    BY <2>2, <2>3, <2>4, NoLarger
  <2> QED  BY <1>4, <2>5, WantedFinite DEF O, W, Wanted
<1>12. WellMade("add_edge", ws, edges)
  <2>1. /\ ws[1].kind = "node" /\ ws[2].kind = "node" /\ ws[3].kind = "append"
        /\ Len(ws[3].edges) = 1 /\ Len(ws) = 3 /\ ws \in Seq(WriteRec)
    BY <1>1, <1>3, <1>5, <1>7
  <2> QED  BY <1>10, <1>11, <2>1 DEF WellMade, Writing
<1> QED  BY <1>12 DEF ws, edges, one

LEMMA ImportMade ==
  ASSUME NEW edges \in Imports
  PROVE  WellMade("import", ImportWrites(edges), edges)
<1>1. edges \in Seq(ImportEdge) /\ edges # << >>
  BY ImportsAssumption
<1>2. ImportWrites(edges) \in Seq(WriteRec) /\ Len(ImportWrites(edges)) >= 1
  BY <1>1, ImportWritesAre, EndpointsAre
<1> QED  BY <1>1, <1>2, ImportPrepared, ImportOwes, WantedFinite DEF WellMade, Writing
-----------------------------------------------------------------------------
(***************************************************************************)
(* Calls and what their requests do.                                       *)
(***************************************************************************)
LEMMA IdleShaped == Idle \in CallRec /\ Shaped(Idle) /\ Uses(Idle) = {}
<1>1. Idle \in CallRec
  BY GraphAssumption DEF Idle, CallRec, Steps
<1>2. Idle.all = << >> /\ Idle.todo = << >> /\ Idle.op = "none" /\ Idle.step = "none"
      /\ Idle.unscanned = {} /\ Idle.sources = {}
  BY DEF Idle
<1>3. Shaped(Idle)
  BY <1>2 DEF Shaped, Writing, Deleting
<1>4. ToSet(Idle.all) = {}
  BY <1>2 DEF ToSet
<1> QED  BY <1>1, <1>3, <1>4 DEF Uses

LEMMA UsesNamed ==
  ASSUME NEW k \in CallRec
  PROVE  \A x : x \in Uses(k) <=> \E i \in DOMAIN k.all : x \in Named(k.all[i])
BY DEF Uses, Named, ToSet

LEMMA NamedNodes ==
  ASSUME NEW w \in WriteRec
  PROVE  Named(w) \subseteq Nodes
<1>1. \A j \in DOMAIN w.edges : w.edges[j] \in EdgeRec
  BY Positions DEF WriteRec
<1> QED  BY <1>1 DEF Named, WriteRec, EdgeRec

(* What a write leaves in its item. *)
LEMMA AppliedIs ==
  ASSUME Typed, NEW w \in WriteRec
  PROVE  /\ Applied(w) \in Item
         /\ Applied(w).edges = IF w.kind = "append" THEN Lists(items[w.node]) \o w.edges
                               ELSE Lists(items[w.node])
         /\ w.kind = "node" => Applied(w).known
         /\ items[w.node] # NoItem /\ items[w.node].known => Applied(w).known
<1> DEFINE item == Stored(w.node)
<1>1. w.node \in Nodes /\ items[w.node] \in Item \cup {NoItem} /\ w.edges \in Seq(EdgeRec) /\ w.docs \in Seq(Docs)
      /\ w.kind \in {"node", "append", "link"}
  BY DEF Typed, WriteRec
<1>2. BareItem \in Item /\ BareItem.edges = << >>
  <2>1. << >> \in Seq(EdgeRec) /\ << >> \in Seq(Docs)
    OBVIOUS
  <2> QED  BY <2>1 DEF BareItem, Item
<1>3. /\ item \in Item /\ item.edges = Lists(items[w.node])
      /\ items[w.node] # NoItem => item = items[w.node]
  BY <1>1, <1>2 DEF Stored, Lists
<1> HIDE DEF item
<1>4. /\ item.edges \in Seq(EdgeRec) /\ item.docs \in Seq(Docs) /\ item.known \in BOOLEAN
      /\ item.edges \o w.edges \in Seq(EdgeRec) /\ item.docs \o w.docs \in Seq(Docs)
  BY <1>1, <1>3, ConcatProperties DEF Item
<1>5. CASE w.kind = "node"
  <2>1. Applied(w) = [item EXCEPT !.known = TRUE]
    BY <1>5 DEF Applied, item
  <2> QED  BY <1>3, <1>4, <1>5, <2>1 DEF Item
<1>6. CASE w.kind = "append"
  <2>1. Applied(w) = [item EXCEPT !.edges = item.edges \o w.edges]
    BY <1>6 DEF Applied, item
  <2> QED  BY <1>3, <1>4, <1>6, <2>1 DEF Item
<1>7. CASE w.kind = "link"
  <2>1. Applied(w) = [item EXCEPT !.docs = item.docs \o w.docs]
    BY <1>7 DEF Applied, item
  <2> QED  BY <1>3, <1>4, <1>7, <2>1 DEF Item
<1> QED  BY <1>1, <1>5, <1>6, <1>7

(* The next write of a writer.  What it appends to or points at is there.  *)
LEMMA HeadIs ==
  ASSUME GraphInv, NEW c \in Clients, call[c].step = "write"
  PROVE  LET k == call[c]
             w == Head(k.todo)
             b == Behind(k)
         IN /\ b \in Nat /\ Len(k.all) \in Nat /\ Len(k.todo) \in Nat /\ Len(k.todo) >= 1
            /\ b + 1 \in DOMAIN k.all /\ w = k.all[b + 1] /\ w \in WriteRec
            /\ Named(w) \subseteq Uses(k) /\ Named(w) \subseteq Nodes /\ w.node \in Named(w)
            /\ w.kind = "node" => w.edges = << >>
            /\ w.kind # "node" => \A x \in Named(w) : x \in raced \/ items[x] # NoItem
<1> DEFINE k == call[c]
           w == Head(k.todo)
           b == Behind(k)
<1>1. /\ k \in CallRec /\ k.all \in Seq(WriteRec) /\ k.todo \in Seq(WriteRec)
      /\ Shaped(k) /\ Made(k, items, raced) /\ k.step = "write"
  BY DEF GraphInv, Typed, CallRec
<1> HIDE DEF k
<1>2. /\ Len(k.all) \in Nat /\ DOMAIN k.all = 1 .. Len(k.all) /\ Len(k.todo) \in 1 .. Len(k.all)
      /\ \A i \in 1 .. Len(k.todo) : k.todo[i] = k.all[Behind(k) + i]
      /\ Prepared(k.all)
      /\ \A i \in DOMAIN k.all : k.all[i] \in WriteRec
  BY <1>1, Positions DEF Shaped
<1>3. b \in Nat /\ b + 1 \in DOMAIN k.all /\ b = Len(k.all) - Len(k.todo)
  <2>1. Len(k.all) \in Nat /\ DOMAIN k.all = 1 .. Len(k.all) /\ Len(k.todo) \in 1 .. Len(k.all)
    BY <1>2
  <2>2. b = Len(k.all) - Len(k.todo)
    BY DEF Behind
  <2> DEFINE m == Len(k.all)
             n == Len(k.todo)
  <2>3. m \in Nat /\ n \in 1 .. m /\ b = m - n
    BY <2>1, <2>2
  <2> HIDE DEF b, m, n
  <2>4. b \in Nat /\ b + 1 \in 1 .. m
    BY <2>3
  <2>5. b + 1 \in DOMAIN k.all /\ b = Len(k.all) - Len(k.todo)
    BY <2>1, <2>2, <2>4 DEF m
  <2> QED  BY <2>4, <2>5
<1>4. w = k.all[b + 1]
  <2>1. k.todo # << >>
    BY <1>1, <1>2
  <2>2. w = k.todo[1]
    BY <1>1, <2>1
  <2> QED  BY <1>2, <2>2
<1> HIDE DEF w, b
<1>5. w \in WriteRec
  BY <1>2, <1>3, <1>4
<1>6. Named(w) \subseteq Uses(k) /\ Named(w) \subseteq Nodes /\ w.node \in Named(w)
  <2>1. \A x \in Named(w) : x \in Uses(k)
    BY <1>1, <1>3, <1>4, UsesNamed
  <2>2. Named(w) \subseteq Nodes
    BY <1>5, NamedNodes
  <2>3. w.node \in Named(w)
    BY DEF Named
  <2> QED  BY <2>1, <2>2, <2>3
<1>7. /\ w.kind = "node" => w.edges = << >>
      /\ w.kind # "node" =>
           \A x \in Named(w) : \E j \in 1 .. b : k.all[j].kind = "node" /\ k.all[j].node = x
  <2> DEFINE ws == k.all
             i == b + 1
  <2>1. i \in DOMAIN ws /\ Prepared(ws)
    BY <1>2, <1>3
  <2>2. i - 1 = b
    BY <1>3
  <2>3. w = ws[i]
    BY <1>4
  <2> HIDE DEF ws, i
  <2>4. /\ w.kind = "node" => w.edges = << >>
        /\ w.kind # "node" =>
             \A x \in Named(w) : \E j \in 1 .. i - 1 : ws[j].kind = "node" /\ ws[j].node = x
    BY <2>1, <2>3 DEF Prepared
  <2>5. /\ w.kind = "node" => w.edges = << >>
        /\ w.kind # "node" =>
             \A x \in Named(w) : \E j \in 1 .. b : ws[j].kind = "node" /\ ws[j].node = x
    BY <2>2, <2>4
  <2> QED  BY <2>5 DEF ws
<1>8. w.kind # "node" => \A x \in Named(w) : x \in raced \/ items[x] # NoItem
  <2>1. \A j \in 1 .. b : k.all[j].kind = "node" /\ k.all[j].node \notin raced => items[k.all[j].node] # NoItem
    BY <1>1 DEF Made, b
  <2> QED  BY <1>7, <2>1
<1>9. Len(k.todo) \in Nat /\ Len(k.todo) >= 1
  BY <1>2
<1>10. /\ b \in Nat /\ Len(k.all) \in Nat /\ Len(k.todo) \in Nat /\ Len(k.todo) >= 1
       /\ b + 1 \in DOMAIN k.all /\ w = k.all[b + 1] /\ w \in WriteRec
       /\ Named(w) \subseteq Uses(k) /\ Named(w) \subseteq Nodes /\ w.node \in Named(w)
       /\ w.kind = "node" => w.edges = << >>
       /\ w.kind # "node" => \A x \in Named(w) : x \in raced \/ items[x] # NoItem
  BY <1>2, <1>3, <1>4, <1>5, <1>6, <1>7, <1>8, <1>9
<1> QED  BY <1>10 DEF k, w, b

(* What is kept of a list. *)
LEMMA KeptIs ==
  ASSUME NEW k \in CallRec
  PROVE  /\ Kept(k) \in Seq(EdgeRec)
         /\ \A i \in DOMAIN Kept(k) : ~Matches(k, Kept(k)[i]) /\ \E j \in DOMAIN k.seen : Kept(k)[i] = k.seen[j]
         /\ \A e : Count(Kept(k), e) <= Count(k.seen, e)
         /\ \A e : ~Matches(k, e) => Count(Kept(k), e) = Count(k.seen, e)
<1> DEFINE I == {i \in DOMAIN k.seen : ~Matches(k, k.seen[i])}
<1>1. k.seen \in Seq(EdgeRec) /\ I \in SUBSET DOMAIN k.seen
  BY DEF CallRec
<1>2. \A i \in I : ~Matches(k, k.seen[i])
  OBVIOUS
<1>3. \A e : ~Matches(k, e) => \A i \in DOMAIN k.seen : k.seen[i] = e => i \in I
  OBVIOUS
<1>4. Kept(k) = Picked(k.seen, I)
  BY DEF Kept
<1> HIDE DEF I
<1>5. Kept(k) \in Seq(EdgeRec)
  BY <1>1, <1>4, PickedFrom
<1>6. \A i \in DOMAIN Kept(k) : \E j \in I : Kept(k)[i] = k.seen[j]
  BY <1>1, <1>4, PickedElements
<1>7. \A e : /\ Count(Kept(k), e) <= Count(k.seen, e)
             /\ (\A i \in DOMAIN k.seen : k.seen[i] = e => i \in I) => Count(Kept(k), e) = Count(k.seen, e)
  <2> SUFFICES ASSUME NEW e
               PROVE  /\ Count(Kept(k), e) <= Count(k.seen, e)
                      /\ (\A i \in DOMAIN k.seen : k.seen[i] = e => i \in I) =>
                           Count(Kept(k), e) = Count(k.seen, e)
    OBVIOUS
  <2>1. Count(Picked(k.seen, I), e) <= Count(k.seen, e)
    BY <1>1, PickedCount
  <2>2. (\A i \in DOMAIN k.seen : k.seen[i] = e => i \in I) =>
          Count(Picked(k.seen, I), e) = Count(k.seen, e)
    BY <1>1, PickedCount
  <2> QED  BY <1>4, <2>1, <2>2
<1>8. I \subseteq DOMAIN k.seen
  BY <1>1
<1>9. /\ \A i \in DOMAIN Kept(k) : ~Matches(k, Kept(k)[i]) /\ \E j \in DOMAIN k.seen : Kept(k)[i] = k.seen[j]
  BY <1>2, <1>6, <1>8
<1> QED  BY <1>3, <1>5, <1>7, <1>9

(* After a failed request the call is over, or it repeats the request, or  *)
(* it begins again.                                                        *)
LEMMA FailureIs ==
  ASSUME NEW k \in CallRec, Shaped(k), InRequest(k)
  PROVE  LET f == AfterFailure(k)
         IN /\ f \in CallRec /\ Shaped(f)
            /\ f = Idle \/ (f.op = k.op /\ f.all = k.all /\ f.dst = k.dst /\ f.step # "none"
                            /\ (k.step = "write" <=> f.step = "write") /\ Ahead(k) \subseteq Ahead(f)
                            /\ (f.todo = k.todo \/ (f.todo = k.all /\ k.op \notin {"add_node", "import"})))
<1> DEFINE f == AfterFailure(k)
<1>1. f = Idle \/ (f = Again(k) /\ k.inner + 1 < MaxAttempts)
      \/ (f = FromTheStart(k) /\ WrappedInRetry(k) /\ k.outer + 1 < MaxAttempts)
  BY DEF AfterFailure
<1>2. CASE f = Idle
  BY <1>2, IdleShaped
<1>3. CASE f = Again(k) /\ k.inner + 1 < MaxAttempts
  <2>1. k.inner + 1 \in 0 .. MaxAttempts - 1
    BY <1>3, GraphAssumption DEF CallRec
  <2>2. /\ f \in CallRec /\ f.op = k.op /\ f.all = k.all /\ f.todo = k.todo /\ f.dst = k.dst /\ f.src = k.src
        /\ f.rel = k.rel /\ f.step = k.step
        /\ IF k.step = "scan" THEN f.unscanned = Nodes /\ f.sources = {}
           ELSE f.unscanned = k.unscanned /\ f.sources = k.sources
    <3>1. k.step = "scan" => f = [k EXCEPT !.inner = k.inner + 1, !.unscanned = Nodes, !.sources = {}]
      BY <1>3 DEF Again
    <3>2. k.step # "scan" => f = [k EXCEPT !.inner = k.inner + 1]
      BY <1>3 DEF Again
    <3> HIDE DEF f
    <3>3. CASE k.step = "scan"
      BY <2>1, <3>1, <3>3 DEF CallRec
    <3>4. CASE k.step # "scan"
      BY <2>1, <3>2, <3>4 DEF CallRec
    <3> QED  BY <3>3, <3>4
  <2> HIDE DEF f
  <2>3. Shaped(f)
    <3>1. Behind(f) = Behind(k)
      BY <2>2 DEF Behind
    <3>2. CASE k.step = "scan"
      BY <2>2, <3>2 DEF Shaped, Deleting, Writing
    <3>3. CASE k.step # "scan"
      BY <2>2, <3>1, <3>3 DEF Shaped
    <3> QED  BY <3>2, <3>3
  <2>4. Ahead(k) \subseteq Ahead(f)
    BY <2>2 DEF Ahead, CallRec
  <2>5. f.step # "none"
    BY <2>2 DEF InRequest
  <2> QED  BY <2>2, <2>3, <2>4, <2>5 DEF f
<1>4. CASE f = FromTheStart(k) /\ WrappedInRetry(k) /\ k.outer + 1 < MaxAttempts
  <2>1. k.outer + 1 \in 0 .. MaxAttempts - 1 /\ 0 \in 0 .. MaxAttempts - 1
    BY <1>4, GraphAssumption DEF CallRec
  <2>2. /\ k.op \in {"add_edge", "link_docs"} \/ k.step \in {"read", "rewrite"}
        /\ k.op \in {"add_edge", "link_docs"} <=> k.step = "write"
    BY <1>4 DEF WrappedInRetry, Shaped, Writing, CallRec
  <2>3. k.step \in {"write", "read", "rewrite"}
    BY <2>2
  <2>4. /\ f \in CallRec /\ f.op = k.op /\ f.all = k.all /\ f.todo = k.all /\ f.dst = k.dst /\ f.src = k.src
        /\ f.rel = k.rel /\ f.step = (IF k.step = "write" THEN "write" ELSE "read")
        /\ f.unscanned = k.unscanned /\ f.sources = k.sources
    <3> DEFINE step == IF k.step = "write" THEN "write" ELSE "read"
    <3>1. f = [k EXCEPT !.outer = k.outer + 1, !.inner = 0, !.todo = k.all, !.seen = << >>, !.step = step]
      BY <1>4 DEF FromTheStart
    <3>2. step \in Steps /\ << >> \in Seq(EdgeRec) /\ k.all \in Seq(WriteRec)
      BY DEF Steps, CallRec
    <3> HIDE DEF step, f
    <3>3. /\ f \in CallRec /\ f.op = k.op /\ f.all = k.all /\ f.todo = k.all /\ f.dst = k.dst /\ f.src = k.src
          /\ f.rel = k.rel /\ f.step = step /\ f.unscanned = k.unscanned /\ f.sources = k.sources
      BY <2>1, <3>1, <3>2 DEF CallRec
    <3> QED  BY <3>3 DEF step
  <2> HIDE DEF f
  <2>5. k.step = "write" => Len(k.all) \in Nat /\ Len(k.all) >= 1 /\ DOMAIN k.all = 1 .. Len(k.all)
    <3>1. k.all \in Seq(WriteRec)
      BY DEF CallRec
    <3> QED  BY <3>1, Positions DEF Shaped
  <2>6. Shaped(f)
    <3>1. CASE k.step = "write"
      <4>1. Behind(f) = 0 /\ \A i \in 1 .. Len(f.todo) : f.todo[i] = f.all[Behind(f) + i]
        BY <2>4, <2>5, <3>1 DEF Behind
      <4> QED  BY <2>4, <2>5, <3>1, <4>1 DEF Shaped
    <3>2. CASE k.step # "write"
      BY <2>3, <2>4, <3>2 DEF Shaped
    <3> QED  BY <3>1, <3>2
  <2>7. Ahead(k) \subseteq Ahead(f)
    BY <2>3, <2>4 DEF Ahead
  <2>8. k.op \notin {"add_node", "import"}
    BY <2>2 DEF Shaped, Writing
  <2> QED  BY <2>3, <2>4, <2>6, <2>7, <2>8 DEF f
<1> QED  BY <1>1, <1>2, <1>3, <1>4
-----------------------------------------------------------------------------
(***************************************************************************)
(* What the writes of a request do to the table.                           *)
(***************************************************************************)
Written(w) == [items EXCEPT ![w.node] = Applied(w)]
Rewritten(k) == [items EXCEPT ![k.src] = [items[k.src] EXCEPT !.edges = Kept(k)]]
Removed(t) == [items EXCEPT ![t] = NoItem]

LEMMA WriteEffect ==
  ASSUME Typed, NEW w \in WriteRec, w.kind = "node" => w.edges = << >>,
         NEW after, after = Written(w)
  PROVE  /\ after \in [Nodes -> Item \cup {NoItem}] /\ after[w.node] # NoItem
         /\ \A x \in Nodes : x # w.node => after[x] = items[x]
         /\ w.kind = "node" => after[w.node].known
         /\ items[w.node] # NoItem /\ items[w.node].known => after[w.node].known
         /\ \A s, x \in Nodes : Points(after, s, x) => Points(items, s, x) \/ x \in Named(w)
         /\ \A n \in Nodes, e \in EdgeRec :
              Count(Lists(after[n]), e) =
                Count(Lists(items[n]), e)
                  + (IF w.kind = "append" /\ n = w.node THEN Count(w.edges, e) ELSE 0)
<1> DEFINE n0 == w.node
           item == Applied(w)
           old == Lists(items[n0])
<1>1. /\ n0 \in Nodes /\ w.edges \in Seq(EdgeRec) /\ items \in [Nodes -> Item \cup {NoItem}]
  BY DEF Typed, WriteRec
<1>2. /\ item \in Item
      /\ item.edges = IF w.kind = "append" THEN old \o w.edges ELSE old
      /\ w.kind = "node" => item.known
      /\ items[n0] # NoItem /\ items[n0].known => item.known
  BY AppliedIs
<1>3. after = [items EXCEPT ![n0] = item]
  BY DEF Written
<1>4. \A n \in Nodes : Lists(items[n]) \in Seq(EdgeRec)
  <2>1. << >> \in Seq(EdgeRec)
    OBVIOUS
  <2> QED  BY <1>1, <2>1 DEF Lists, Item
<1> HIDE DEF item, n0
<1>5. /\ after \in [Nodes -> Item \cup {NoItem}] /\ after[n0] = item /\ item # NoItem
      /\ \A x \in Nodes : x # n0 => after[x] = items[x]
  BY <1>1, <1>2, <1>3, ItemAssumption
<1>6. Lists(after[n0]) = IF w.kind = "append" THEN old \o w.edges ELSE old
  BY <1>2, <1>5 DEF Lists
<1>7. \A x \in Nodes : x # n0 => Lists(after[x]) = Lists(items[x])
  BY <1>5
<1> HIDE DEF old
<1>8. old = Lists(items[n0]) /\ old \in Seq(EdgeRec)
  BY <1>1, <1>4 DEF old
<1>9. ASSUME NEW s \in Nodes, NEW x \in Nodes, Points(after, s, x)
      PROVE  Points(items, s, x) \/ x \in Named(w)
  <2>1. CASE s # n0
    BY <1>7, <1>9, <2>1 DEF Points
  <2>2. CASE s = n0 /\ w.kind # "append"
    BY <1>6, <1>8, <1>9, <2>2 DEF Points
  <2>3. CASE s = n0 /\ w.kind = "append"
    <3>1. PICK i \in DOMAIN (old \o w.edges) : (old \o w.edges)[i].target = x
      BY <1>6, <1>9, <2>3 DEF Points
    <3>2. \/ \E j \in DOMAIN old : (old \o w.edges)[i] = old[j]
          \/ \E j \in DOMAIN w.edges : (old \o w.edges)[i] = w.edges[j]
      <4>1. /\ Len(old) \in Nat /\ Len(w.edges) \in Nat
            /\ DOMAIN old = 1 .. Len(old) /\ DOMAIN w.edges = 1 .. Len(w.edges)
            /\ i \in 1 .. Len(old) + Len(w.edges)
        BY <1>1, <1>8
      <4>2. i <= Len(old) => i \in DOMAIN old /\ (old \o w.edges)[i] = old[i]
        BY <1>1, <1>8, <4>1
      <4>3. i > Len(old) => i - Len(old) \in DOMAIN w.edges
                            /\ (old \o w.edges)[i] = w.edges[i - Len(old)]
        BY <1>1, <1>8, <4>1
      <4>4. i <= Len(old) \/ i > Len(old)
        BY <4>1
      <4> QED  BY <4>2, <4>3, <4>4
    <3> QED  BY <1>8, <2>3, <3>1, <3>2 DEF Points, Named
  <2> QED  BY <2>1, <2>2, <2>3
<1>10. ASSUME NEW n \in Nodes, NEW e \in EdgeRec
       PROVE  Count(Lists(after[n]), e) =
                Count(Lists(items[n]), e)
                  + (IF w.kind = "append" /\ n = n0 THEN Count(w.edges, e) ELSE 0)
  <2>1. Count(Lists(items[n]), e) \in Nat
    BY <1>4, CountFinite
  <2>2. CASE n = n0 /\ w.kind = "append"
    <3>1. Count(old \o w.edges, e) = Count(old, e) + Count(w.edges, e)
      BY <1>1, <1>8, CountConcat
    <3> QED  BY <1>6, <1>8, <2>2, <3>1
  <2>3. CASE n # n0 \/ w.kind # "append"
    <3>1. Lists(after[n]) = Lists(items[n])
      BY <1>6, <1>7, <1>8, <2>3
    <3> QED  BY <2>1, <2>3, <3>1
  <2> QED  BY <2>2, <2>3
<1> QED  BY <1>2, <1>5, <1>9, <1>10 DEF n0

(* A write after which every edge leads to a node that is there. *)
LEMMA WriteStaysClean ==
  ASSUME Typed, Clean(items, raced), NEW w \in WriteRec,
         w.kind = "node" => w.edges = << >>,
         w.kind # "node" => \A x \in Named(w) : x \in raced \/ items[x] # NoItem,
         NEW after, after = Written(w)
  PROVE  Clean(after, raced)
<1>1. /\ after \in [Nodes -> Item \cup {NoItem}] /\ after[w.node] # NoItem
      /\ \A x \in Nodes : x # w.node => after[x] = items[x]
      /\ w.kind = "node" => after[w.node].known
      /\ items[w.node] # NoItem /\ items[w.node].known => after[w.node].known
      /\ \A s, x \in Nodes : Points(after, s, x) => Points(items, s, x) \/ x \in Named(w)
  BY WriteEffect
<1>2. w.node \in Named(w) /\ w.node \in Nodes
  BY DEF Named, WriteRec
<1>3. w.kind = "node" => \A x \in Named(w) : x = w.node
  BY DEF Named
<1> SUFFICES ASSUME NEW n \in Nodes \ raced
             PROVE  /\ after[n] # NoItem => after[n].known
                    /\ after[n] = NoItem => \A s \in Nodes : ~Points(after, s, n)
  BY DEF Clean
<1>4. /\ items[n] # NoItem => items[n].known
      /\ items[n] = NoItem => \A s \in Nodes : ~Points(items, s, n)
  BY DEF Clean
<1>5. CASE n = w.node
  <2>1. w.kind # "node" => items[n] # NoItem
    BY <1>2, <1>5
  <2> QED  BY <1>1, <1>4, <1>5, <2>1
<1>6. CASE n # w.node
  <2>1. after[n] = items[n]
    BY <1>1, <1>6
  <2>2. after[n] = NoItem => n \notin Named(w)
    BY <1>3, <1>6, <2>1
  <2> QED  BY <1>1, <1>4, <2>1, <2>2
<1> QED  BY <1>5, <1>6

(* A rewrite takes away what matches, and nothing else. *)
LEMMA RewriteEffect ==
  ASSUME Typed, NEW k \in CallRec, k.src \in Nodes, Unchanged(k),
         NEW after, after = Rewritten(k)
  PROVE  /\ after \in [Nodes -> Item \cup {NoItem}]
         /\ \A x \in Nodes : /\ after[x] = NoItem <=> items[x] = NoItem
                             /\ items[x] # NoItem => after[x].known = items[x].known
         /\ \A s, x \in Nodes : Points(after, s, x) => Points(items, s, x)
         /\ k.rel = None => ~Points(after, k.src, k.dst)
         /\ \A n \in Nodes, e \in EdgeRec :
              /\ Count(Lists(after[n]), e) <= Count(Lists(items[n]), e)
              /\ Count(Lists(after[n]), e) < Count(Lists(items[n]), e) => n = k.src /\ Matches(k, e)
<1> DEFINE n0 == k.src
           kept == Kept(k)
           item == [items[n0] EXCEPT !.edges = kept]
<1>1. /\ n0 \in Nodes /\ items \in [Nodes -> Item \cup {NoItem}]
      /\ items[n0] # NoItem /\ items[n0].edges = k.seen
  BY DEF Typed, Unchanged
<1>2. /\ kept \in Seq(EdgeRec)
      /\ \A i \in DOMAIN kept : ~Matches(k, kept[i]) /\ \E j \in DOMAIN k.seen : kept[i] = k.seen[j]
      /\ \A e : Count(kept, e) <= Count(k.seen, e)
      /\ \A e : ~Matches(k, e) => Count(kept, e) = Count(k.seen, e)
  BY KeptIs
<1> HIDE DEF kept
<1>3. item \in Item /\ item.edges = kept /\ item.known = items[n0].known
  BY <1>1, <1>2 DEF Item
<1>4. after = [items EXCEPT ![n0] = item]
  BY DEF Rewritten, kept
<1> HIDE DEF item
<1>5. /\ after \in [Nodes -> Item \cup {NoItem}] /\ after[n0] = item /\ item # NoItem
      /\ \A x \in Nodes : x # n0 => after[x] = items[x]
  BY <1>1, <1>3, <1>4, ItemAssumption
<1>6. /\ \A x \in Nodes : /\ after[x] = NoItem <=> items[x] = NoItem
                          /\ items[x] # NoItem => after[x].known = items[x].known
  BY <1>1, <1>3, <1>5
<1>7. Lists(after[n0]) = kept /\ Lists(items[n0]) = k.seen
  BY <1>1, <1>3, <1>5 DEF Lists
<1>8. \A x \in Nodes : x # n0 => Lists(after[x]) = Lists(items[x])
  BY <1>5
<1>9. \A n \in Nodes : Lists(items[n]) \in Seq(EdgeRec)
  <2>1. << >> \in Seq(EdgeRec)
    OBVIOUS
  <2> QED  BY <1>1, <2>1 DEF Lists, Item
<1> HIDE DEF n0
<1>10. ASSUME NEW s \in Nodes, NEW x \in Nodes, Points(after, s, x)  PROVE Points(items, s, x)
  <2>1. CASE s = n0
    BY <1>2, <1>7, <1>10, <2>1 DEF Points
  <2>2. CASE s # n0
    BY <1>8, <1>10, <2>2 DEF Points
  <2> QED  BY <2>1, <2>2
<1>11. k.rel = None => ~Points(after, n0, k.dst)
  BY <1>2, <1>7 DEF Points, Matches
<1>12. ASSUME NEW n \in Nodes, NEW e \in EdgeRec
       PROVE  /\ Count(Lists(after[n]), e) <= Count(Lists(items[n]), e)
              /\ Count(Lists(after[n]), e) < Count(Lists(items[n]), e) => n = n0 /\ Matches(k, e)
  <2>1. Count(Lists(items[n]), e) \in Nat
    BY <1>9, CountFinite
  <2>2. CASE n = n0
    <3>1. Count(kept, e) <= Count(k.seen, e) /\ (~Matches(k, e) => Count(kept, e) = Count(k.seen, e))
      BY <1>2
    <3> QED  BY <1>7, <2>1, <2>2, <3>1
  <2>3. CASE n # n0
    <3>1. Lists(after[n]) = Lists(items[n])
      BY <1>8, <2>3
    <3> QED  BY <2>1, <3>1
  <2> QED  BY <2>2, <2>3
<1> QED  BY <1>5, <1>6, <1>10, <1>11, <1>12 DEF n0

LEMMA RemoveEffect ==
  ASSUME Typed, NEW t \in Nodes, NEW after, after = Removed(t)
  PROVE  /\ after \in [Nodes -> Item \cup {NoItem}] /\ after[t] = NoItem
         /\ \A x \in Nodes : x # t => after[x] = items[x]
         /\ \A s, x \in Nodes : Points(after, s, x) => Points(items, s, x) /\ s # t
         /\ \A n \in Nodes, e \in EdgeRec :
              /\ Count(Lists(after[n]), e) <= Count(Lists(items[n]), e)
              /\ Count(Lists(after[n]), e) < Count(Lists(items[n]), e) => n = t
<1>1. /\ after \in [Nodes -> Item \cup {NoItem}] /\ after[t] = NoItem
      /\ \A x \in Nodes : x # t => after[x] = items[x]
  BY DEF Typed, Removed
<1>2. Lists(after[t]) = << >> /\ \A x \in Nodes : x # t => Lists(after[x]) = Lists(items[x])
  BY <1>1 DEF Lists
<1>3. ASSUME NEW s \in Nodes, NEW x \in Nodes, Points(after, s, x)
      PROVE  Points(items, s, x) /\ s # t
  <2>1. s # t
    <3>1. DOMAIN << >> = {}
      OBVIOUS
    <3> QED  BY <1>2, <1>3, <3>1 DEF Points
  <2> QED  BY <1>2, <1>3, <2>1 DEF Points
<1>4. ASSUME NEW n \in Nodes, NEW e \in EdgeRec
      PROVE  /\ Count(Lists(after[n]), e) <= Count(Lists(items[n]), e)
             /\ Count(Lists(after[n]), e) < Count(Lists(items[n]), e) => n = t
  <2>1. Lists(items[n]) \in Seq(EdgeRec)
    <3>1. << >> \in Seq(EdgeRec)
      OBVIOUS
    <3> QED  BY <3>1 DEF Lists, Item, Typed
  <2>2. Count(Lists(items[n]), e) \in Nat
    BY <2>1, CountFinite
  <2>3. CASE n = t
    BY <1>2, <2>2, <2>3, CountEmpty
  <2>4. CASE n # t
    <3>1. Lists(after[n]) = Lists(items[n])
      BY <1>2, <2>4
    <3> QED  BY <2>2, <3>1
  <2> QED  BY <2>3, <2>4
<1> QED  BY <1>1, <1>3, <1>4
-----------------------------------------------------------------------------
(***************************************************************************)
(* A step of a client leaves the invariant true of the others.             *)
(***************************************************************************)

(* A step of c takes no item that a writer counts on, and makes no node    *)
(* point at one that c does not use.                                       *)
Gentle(c) ==
  /\ \A d \in Clients : \A x \in Uses(call[d]) \ raced : items[x] # NoItem => items'[x] # NoItem
  /\ \A s, x \in Nodes : Points(items', s, x) => Points(items, s, x) \/ x \in Uses(call[c])

LEMMA UsesNodes ==
  ASSUME NEW k \in CallRec
  PROVE  Uses(k) \subseteq Nodes /\ (k.all = << >> => Uses(k) = {})
<1>1. k.all \in Seq(WriteRec)
  BY DEF CallRec
<1>2. \A i \in DOMAIN k.all : k.all[i] \in WriteRec
  BY <1>1, Positions
<1>3. \A i \in DOMAIN k.all : Named(k.all[i]) \subseteq Nodes
  BY <1>2, NamedNodes
<1>4. k.all = << >> => DOMAIN k.all = {}
  OBVIOUS
<1>5. \A x : x \in Uses(k) <=> \E i \in DOMAIN k.all : x \in Named(k.all[i])
  BY UsesNamed
<1> QED  BY <1>3, <1>4, <1>5

LEMMA IdleQuiet ==
  ASSUME NEW table, NEW gone
  PROVE  Made(Idle, table, gone) /\ Tracked(Idle, table, gone)
BY DEF Idle, Made, Tracked

(* Made and Tracked of a call survive a gentle step of anybody. *)
LEMMA OthersKept ==
  ASSUME GraphInv, NEW c \in Clients, NEW d \in Clients, Gentle(c), raced \subseteq raced'
  PROVE  Made(call[d], items', raced') /\ Tracked(call[d], items', raced')
<1> DEFINE k == call[d]
<1>1. k \in CallRec /\ Shaped(k) /\ Made(k, items, raced) /\ Tracked(k, items, raced)
  BY DEF GraphInv, Typed
<1>2. \A x \in Uses(k) \ raced : items[x] # NoItem => items'[x] # NoItem
  BY DEF Gentle
<1>3. k.op = "delete_node" /\ k.dst \in Uses(call[c]) => k.dst \in raced
  BY DEF GraphInv, Crossed
<1>4. k.op = "delete_node" => k.dst \in Nodes
  BY <1>1 DEF Shaped, Deleting
<1> HIDE DEF k
<1>5. Made(k, items', raced')
  <2> SUFFICES ASSUME k.step = "write", NEW j \in 1 .. Behind(k), k.all[j].kind = "node",
                      k.all[j].node \notin raced'
               PROVE  items'[k.all[j].node] # NoItem
    BY DEF Made
  <2>1. items[k.all[j].node] # NoItem
    BY <1>1 DEF Made
  <2>2. /\ Len(k.todo) \in 1 .. Len(k.all) /\ k.all \in Seq(WriteRec)
    BY <1>1 DEF Shaped, CallRec
  <2>3. j \in DOMAIN k.all
    <3>1. Len(k.all) \in Nat /\ DOMAIN k.all = 1 .. Len(k.all)
      BY <2>2
    <3> QED  BY <2>2, <3>1 DEF Behind
  <2>4. k.all[j].node \in Uses(k)
    <3>1. k.all[j].node \in Named(k.all[j])
      BY DEF Named
    <3> QED  BY <1>1, <2>3, <3>1, UsesNamed
  <2> QED  BY <1>2, <2>1, <2>4
<1>6. Tracked(k, items', raced')
  <2> SUFFICES ASSUME k.op = "delete_node", k.dst \notin raced', NEW s \in Nodes \ {k.dst},
                      Points(items', s, k.dst)
               PROVE  s \in Ahead(k)
    BY DEF Tracked
  <2>1. Points(items, s, k.dst)
    BY <1>3, <1>4 DEF Gentle
  <2> QED  BY <1>1, <2>1 DEF Tracked
<1> QED  BY <1>5, <1>6 DEF k

LEMMA Carry ==
  ASSUME GraphInv, Typed', NEW c \in Clients, NEW k2 \in CallRec, call' = [call EXCEPT ![c] = k2],
         raced \subseteq raced', Gentle(c), Clean(items', raced'),
         Shaped(k2), Made(k2, items', raced'), Tracked(k2, items', raced'),
         \A d \in Clients :
           /\ call[d].op = "delete_node" /\ call[d].dst \in Uses(k2) => call[d].dst \in raced'
           /\ k2.op = "delete_node" /\ k2.dst \in Uses(call[d]) => k2.dst \in raced'
  PROVE  GraphInv'
<1>1. call'[c] = k2 /\ \A d \in Clients : d # c => call'[d] = call[d]
  BY DEF GraphInv, Typed
<1>2. \A d \in Clients : /\ Shaped(call'[d]) /\ Made(call'[d], items', raced')
                         /\ Tracked(call'[d], items', raced')
  <2> SUFFICES ASSUME NEW d \in Clients
               PROVE  /\ Shaped(call'[d]) /\ Made(call'[d], items', raced')
                      /\ Tracked(call'[d], items', raced')
    OBVIOUS
  <2>1. CASE d = c
    BY <1>1, <2>1
  <2>2. CASE d # c
    <3>1. Shaped(call[d])
      BY DEF GraphInv
    <3>2. Made(call[d], items', raced') /\ Tracked(call[d], items', raced')
      BY OthersKept
    <3> QED  BY <1>1, <2>2, <3>1, <3>2
  <2> QED  BY <2>1, <2>2
<1>3. \A b, d \in Clients :
        call'[d].op = "delete_node" /\ call'[d].dst \in Uses(call'[b]) => call'[d].dst \in raced'
  <2> SUFFICES ASSUME NEW b \in Clients, NEW d \in Clients,
                      call'[d].op = "delete_node", call'[d].dst \in Uses(call'[b])
               PROVE  call'[d].dst \in raced'
    OBVIOUS
  <2>1. k2.op = "delete_node" => Uses(k2) = {}
    <3>1. k2.op = "delete_node" => k2.all = << >>
      BY DEF Shaped, Writing
    <3> QED  BY <3>1, UsesNodes
  <2>2. CASE b = c /\ d = c
    BY <1>1, <2>1, <2>2
  <2>3. CASE b = c /\ d # c
    BY <1>1, <2>3
  <2>4. CASE b # c /\ d = c
    BY <1>1, <2>4
  <2>5. CASE b # c /\ d # c
    BY <1>1, <2>5 DEF GraphInv, Crossed
  <2> QED  BY <2>2, <2>3, <2>4, <2>5
<1>4. Crossed'
  BY <1>3 DEF Crossed
<1> QED  BY <1>2, <1>4 DEF GraphInv

(* The same where the call goes on with what it began. *)
LEMMA CarryOn ==
  ASSUME GraphInv, Typed', NEW c \in Clients, NEW k2 \in CallRec, call' = [call EXCEPT ![c] = k2],
         raced \subseteq raced', Gentle(c), Clean(items', raced'),
         Shaped(k2), Made(k2, items', raced'), Tracked(k2, items', raced'),
         Uses(k2) \subseteq Uses(call[c]),
         k2.op = "delete_node" => call[c].op = "delete_node" /\ k2.dst = call[c].dst
  PROVE  GraphInv'
<1>1. \A d \in Clients :
        /\ call[d].op = "delete_node" /\ call[d].dst \in Uses(k2) => call[d].dst \in raced'
        /\ k2.op = "delete_node" /\ k2.dst \in Uses(call[d]) => k2.dst \in raced'
  BY DEF GraphInv, Crossed
<1> QED  BY <1>1, Carry

(* The same where the call ends. *)
LEMMA CarryEnd ==
  ASSUME GraphInv, Typed', NEW c \in Clients, call' = [call EXCEPT ![c] = Idle],
         raced \subseteq raced', Gentle(c), Clean(items', raced')
  PROVE  GraphInv'
<1>1. Idle \in CallRec /\ Shaped(Idle) /\ Uses(Idle) = {}
  BY IdleShaped
<1>2. Made(Idle, items', raced') /\ Tracked(Idle, items', raced')
  BY IdleQuiet
<1>3. Idle.op # "delete_node"
  BY DEF Idle
<1> HIDE DEF Idle
<1> QED  BY <1>1, <1>2, <1>3, CarryOn

(* The same where a request failed. *)
LEMMA CarryFailed ==
  ASSUME GraphInv, Typed', NEW c \in Clients, InRequest(call[c]),
         call' = [call EXCEPT ![c] = AfterFailure(call[c])],
         raced' = raced, Gentle(c), Clean(items', raced')
  PROVE  GraphInv'
<1> DEFINE k == call[c]
           f == AfterFailure(k)
<1>1. k \in CallRec /\ Shaped(k) /\ Made(k, items', raced') /\ Tracked(k, items', raced')
  BY OthersKept DEF GraphInv, Typed
<1>2. f = Idle => GraphInv'
  BY CarryEnd
<1> HIDE DEF k
<1>3. /\ f \in CallRec /\ Shaped(f)
      /\ f = Idle \/ (f.op = k.op /\ f.all = k.all /\ f.dst = k.dst /\ f.step # "none"
                      /\ (k.step = "write" <=> f.step = "write") /\ Ahead(k) \subseteq Ahead(f)
                      /\ (f.todo = k.todo \/ (f.todo = k.all /\ k.op \notin {"add_node", "import"})))
  <2>1. InRequest(k)
    BY DEF k
  <2> QED  BY <1>1, <2>1, FailureIs
<1> HIDE DEF f
<1>4. CASE f # Idle
  <2>1. Made(f, items', raced')
    <3>1. CASE f.todo = k.todo
      <4>1. Behind(f) = Behind(k)
        BY <1>3, <1>4, <3>1 DEF Behind
      <4> QED  BY <1>1, <1>3, <1>4, <4>1 DEF Made
    <3>2. CASE f.todo = k.all
      <4>1. Behind(f) = 0
        <5>1. f.all = k.all /\ Len(k.all) \in Nat
          BY <1>1, <1>3, <1>4 DEF CallRec
        <5> QED  BY <3>2, <5>1 DEF Behind
      <4>2. 1 .. Behind(f) = {}
        BY <4>1
      <4> QED  BY <4>2 DEF Made
    <3> QED  BY <1>3, <1>4, <3>1, <3>2
  <2>2. Tracked(f, items', raced')
    BY <1>1, <1>3, <1>4 DEF Tracked
  <2>3. Uses(f) = Uses(k)
    BY <1>3, <1>4 DEF Uses
  <2>4. f.op = "delete_node" => k.op = "delete_node" /\ f.dst = k.dst
    BY <1>3, <1>4
  <2>5. call' = [call EXCEPT ![c] = f]
    BY DEF f, k
  <2>6. Uses(f) \subseteq Uses(call[c]) /\ (f.op = "delete_node" => call[c].op = "delete_node" /\ f.dst = call[c].dst)
    BY <2>3, <2>4 DEF k
  <2> QED  BY <1>3, <2>1, <2>2, <2>5, <2>6, CarryOn
<1> QED  BY <1>2, <1>4 DEF f
LEMMA SameGentle ==
  ASSUME GraphInv, NEW c \in Clients, items' = items, raced \subseteq raced'
  PROVE  Gentle(c) /\ Clean(items', raced')
<1>1. Gentle(c)
  BY DEF Gentle
<1>2. Clean(items, raced)
  BY DEF GraphInv
<1> QED  BY <1>1, <1>2 DEF Clean

LEMMA WriteGentle ==
  ASSUME GraphInv, NEW c \in Clients, call[c].step = "write", items' = Written(Head(call[c].todo))
  PROVE  items' \in [Nodes -> Item \cup {NoItem}] /\ Gentle(c) /\ Clean(items', raced)
<1> DEFINE w == Head(call[c].todo)
<1>1. /\ w \in WriteRec /\ Named(w) \subseteq Uses(call[c])
      /\ w.kind = "node" => w.edges = << >>
      /\ w.kind # "node" => \A x \in Named(w) : x \in raced \/ items[x] # NoItem
  BY HeadIs
<1>2. Typed /\ Clean(items, raced) /\ items' = Written(w)
  BY DEF GraphInv
<1> HIDE DEF w
<1>3. /\ items' \in [Nodes -> Item \cup {NoItem}] /\ items'[w.node] # NoItem
      /\ \A x \in Nodes : x # w.node => items'[x] = items[x]
      /\ \A s, x \in Nodes : Points(items', s, x) => Points(items, s, x) \/ x \in Named(w)
  BY <1>1, <1>2, WriteEffect
<1>4. Clean(items', raced)
  BY <1>1, <1>2, WriteStaysClean
<1>5. \A d \in Clients : Uses(call[d]) \subseteq Nodes
  BY <1>2, UsesNodes DEF Typed
<1>6. Gentle(c)
  BY <1>1, <1>3, <1>5 DEF Gentle
<1> QED  BY <1>3, <1>4, <1>6

LEMMA RewriteGentle ==
  ASSUME GraphInv, NEW c \in Clients, call[c].step = "rewrite", Unchanged(call[c]),
         items' = Rewritten(call[c])
  PROVE  items' \in [Nodes -> Item \cup {NoItem}] /\ Gentle(c) /\ Clean(items', raced)
<1>1. Typed /\ Clean(items, raced) /\ call[c] \in CallRec /\ call[c].src \in Nodes
  BY DEF GraphInv, Typed, Shaped
<1>2. /\ items' \in [Nodes -> Item \cup {NoItem}]
      /\ \A x \in Nodes : /\ items'[x] = NoItem <=> items[x] = NoItem
                          /\ items[x] # NoItem => items'[x].known = items[x].known
      /\ \A s, x \in Nodes : Points(items', s, x) => Points(items, s, x)
  BY <1>1, RewriteEffect
<1>3. Clean(items', raced)
  BY <1>1, <1>2 DEF Clean
<1>4. \A d \in Clients : Uses(call[d]) \subseteq Nodes
  BY <1>1, UsesNodes DEF Typed
<1>5. Gentle(c)
  BY <1>2, <1>4 DEF Gentle
<1> QED  BY <1>2, <1>3, <1>5

LEMMA RemoveGentle ==
  ASSUME GraphInv, NEW c \in Clients, call[c].step = "remove", items' = Removed(call[c].dst)
  PROVE  items' \in [Nodes -> Item \cup {NoItem}] /\ Gentle(c) /\ Clean(items', raced)
<1> DEFINE k == call[c]
           t == k.dst
<1>1. /\ Typed /\ Clean(items, raced) /\ k \in CallRec /\ Shaped(k) /\ Tracked(k, items, raced)
      /\ \A d \in Clients : k.op = "delete_node" /\ t \in Uses(call[d]) => t \in raced
  BY DEF GraphInv, Typed, Crossed
<1>2. k.op = "delete_node" /\ t \in Nodes /\ Ahead(k) = {}
  BY <1>1 DEF Shaped, Deleting, Ahead
<1> HIDE DEF k
<1>3. items' = Removed(t)
  BY DEF k
<1>4. t \notin raced => \A s \in Nodes \ {t} : ~Points(items, s, t)
  BY <1>1, <1>2 DEF Tracked
<1> HIDE DEF t
<1>5. /\ items' \in [Nodes -> Item \cup {NoItem}] /\ items'[t] = NoItem
      /\ \A x \in Nodes : x # t => items'[x] = items[x]
      /\ \A s, x \in Nodes : Points(items', s, x) => Points(items, s, x) /\ s # t
  BY <1>1, <1>2, <1>3, RemoveEffect
<1>6. Clean(items', raced)
  <2> SUFFICES ASSUME NEW n \in Nodes \ raced
               PROVE  /\ items'[n] # NoItem => items'[n].known
                      /\ items'[n] = NoItem => \A s \in Nodes : ~Points(items', s, n)
    BY DEF Clean
  <2>1. CASE n = t
    BY <1>4, <1>5, <2>1
  <2>2. CASE n # t
    BY <1>1, <1>5, <2>2 DEF Clean
  <2> QED  BY <2>1, <2>2
<1>7. \A d \in Clients : Uses(call[d]) \subseteq Nodes
  BY <1>1, UsesNodes DEF Typed
<1>8. \A d \in Clients : t \in Uses(call[d]) => t \in raced
  BY <1>1, <1>2 DEF t
<1>9. Gentle(c)
  BY <1>5, <1>7, <1>8 DEF Gentle
<1> QED  BY <1>5, <1>6, <1>9

LEMMA LagTyped ==
  ASSUME Typed, NEW n \in Nodes, behind' = [behind EXCEPT ![n] = items[n]]
  PROVE  behind' \in [Nodes -> Item \cup {NoItem}]
BY DEF Typed
-----------------------------------------------------------------------------
(***************************************************************************)
(* Every step keeps the invariant.                                         *)
(***************************************************************************)
LEMMA WriterIs ==
  ASSUME NEW op, NEW ws, NEW edges, WellMade(op, ws, edges)
  PROVE  LET k == Writer(op, ws)
         IN /\ k \in CallRec /\ Shaped(k) /\ k.op = op /\ op \in Writing /\ k.step = "write"
            /\ k.all = ws /\ Behind(k) = 0 /\ ws \in Seq(WriteRec)
<1> DEFINE k == Writer(op, ws)
<1>1. /\ op \in Writing /\ ws \in Seq(WriteRec) /\ Len(ws) \in Nat /\ Len(ws) >= 1 /\ Prepared(ws)
  BY DEF WellMade
<1>2. /\ k \in CallRec /\ k.op = op /\ k.step = "write" /\ k.all = ws /\ k.todo = ws
      /\ k.unscanned = {} /\ k.sources = {}
  <2>1. Idle \in CallRec /\ Idle.unscanned = {} /\ Idle.sources = {}
    BY IdleShaped DEF Idle
  <2> HIDE DEF Idle
  <2> QED  BY <1>1, <2>1 DEF Writer, CallRec, Steps
<1> HIDE DEF k
<1>3. Behind(k) = 0
  BY <1>1, <1>2 DEF Behind
<1>4. \A i \in 1 .. Len(k.todo) : k.todo[i] = k.all[Behind(k) + i]
  BY <1>1, <1>2, <1>3
<1>5. Shaped(k)
  <2>1. op \notin Deleting /\ op # "none"
    BY <1>1 DEF Writing, Deleting
  <2>2. op # "delete_node"
    BY <1>1 DEF Writing
  <2>3. k.step = "write" =>
       /\ Len(k.todo) \in 1 .. Len(k.all)
       /\ \A i \in 1 .. Len(k.todo) : k.todo[i] = k.all[Behind(k) + i]
       /\ Prepared(k.all)
    BY <1>1, <1>2, <1>4
  <2>4. /\ k.op \in {"add_node", "link_docs"} => \A i \in DOMAIN k.all : k.all[i].kind # "append"
        /\ k.op = "add_edge" =>
            /\ Len(k.all) = 3 /\ k.all[1].kind = "node" /\ k.all[2].kind = "node"
            /\ k.all[3].kind = "append" /\ Len(k.all[3].edges) = 1
    BY <1>2 DEF WellMade
  <2> QED  BY <1>1, <1>2, <2>1, <2>2, <2>3, <2>4 DEF Shaped
<1> QED  BY <1>1, <1>2, <1>3, <1>5 DEF k

LEMMA StartWriterKeeps ==
  ASSUME GraphInv, NEW c \in Clients, NEW op, NEW ws, NEW edges, WellMade(op, ws, edges),
         MayStart(c), StartWriter(c, op, ws, edges)
  PROVE  GraphInv'
<1> DEFINE k == Writer(op, ws)
<1>1. /\ k \in CallRec /\ Shaped(k) /\ k.op = op /\ op \in Writing /\ k.step = "write"
      /\ k.all = ws /\ Behind(k) = 0
  BY WriterIs
<1>2. /\ call' = [call EXCEPT ![c] = k] /\ calls < MaxCalls /\ calls' = calls + 1
      /\ raced' = raced \cup (Uses(k) \cap DeletedNow)
      /\ asked' = [n \in Nodes |-> [e \in EdgeRec |-> asked[n][e] + Wanted(edges, n, e)]]
      /\ items' = items /\ behind' = behind /\ faults' = faults /\ redone' = redone
  BY DEF StartWriter, MayStart
<1> HIDE DEF k
<1>3. Uses(k) \subseteq Nodes
  BY <1>1, UsesNodes
<1>4. asked' \in Tallies
  <2>1. \A n \in Nodes, e \in EdgeRec : asked[n][e] + Wanted(edges, n, e) \in Nat
    <3> SUFFICES ASSUME NEW n \in Nodes, NEW e \in EdgeRec
                 PROVE  asked[n][e] + Wanted(edges, n, e) \in Nat
      OBVIOUS
    <3>1. Wanted(edges, n, e) \in Nat
      BY DEF WellMade
    <3>2. asked[n][e] \in Nat
      BY DEF GraphInv, Typed, Tallies
    <3> QED  BY <3>1, <3>2
  <2> QED  BY <1>2, <2>1 DEF Tallies
<1>5. Typed'
  <2>1. Typed /\ calls' \in 0 .. MaxCalls
    BY <1>2, GraphAssumption DEF GraphInv, Typed
  <2>2. raced' \in SUBSET Nodes
    BY <1>2, <1>3, <2>1 DEF Typed
  <2>3. call' \in [Clients -> CallRec]
    BY <1>1, <1>2, <2>1 DEF Typed
  <2> QED  BY <1>2, <1>4, <2>1, <2>2, <2>3 DEF Typed
<1>6. Gentle(c) /\ Clean(items', raced') /\ raced \subseteq raced'
  BY <1>2, SameGentle
<1>7. Made(k, items', raced') /\ Tracked(k, items', raced')
  BY <1>1 DEF Made, Tracked, Writing
<1>8. \A d \in Clients :
        /\ call[d].op = "delete_node" /\ call[d].dst \in Uses(k) => call[d].dst \in raced'
        /\ k.op = "delete_node" /\ k.dst \in Uses(call[d]) => k.dst \in raced'
  BY <1>1, <1>2 DEF DeletedNow, Writing
<1> QED  BY <1>1, <1>2, <1>5, <1>6, <1>7, <1>8, Carry

LEMMA DeleteEdgeKeeps ==
  ASSUME GraphInv, NEW c \in Clients, NEW s \in Nodes, NEW r \in Relations, NEW t \in Nodes,
         DeleteEdge(c, s, r, t)
  PROVE  GraphInv'
<1> DEFINE k == [Idle EXCEPT !.op = "delete_edge", !.step = "read", !.src = s, !.rel = r, !.dst = t]
<1>1. /\ call' = [call EXCEPT ![c] = k] /\ calls < MaxCalls /\ calls' = calls + 1
      /\ items' = items /\ behind' = behind /\ faults' = faults /\ asked' = asked
      /\ redone' = redone /\ raced' = raced
  BY DEF DeleteEdge, MayStart
<1>2. /\ k \in CallRec /\ k.op = "delete_edge" /\ k.step = "read" /\ k.src = s /\ k.rel = r /\ k.dst = t
      /\ k.all = << >> /\ k.todo = << >> /\ k.unscanned = {} /\ k.sources = {}
  <2>1. /\ Idle \in CallRec /\ Idle.unscanned = {} /\ Idle.sources = {} /\ Idle.all = << >>
        /\ Idle.todo = << >>
    BY IdleShaped DEF Idle
  <2> HIDE DEF Idle
  <2> QED  BY <2>1 DEF CallRec, Steps, Deleting
<1> HIDE DEF k
<1>3. Shaped(k) /\ Made(k, items', raced') /\ Tracked(k, items', raced')
  BY <1>2 DEF Shaped, Made, Tracked, Writing, Deleting
<1>4. Uses(k) = {}
  BY <1>2, UsesNodes
<1>5. Typed'
  <2>1. Typed /\ calls' \in 0 .. MaxCalls
    BY <1>1, GraphAssumption DEF GraphInv, Typed
  <2> QED  BY <1>1, <1>2, <2>1 DEF Typed
<1>6. Gentle(c) /\ Clean(items', raced') /\ raced \subseteq raced'
  BY <1>1, SameGentle
<1> QED  BY <1>1, <1>2, <1>3, <1>4, <1>5, <1>6, CarryOn

LEMMA DeleteNodeKeeps ==
  ASSUME GraphInv, NEW c \in Clients, NEW t \in Nodes, DeleteNode(c, t)
  PROVE  GraphInv'
<1> DEFINE k == [Idle EXCEPT !.op = "delete_node", !.step = "scan", !.dst = t, !.unscanned = Nodes]
<1>1. /\ call' = [call EXCEPT ![c] = k] /\ calls < MaxCalls /\ calls' = calls + 1
      /\ raced' = IF Conflicting(t) # {} THEN raced \cup {t} ELSE raced
      /\ items' = items /\ behind' = behind /\ faults' = faults /\ asked' = asked /\ redone' = redone
  BY DEF DeleteNode, MayStart
<1>2. /\ k \in CallRec /\ k.op = "delete_node" /\ k.step = "scan" /\ k.rel = None /\ k.dst = t
      /\ k.all = << >> /\ k.todo = << >> /\ k.unscanned = Nodes
  <2>1. Idle \in CallRec /\ Idle.rel = None /\ Idle.all = << >> /\ Idle.todo = << >>
    BY IdleShaped DEF Idle
  <2> HIDE DEF Idle
  <2> QED  BY <2>1 DEF CallRec, Steps, Deleting
<1> HIDE DEF k
<1>3. Shaped(k) /\ Made(k, items', raced') /\ Tracked(k, items', raced')
  <2>1. Shaped(k) /\ Made(k, items', raced')
    BY <1>2 DEF Shaped, Made, Writing, Deleting
  <2>2. Nodes \subseteq Ahead(k)
    BY <1>2 DEF Ahead
  <2> QED  BY <2>1, <2>2 DEF Tracked
<1>4. Uses(k) = {}
  BY <1>2, UsesNodes
<1>5. raced \subseteq raced' /\ raced' \subseteq Nodes
  BY <1>1 DEF GraphInv, Typed
<1>6. Typed'
  <2>1. Typed /\ calls' \in 0 .. MaxCalls
    BY <1>1, GraphAssumption DEF GraphInv, Typed
  <2> QED  BY <1>1, <1>2, <1>5, <2>1 DEF Typed
<1>7. Gentle(c) /\ Clean(items', raced')
  BY <1>1, <1>5, SameGentle
<1>8. \A d \in Clients :
        /\ call[d].op = "delete_node" /\ call[d].dst \in Uses(k) => call[d].dst \in raced'
        /\ k.op = "delete_node" /\ k.dst \in Uses(call[d]) => k.dst \in raced'
  BY <1>1, <1>2, <1>4 DEF Conflicting
<1> QED  BY <1>1, <1>2, <1>3, <1>5, <1>6, <1>7, <1>8, Carry
LEMMA TailIs ==
  ASSUME NEW X, NEW seq \in Seq(X), Len(seq) >= 1
  PROVE  /\ Tail(seq) \in Seq(X) /\ Len(Tail(seq)) = Len(seq) - 1
         /\ \A i \in 1 .. Len(seq) - 1 : Tail(seq)[i] = seq[i + 1]
<1>1. seq # << >>
  OBVIOUS
<1> QED  BY <1>1

LEMMA Advances ==
  ASSUME NEW k \in CallRec, Shaped(k), k.step = "write", Len(k.todo) # 1
  PROVE  LET k2 == [k EXCEPT !.todo = Tail(k.todo), !.inner = 0]
         IN /\ k2 \in CallRec /\ Shaped(k2) /\ k2.op = k.op /\ k2.all = k.all /\ k2.dst = k.dst
            /\ k2.step = "write" /\ Behind(k2) = Behind(k) + 1
<1> DEFINE k2 == [k EXCEPT !.todo = Tail(k.todo), !.inner = 0]
           m == Len(k.all)
           l == Len(k.todo)
<1>1. /\ k.all \in Seq(WriteRec) /\ k.todo \in Seq(WriteRec) /\ m \in Nat /\ l \in 1 .. m /\ l # 1
      /\ \A i \in 1 .. l : k.todo[i] = k.all[Behind(k) + i]
      /\ Behind(k) = m - l
  BY DEF Shaped, CallRec, Behind
<1>2. Tail(k.todo) \in Seq(WriteRec) /\ Len(Tail(k.todo)) = l - 1 /\ l - 1 >= 1
      /\ \A i \in 1 .. l - 1 : Tail(k.todo)[i] = k.todo[i + 1]
  <2>1. k.todo \in Seq(WriteRec) /\ l >= 1
    BY <1>1
  <2>2. Tail(k.todo) \in Seq(WriteRec) /\ Len(Tail(k.todo)) = l - 1
        /\ \A i \in 1 .. l - 1 : Tail(k.todo)[i] = k.todo[i + 1]
    BY <2>1, TailIs
  <2>3. l - 1 >= 1
    <3> HIDE DEF l, m
    <3> QED  BY <1>1
  <2> QED  BY <2>2, <2>3
<1>3. 0 \in 0 .. MaxAttempts - 1
  BY GraphAssumption
<1>4. /\ k2 \in CallRec /\ k2.op = k.op /\ k2.all = k.all /\ k2.dst = k.dst /\ k2.step = "write"
      /\ k2.todo = Tail(k.todo) /\ k2.src = k.src /\ k2.rel = k.rel
      /\ k2.unscanned = k.unscanned /\ k2.sources = k.sources
  BY <1>2, <1>3 DEF CallRec
<1>5. Len(k2.todo) = l - 1 /\ Len(k2.all) = m
  BY <1>2, <1>4
<1> HIDE DEF k2, m, l
<1>6. Behind(k2) = Behind(k) + 1
  <2>1. Behind(k2) = m - (l - 1)
    BY <1>5 DEF Behind
  <2> QED  BY <1>1, <2>1
<1>7. \A i \in 1 .. Len(k2.todo) : k2.todo[i] = k2.all[Behind(k2) + i]
  <2> SUFFICES ASSUME NEW i \in 1 .. l - 1
               PROVE  k2.todo[i] = k2.all[Behind(k2) + i]
    BY <1>5
  <2>1. i + 1 \in 1 .. l /\ Behind(k) + (i + 1) = Behind(k2) + i
    <3> DEFINE b == Behind(k)
               b2 == Behind(k2)
    <3>1. m \in Nat /\ l \in 1 .. m /\ b = m - l /\ b2 = b + 1
      BY <1>1, <1>6
    <3> HIDE DEF b, b2
    <3>2. i + 1 \in 1 .. l /\ b + (i + 1) = b2 + i
      BY <3>1
    <3> QED  BY <3>2 DEF b, b2
  <2>2. k.todo[i + 1] = k.all[Behind(k) + (i + 1)]
    BY <1>1, <2>1
  <2> QED  BY <1>2, <1>4, <2>1, <2>2
<1>8. Len(k2.todo) \in 1 .. Len(k2.all)
  BY <1>1, <1>2, <1>5
<1>9. Shaped(k2)
  BY <1>4, <1>7, <1>8 DEF Shaped
<1> QED  BY <1>4, <1>6, <1>9 DEF k2

LEMMA WriteKeeps ==
  ASSUME GraphInv, NEW c \in Clients, Write(c)
  PROVE  GraphInv'
<1> DEFINE k == call[c]
           w == Head(k.todo)
           k2 == [k EXCEPT !.todo = Tail(k.todo), !.inner = 0]
<1>1. /\ k.step = "write" /\ items' = Written(w) /\ behind' = [behind EXCEPT ![w.node] = items[w.node]]
      /\ call' = [call EXCEPT ![c] = IF Len(k.todo) = 1 THEN Idle ELSE k2]
      /\ calls' = calls /\ faults' = faults /\ asked' = asked /\ redone' = redone /\ raced' = raced
  BY DEF Write, SetItem, Written
<1>2. k \in CallRec /\ Shaped(k) /\ Typed
  BY DEF GraphInv, Typed
<1>3. items' \in [Nodes -> Item \cup {NoItem}] /\ Gentle(c) /\ Clean(items', raced')
  BY <1>1, WriteGentle
<1>4. /\ w \in WriteRec /\ w.node \in Nodes /\ Behind(k) \in Nat /\ w = k.all[Behind(k) + 1]
      /\ w.kind = "node" => w.edges = << >>
  <2>1. /\ w \in WriteRec /\ Behind(k) \in Nat /\ w = k.all[Behind(k) + 1]
        /\ w.kind = "node" => w.edges = << >>
    BY <1>1, HeadIs
  <2> QED  BY <2>1 DEF WriteRec
<1>5. behind' \in [Nodes -> Item \cup {NoItem}]
  BY <1>1, <1>2, <1>4, LagTyped
<1>6. Made(k, items', raced') /\ Tracked(k, items', raced')
  BY <1>1, <1>3, OthersKept
<1>7. items'[w.node] # NoItem
  BY <1>1, <1>2, <1>4, WriteEffect
<1>8. CASE Len(k.todo) = 1
  <2>1. call' = [call EXCEPT ![c] = Idle]
    BY <1>1, <1>8
  <2>2. Typed'
    BY <1>1, <1>2, <1>3, <1>5, <2>1, IdleShaped DEF Typed
  <2> QED  BY <1>1, <1>3, <2>1, <2>2, CarryEnd
<1>9. CASE Len(k.todo) # 1
  <2>1. call' = [call EXCEPT ![c] = k2]
    BY <1>1, <1>9
  <2>2. /\ k2 \in CallRec /\ Shaped(k2) /\ k2.op = k.op /\ k2.all = k.all /\ k2.dst = k.dst
        /\ k2.step = "write" /\ Behind(k2) = Behind(k) + 1
    BY <1>1, <1>2, <1>9, Advances
  <2> HIDE DEF k2
  <2>3. Typed'
    BY <1>1, <1>2, <1>3, <1>5, <2>1, <2>2 DEF Typed
  <2>4. Made(k2, items', raced')
    <3> SUFFICES ASSUME NEW j \in 1 .. Behind(k2), k2.all[j].kind = "node", k2.all[j].node \notin raced'
                 PROVE  items'[k2.all[j].node] # NoItem
      BY DEF Made
    <3>1. j \in 1 .. Behind(k) \/ j = Behind(k) + 1
      <4> HIDE DEF k
      <4> QED  BY <1>4, <2>2
    <3>2. CASE j \in 1 .. Behind(k)
      BY <1>1, <1>6, <2>2, <3>2 DEF Made
    <3>3. CASE j = Behind(k) + 1
      BY <1>4, <1>7, <2>2, <3>3
    <3> QED  BY <3>1, <3>2, <3>3
  <2>5. Uses(k2) = Uses(k)
    BY <2>2 DEF Uses
  <2>6. k2.op # "delete_node"
    BY <1>1, <1>2, <2>2 DEF Shaped, Writing
  <2>7. Tracked(k2, items', raced')
    BY <2>6 DEF Tracked
  <2> QED  BY <1>1, <1>3, <2>1, <2>2, <2>3, <2>4, <2>5, <2>6, <2>7, CarryOn
<1> QED  BY <1>8, <1>9

(* A step of a delete that leaves the table alone. *)
LEMMA QuietStep ==
  ASSUME GraphInv, NEW c \in Clients, NEW k2 \in CallRec, call' = [call EXCEPT ![c] = k2],
         call[c].step # "write", Shaped(k2), k2.op = call[c].op, k2.dst = call[c].dst, k2.all = << >>,
         items' = items, behind' = behind, calls' = calls, faults' = faults, asked' = asked,
         redone' = redone, raced \subseteq raced', raced' \subseteq Nodes,
         Tracked(k2, items, raced')
  PROVE  GraphInv'
<1>1. Typed'
  BY DEF GraphInv, Typed
<1>2. Gentle(c) /\ Clean(items', raced')
  BY SameGentle
<1>3. Uses(k2) = {}
  BY UsesNodes
<1>4. Made(k2, items', raced')
  <2>1. k2.step = "write" => Len(k2.todo) \in 1 .. Len(k2.all)
    BY DEF Shaped
  <2>2. Len(k2.all) = 0
    OBVIOUS
  <2>3. k2.step # "write"
    BY <2>1, <2>2
  <2> QED  BY <2>3 DEF Made
<1> QED  BY <1>1, <1>2, <1>3, <1>4, CarryOn

LEMMA ScanKeeps ==
  ASSUME GraphInv, NEW c \in Clients, NEW n \in Nodes, NEW seen, Scan(c, n, seen)
  PROVE  GraphInv'
<1> DEFINE k == call[c]
           left == k.unscanned \ {n}
           found == IF n # k.dst /\ \E e \in ToSet(Lists(seen)) : e.target = k.dst
                    THEN k.sources \cup {n} ELSE k.sources
           step == IF left = {} THEN "next" ELSE "scan"
           k2 == [k EXCEPT !.unscanned = left, !.sources = found, !.step = step]
<1>1. /\ k.step = "scan" /\ n \in k.unscanned
      /\ call' = [call EXCEPT ![c] = k2]
      /\ raced' = (IF seen # items[n] THEN raced \cup {k.dst} ELSE raced)
      /\ items' = items /\ behind' = behind /\ calls' = calls /\ faults' = faults /\ asked' = asked
      /\ redone' = redone
  BY DEF Scan
<1>2. /\ k \in CallRec /\ Shaped(k) /\ Tracked(k, items, raced) /\ raced \subseteq Nodes
  BY DEF GraphInv, Typed
<1>3. k.op = "delete_node" /\ k.dst \in Nodes
  BY <1>1, <1>2 DEF Shaped, Deleting
<1>4. left \subseteq Nodes /\ found \subseteq Nodes /\ step \in {"scan", "next"} /\ (step # "scan" => left = {})
  BY <1>2 DEF CallRec
<1>5. n # k.dst /\ Points(items, n, k.dst) /\ seen = items[n] => n \in found
  BY DEF Points, ToSet
<1>6. k.sources \subseteq found
  OBVIOUS
<1>7. k.unscanned \subseteq left \cup {n}
  OBVIOUS
<1> HIDE DEF left, found, step
<1>8. /\ k2 \in CallRec /\ k2.op = k.op /\ k2.dst = k.dst /\ k2.all = k.all /\ k2.todo = k.todo
      /\ k2.rel = k.rel /\ k2.unscanned = left /\ k2.sources = found /\ k2.step = step
  BY <1>2, <1>4 DEF CallRec, Steps
<1> HIDE DEF k2
<1>9. Shaped(k2) /\ k2.all = << >>
  BY <1>1, <1>2, <1>3, <1>4, <1>8 DEF Shaped, Writing, Deleting
<1>10. Tracked(k2, items, raced')
  <2> SUFFICES ASSUME k.dst \notin raced', NEW s \in Nodes \ {k.dst}, Points(items, s, k.dst)
               PROVE  s \in Ahead(k2)
    BY <1>8 DEF Tracked
  <2>1. seen = items[n] /\ k.dst \notin raced
    BY <1>1
  <2>2. s \in k.unscanned \cup k.sources
    BY <1>1, <1>2, <1>3, <2>1 DEF Tracked, Ahead
  <2>3. s = n => s \in found
    BY <1>5, <2>1
  <2>4. s \in left \cup found
    BY <1>6, <1>7, <2>2, <2>3
  <2> QED  BY <1>8, <2>4 DEF Ahead
<1>11. raced \subseteq raced' /\ raced' \subseteq Nodes
  BY <1>1, <1>2, <1>3
<1>12. k.step # "write"
  BY <1>1
<1> QED  BY <1>1, <1>8, <1>9, <1>10, <1>11, <1>12, QuietStep

LEMMA NextSourceKeeps ==
  ASSUME GraphInv, NEW c \in Clients, NextSource(c)
  PROVE  GraphInv'
<1> DEFINE k == call[c]
<1>1. /\ k.step = "next" /\ k.step # "write"
      /\ items' = items /\ behind' = behind /\ calls' = calls /\ faults' = faults /\ asked' = asked
      /\ redone' = redone /\ raced' = raced /\ raced \subseteq raced'
  BY DEF NextSource
<1>2. /\ k \in CallRec /\ Shaped(k) /\ Tracked(k, items, raced') /\ raced' \subseteq Nodes
  BY <1>1 DEF GraphInv, Typed
<1>3. k.op = "delete_node" /\ k.unscanned = {} /\ k.all = << >> /\ k.todo = << >> /\ k.sources \subseteq Nodes
  BY <1>1, <1>2 DEF Shaped, CallRec
<1>4. 0 \in 0 .. MaxAttempts - 1
  BY GraphAssumption
<1>5. CASE k.sources = {} /\ call' = [call EXCEPT ![c] = [k EXCEPT !.step = "remove", !.inner = 0, !.outer = 0]]
  <2> DEFINE k2 == [k EXCEPT !.step = "remove", !.inner = 0, !.outer = 0]
  <2>1. /\ k2 \in CallRec /\ k2.op = k.op /\ k2.dst = k.dst /\ k2.all = k.all /\ k2.todo = k.todo
        /\ k2.rel = k.rel /\ k2.unscanned = {} /\ k2.sources = {} /\ k2.step = "remove" /\ k2.src = k.src
    BY <1>2, <1>3, <1>4, <1>5 DEF CallRec, Steps
  <2>2. call' = [call EXCEPT ![c] = k2]
    BY <1>5
  <2> HIDE DEF k2
  <2>3. Shaped(k2)
    BY <1>2, <1>3, <2>1 DEF Shaped, Writing, Deleting
  <2>4. Ahead(k) = {}
    BY <1>1, <1>3, <1>5 DEF Ahead
  <2>5. Tracked(k2, items, raced')
    BY <1>2, <2>1, <2>4 DEF Tracked
  <2> QED  BY <1>1, <1>2, <1>3, <2>1, <2>2, <2>3, <2>5, QuietStep
<1>6. ASSUME NEW s \in k.sources,
             call' = [call EXCEPT ![c] = [k EXCEPT !.step = "read", !.src = s, !.sources = k.sources \ {s},
                                                   !.inner = 0, !.outer = 0]]
      PROVE  GraphInv'
  <2> DEFINE k2 == [k EXCEPT !.step = "read", !.src = s, !.sources = k.sources \ {s}, !.inner = 0, !.outer = 0]
  <2>1. /\ k2 \in CallRec /\ k2.op = k.op /\ k2.dst = k.dst /\ k2.all = k.all /\ k2.todo = k.todo
        /\ k2.rel = k.rel /\ k2.unscanned = {} /\ k2.sources = k.sources \ {s} /\ k2.step = "read"
        /\ k2.src = s
    BY <1>2, <1>3, <1>4 DEF CallRec, Steps
  <2>2. call' = [call EXCEPT ![c] = k2]
    BY <1>6
  <2> HIDE DEF k2
  <2>3. Shaped(k2)
    BY <1>2, <1>3, <2>1 DEF Shaped, Writing, Deleting
  <2>4. Ahead(k) \subseteq Ahead(k2)
    BY <1>1, <1>3, <2>1 DEF Ahead
  <2>5. Tracked(k2, items, raced')
    BY <1>2, <2>1, <2>4 DEF Tracked
  <2> QED  BY <1>1, <1>2, <1>3, <2>1, <2>2, <2>3, <2>5, QuietStep
<1> QED  BY <1>5, <1>6 DEF NextSource
(* After _drop_edges an operation goes to its next source, or is over.     *)
LEMMA DroppedIs ==
  ASSUME NEW k \in CallRec, Shaped(k), k.step \in {"read", "rewrite"}
  PROVE  LET d == Dropped(k)
         IN /\ d \in CallRec /\ Shaped(d)
            /\ k.op # "delete_node" => d = Idle
            /\ k.op = "delete_node" =>
                 /\ d.op = k.op /\ d.dst = k.dst /\ d.all = << >> /\ d.sources = k.sources
                 /\ d.unscanned = {}
<1> DEFINE d == Dropped(k)
<1>1. CASE k.op # "delete_node"
  <2>1. d = Idle
    BY <1>1 DEF Dropped
  <2> QED  BY <1>1, <2>1, IdleShaped
<1>2. CASE k.op = "delete_node"
  <2>1. << >> \in Seq(EdgeRec)
    OBVIOUS
  <2>2. /\ d \in CallRec /\ d.op = k.op /\ d.dst = k.dst /\ d.all = k.all /\ d.todo = k.todo
        /\ d.sources = k.sources /\ d.unscanned = k.unscanned /\ d.rel = k.rel /\ d.step = "next"
    BY <1>2, <2>1 DEF Dropped, CallRec, Steps
  <2> HIDE DEF d
  <2>3. k.all = << >> /\ k.todo = << >> /\ k.unscanned = {} /\ k.rel = None /\ k.dst \in Nodes
    BY <1>2 DEF Shaped, Deleting
  <2>4. Shaped(d)
    BY <1>2, <2>2, <2>3 DEF Shaped, Writing, Deleting
  <2> QED  BY <1>2, <2>2, <2>3, <2>4 DEF d
<1> QED  BY <1>1, <1>2

LEMMA DropReadKeeps ==
  ASSUME GraphInv, NEW c \in Clients, NEW n \in Nodes, NEW seen \in Answers(n),
         call[c].src = n, DropRead(c, seen)
  PROVE  GraphInv'
<1> DEFINE k == call[c]
           read == [k EXCEPT !.seen = Lists(seen), !.inner = 0]
           rewrite == [read EXCEPT !.step = "rewrite"]
<1>1. /\ k.step = "read" /\ k.src = n
      /\ call' = [call EXCEPT ![c] = IF Kept(read) = read.seen THEN Dropped(read) ELSE rewrite]
      /\ raced' = (IF seen # items[n] /\ k.op = "delete_node" THEN raced \cup {k.dst} ELSE raced)
      /\ items' = items /\ behind' = behind /\ calls' = calls /\ faults' = faults /\ asked' = asked
      /\ redone' = redone
  BY DEF DropRead
<1>2. /\ k \in CallRec /\ Shaped(k) /\ Tracked(k, items, raced) /\ Typed
  BY DEF GraphInv, Typed
<1>3. k.op \in Deleting /\ k.dst \in Nodes /\ k.all = << >> /\ k.todo = << >> /\ k.unscanned = {}
      /\ (k.op = "delete_node" => k.rel = None)
  BY <1>1, <1>2 DEF Shaped, Deleting, Writing, CallRec
<1>4. seen \in Item \cup {NoItem}
  BY <1>2 DEF Answers, Typed
<1>5. Lists(seen) \in Seq(EdgeRec)
  <2>1. << >> \in Seq(EdgeRec)
    OBVIOUS
  <2> QED  BY <1>4, <2>1 DEF Lists, Item
<1>6. 0 \in 0 .. MaxAttempts - 1
  BY GraphAssumption
<1>7. /\ read \in CallRec /\ read.op = k.op /\ read.dst = k.dst /\ read.all = k.all /\ read.todo = k.todo
      /\ read.rel = k.rel /\ read.unscanned = k.unscanned /\ read.sources = k.sources
      /\ read.step = "read" /\ read.src = k.src /\ read.seen = Lists(seen)
  BY <1>1, <1>2, <1>5, <1>6 DEF CallRec
<1>8. /\ rewrite \in CallRec /\ rewrite.op = k.op /\ rewrite.dst = k.dst /\ rewrite.all = k.all
      /\ rewrite.todo = k.todo /\ rewrite.rel = k.rel /\ rewrite.unscanned = k.unscanned
      /\ rewrite.sources = k.sources /\ rewrite.step = "rewrite" /\ rewrite.src = k.src
  <2> HIDE DEF read
  <2> QED  BY <1>7 DEF CallRec, Steps
<1> HIDE DEF read, rewrite
<1>9. Shaped(read) /\ Shaped(rewrite)
  BY <1>1, <1>2, <1>3, <1>7, <1>8 DEF Shaped, Writing, Deleting
<1>10. raced \subseteq raced' /\ raced' \subseteq Nodes
  BY <1>1, <1>2, <1>3 DEF Typed
<1>11. k.step # "write"
  BY <1>1
<1>12. CASE Kept(read) # read.seen
  <2>1. call' = [call EXCEPT ![c] = rewrite]
    BY <1>1, <1>12
  <2>2. Ahead(k) \subseteq Ahead(rewrite)
    BY <1>1, <1>8 DEF Ahead
  <2>3. Tracked(rewrite, items, raced')
    BY <1>2, <1>8, <1>10, <2>2 DEF Tracked
  <2>4. rewrite.all = << >>
    BY <1>3, <1>8
  <2> QED  BY <1>1, <1>8, <1>9, <1>10, <1>11, <2>1, <2>3, <2>4, QuietStep
<1>13. CASE Kept(read) = read.seen
  <2> DEFINE d == Dropped(read)
  <2>1. call' = [call EXCEPT ![c] = d]
    BY <1>1, <1>13
  <2>2. /\ d \in CallRec /\ Shaped(d)
        /\ read.op # "delete_node" => d = Idle
        /\ read.op = "delete_node" =>
             /\ d.op = read.op /\ d.dst = read.dst /\ d.all = << >> /\ d.sources = read.sources
             /\ d.unscanned = {}
    BY <1>7, <1>9, DroppedIs
  <2> HIDE DEF d
  <2>3. CASE k.op # "delete_node"
    <3>1. call' = [call EXCEPT ![c] = Idle]
      BY <1>7, <2>1, <2>2, <2>3
    <3>2. Typed'
      BY <1>1, <1>2, <1>10, <3>1, IdleShaped DEF Typed
    <3>3. Gentle(c) /\ Clean(items', raced')
      BY <1>1, <1>10, SameGentle
    <3> QED  BY <1>10, <3>1, <3>2, <3>3, CarryEnd
  <2>4. CASE k.op = "delete_node"
    <3>1. \A i \in DOMAIN Lists(seen) : Lists(seen)[i].target # k.dst
      <4>1. \A i \in DOMAIN Kept(read) : ~Matches(read, Kept(read)[i])
        BY <1>7, KeptIs
      <4>2. \A i \in DOMAIN Lists(seen) : ~Matches(read, Lists(seen)[i])
        BY <1>7, <1>13, <4>1
      <4>3. read.rel = None
        BY <1>3, <1>7, <2>4
      <4> QED  BY <1>7, <4>2, <4>3 DEF Matches
    <3>2. Tracked(d, items, raced')
      <4> SUFFICES ASSUME k.dst \notin raced', NEW s \in Nodes \ {k.dst}, Points(items, s, k.dst)
                   PROVE  s \in Ahead(d)
        BY <1>7, <2>2, <2>4 DEF Tracked
      <4>1. seen = items[n] /\ k.dst \notin raced
        BY <1>1, <2>4
      <4>2. s # n
        BY <3>1, <4>1 DEF Points
      <4>3. s \in k.sources
        BY <1>1, <1>2, <1>3, <2>4, <4>1, <4>2 DEF Tracked, Ahead
      <4> QED  BY <1>7, <2>2, <2>4, <4>3 DEF Ahead
    <3>3. d.op = k.op /\ d.dst = k.dst /\ d.all = << >>
      BY <1>7, <2>2, <2>4
    <3> QED  BY <1>1, <1>10, <1>11, <2>1, <2>2, <3>2, <3>3, QuietStep
  <2> QED  BY <2>3, <2>4
<1> QED  BY <1>12, <1>13

LEMMA DropWriteKeeps ==
  ASSUME GraphInv, NEW c \in Clients, DropWrite(c)
  PROVE  GraphInv'
<1> DEFINE k == call[c]
<1>1. /\ k.step = "rewrite"
      /\ calls' = calls /\ faults' = faults /\ asked' = asked /\ redone' = redone /\ raced' = raced
      /\ raced \subseteq raced'
  BY DEF DropWrite
<1>2. /\ k \in CallRec /\ Shaped(k) /\ Tracked(k, items, raced) /\ Typed
  BY DEF GraphInv, Typed
<1>3. k.op \in Deleting /\ k.src \in Nodes /\ k.dst \in Nodes /\ k.unscanned = {} /\ k.all = << >>
      /\ (k.op = "delete_node" => k.rel = None)
  BY <1>1, <1>2 DEF Shaped, Deleting, Writing, CallRec
<1>4. CASE /\ Unchanged(k) /\ items' = Rewritten(k) /\ behind' = [behind EXCEPT ![k.src] = items[k.src]]
           /\ call' = [call EXCEPT ![c] = Dropped(k)]
  <2> DEFINE d == Dropped(k)
  <2>1. items' \in [Nodes -> Item \cup {NoItem}] /\ Gentle(c) /\ Clean(items', raced')
    BY <1>1, <1>4, RewriteGentle
  <2>2. behind' \in [Nodes -> Item \cup {NoItem}]
    BY <1>2, <1>3, <1>4, LagTyped
  <2>3. /\ d \in CallRec /\ Shaped(d)
        /\ k.op # "delete_node" => d = Idle
        /\ k.op = "delete_node" =>
             /\ d.op = k.op /\ d.dst = k.dst /\ d.all = << >> /\ d.sources = k.sources
             /\ d.unscanned = {}
    BY <1>1, <1>2, DroppedIs
  <2>4. call' = [call EXCEPT ![c] = d]
    BY <1>4
  <2> HIDE DEF d
  <2>5. Typed'
    BY <1>1, <1>2, <2>1, <2>2, <2>3, <2>4 DEF Typed
  <2>6. CASE k.op # "delete_node"
    BY <1>1, <2>1, <2>3, <2>4, <2>5, <2>6, CarryEnd
  <2>7. CASE k.op = "delete_node"
    <3>1. ~Points(items', k.src, k.dst)
      BY <1>2, <1>3, <1>4, <2>7, RewriteEffect
    <3>2. Tracked(k, items', raced')
      BY <1>1, <2>1, OthersKept
    <3>3. Tracked(d, items', raced')
      <4> SUFFICES ASSUME k.dst \notin raced', NEW s \in Nodes \ {k.dst}, Points(items', s, k.dst)
                   PROVE  s \in Ahead(d)
        BY <2>3, <2>7 DEF Tracked
      <4>1. s # k.src
        BY <3>1
      <4>2. s \in k.sources
        BY <1>1, <1>3, <2>7, <3>2, <4>1 DEF Tracked, Ahead
      <4> QED  BY <2>3, <2>7, <4>2 DEF Ahead
    <3>4. Made(d, items', raced')
      <4>1. d.step # "write"
        BY <2>3, <2>7 DEF Shaped, Writing
      <4> QED  BY <4>1 DEF Made
    <3>5. Uses(d) = {}
      BY <2>3, <2>7, UsesNodes
    <3> QED  BY <1>1, <2>1, <2>3, <2>4, <2>5, <2>7, <3>3, <3>4, <3>5, CarryOn
  <2> QED  BY <2>6, <2>7
<1>5. CASE /\ call' = [call EXCEPT ![c] = AfterFailure(k)] /\ items' = items /\ behind' = behind
  <2>1. InRequest(k)
    BY <1>1 DEF InRequest
  <2>2. AfterFailure(k) \in CallRec
    BY <1>2, <2>1, FailureIs
  <2>3. Typed'
    BY <1>1, <1>2, <1>5, <2>2 DEF Typed
  <2>4. Gentle(c) /\ Clean(items', raced')
    BY <1>1, <1>5, SameGentle
  <2> QED  BY <1>1, <1>5, <2>1, <2>3, <2>4, CarryFailed
<1> QED  BY <1>4, <1>5 DEF DropWrite, SetItem, Rewritten

LEMMA RemoveItemKeeps ==
  ASSUME GraphInv, NEW c \in Clients, RemoveItem(c)
  PROVE  GraphInv'
<1> DEFINE t == call[c].dst
<1>1. /\ call[c].step = "remove" /\ items' = Removed(t) /\ behind' = [behind EXCEPT ![t] = items[t]]
      /\ call' = [call EXCEPT ![c] = Idle]
      /\ calls' = calls /\ faults' = faults /\ asked' = asked /\ redone' = redone /\ raced' = raced
      /\ raced \subseteq raced'
  BY DEF RemoveItem, SetItem, Removed
<1>2. items' \in [Nodes -> Item \cup {NoItem}] /\ Gentle(c) /\ Clean(items', raced')
  BY <1>1, RemoveGentle
<1>3. Typed /\ t \in Nodes
  BY <1>1 DEF GraphInv, Typed, Shaped, Deleting
<1>4. behind' \in [Nodes -> Item \cup {NoItem}]
  BY <1>1, <1>3, LagTyped
<1>5. Typed'
  BY <1>1, <1>2, <1>3, <1>4, IdleShaped DEF Typed
<1> QED  BY <1>1, <1>2, <1>5, CarryEnd

LEMMA RequestFailsKeeps ==
  ASSUME GraphInv, NEW c \in Clients, RequestFails(c)
  PROVE  GraphInv'
<1>1. /\ InRequest(call[c]) /\ call' = [call EXCEPT ![c] = AfterFailure(call[c])]
      /\ faults < MaxFaults /\ faults' = faults + 1
      /\ items' = items /\ behind' = behind /\ calls' = calls /\ asked' = asked /\ redone' = redone
      /\ raced' = raced /\ raced \subseteq raced'
  BY DEF RequestFails
<1>2. Typed /\ call[c] \in CallRec /\ Shaped(call[c])
  BY DEF GraphInv, Typed
<1>3. AfterFailure(call[c]) \in CallRec
  BY <1>1, <1>2, FailureIs
<1>4. faults' \in 0 .. MaxFaults
  BY <1>1, <1>2, GraphAssumption DEF Typed
<1>5. Typed'
  BY <1>1, <1>2, <1>3, <1>4 DEF Typed
<1>6. Gentle(c) /\ Clean(items', raced')
  BY <1>1, SameGentle
<1> QED  BY <1>1, <1>5, <1>6, CarryFailed

Raised(T, n, e) == [T EXCEPT ![n][e] = @ + 1]

LEMMA TallyUp ==
  ASSUME NEW T \in Tallies, NEW n \in Nodes, NEW e
  PROVE  /\ Raised(T, n, e) \in Tallies
         /\ \A m \in Nodes, f \in EdgeRec :
              Raised(T, n, e)[m][f] = T[m][f] + (IF m = n /\ f = e THEN 1 ELSE 0)
<1> DEFINE row == T[n]
           row2 == [row EXCEPT ![e] = row[e] + 1]
           T2 == [T EXCEPT ![n] = row2]
<1>1. row \in [EdgeRec -> Nat] /\ T \in [Nodes -> [EdgeRec -> Nat]]
  BY DEF Tallies
<1> HIDE DEF row
<1>2. /\ row2 \in [EdgeRec -> Nat]
      /\ \A f \in EdgeRec : row2[f] = row[f] + (IF f = e THEN 1 ELSE 0)
  <2>1. \A f \in EdgeRec : row2[f] = (IF f = e THEN row[e] + 1 ELSE row[f]) /\ row[f] \in Nat
    BY <1>1
  <2>2. DOMAIN row2 = EdgeRec /\ row2 = [f \in EdgeRec |-> row2[f]]
    BY <1>1
  <2>3. \A f \in EdgeRec : row2[f] = row[f] + (IF f = e THEN 1 ELSE 0) /\ row2[f] \in Nat
    BY <2>1
  <2> HIDE DEF row2
  <2> QED  BY <2>2, <2>3
<1> HIDE DEF row2
<1>3. T2 \in Tallies /\ T2[n] = row2 /\ \A m \in Nodes : m # n => T2[m] = T[m]
  BY <1>1, <1>2 DEF Tallies
<1>4. \A m \in Nodes, f \in EdgeRec : T[m][f] \in Nat
  BY <1>1
<1> HIDE DEF T2
<1>5. \A m \in Nodes, f \in EdgeRec : T2[m][f] = T[m][f] + (IF m = n /\ f = e THEN 1 ELSE 0)
  BY <1>2, <1>3, <1>4 DEF row
<1>6. T2 = Raised(T, n, e)
  BY DEF T2, row2, row, Raised
<1> QED  BY <1>3, <1>5, <1>6

LEMMA AnswerLostKeeps ==
  ASSUME GraphInv, NEW c \in Clients, AnswerLost(c)
  PROVE  GraphInv'
<1> DEFINE k == call[c]
           w == Head(k.todo)
<1>1. /\ call' = [call EXCEPT ![c] = AfterFailure(k)] /\ faults < MaxFaults /\ faults' = faults + 1
      /\ calls' = calls /\ asked' = asked /\ raced' = raced /\ raced \subseteq raced'
  BY DEF AnswerLost
<1>2. Typed /\ k \in CallRec /\ Shaped(k)
  BY DEF GraphInv, Typed
<1>3. faults' \in 0 .. MaxFaults
  BY <1>1, <1>2, GraphAssumption DEF Typed
<1>4. ASSUME InRequest(k), items' \in [Nodes -> Item \cup {NoItem}], Gentle(c), Clean(items', raced),
             NEW n \in Nodes, behind' = [behind EXCEPT ![n] = items[n]], redone' \in Tallies
      PROVE  GraphInv'
  <2>1. AfterFailure(k) \in CallRec
    BY <1>2, <1>4, FailureIs
  <2>2. behind' \in [Nodes -> Item \cup {NoItem}]
    BY <1>2, <1>4, LagTyped
  <2>3. Typed'
    BY <1>1, <1>2, <1>3, <1>4, <2>1, <2>2 DEF Typed
  <2>4. Clean(items', raced')
    BY <1>1, <1>4
  <2> QED  BY <1>1, <1>4, <2>3, <2>4, CarryFailed
<1>5. CASE /\ k.step = "write" /\ items' = Written(w) /\ behind' = [behind EXCEPT ![w.node] = items[w.node]]
           /\ redone' = IF k.op = "add_edge" /\ w.kind = "append"
                        THEN [redone EXCEPT ![w.node][w.edges[1]] = @ + 1] ELSE redone
  <2>1. InRequest(k)
    BY <1>5 DEF InRequest
  <2>2. items' \in [Nodes -> Item \cup {NoItem}] /\ Gentle(c) /\ Clean(items', raced)
    BY <1>5, WriteGentle
  <2>3. w \in WriteRec /\ w.node \in Nodes
    <3>1. w \in WriteRec
      BY <1>5, HeadIs
    <3> QED  BY <3>1 DEF WriteRec
  <2>4. redone' \in Tallies
    <3>1. redone \in Tallies
      BY <1>2 DEF Typed
    <3>2. Raised(redone, w.node, w.edges[1]) \in Tallies
      BY <2>3, <3>1, TallyUp
    <3> QED  BY <1>5, <3>1, <3>2 DEF Raised
  <2> QED  BY <1>4, <1>5, <2>1, <2>2, <2>3, <2>4
<1>6. CASE /\ k.step = "rewrite" /\ Unchanged(k) /\ items' = Rewritten(k)
           /\ behind' = [behind EXCEPT ![k.src] = items[k.src]] /\ redone' = redone
  <2>1. InRequest(k) /\ k.src \in Nodes /\ redone' \in Tallies
    BY <1>2, <1>6 DEF InRequest, Shaped, Typed
  <2>2. items' \in [Nodes -> Item \cup {NoItem}] /\ Gentle(c) /\ Clean(items', raced)
    BY <1>6, RewriteGentle
  <2> QED  BY <1>4, <1>6, <2>1, <2>2
<1>7. CASE /\ k.step = "remove" /\ items' = Removed(k.dst)
           /\ behind' = [behind EXCEPT ![k.dst] = items[k.dst]] /\ redone' = redone
  <2>1. InRequest(k) /\ k.dst \in Nodes /\ redone' \in Tallies
    BY <1>2, <1>7 DEF InRequest, Shaped, Typed, Deleting
  <2>2. items' \in [Nodes -> Item \cup {NoItem}] /\ Gentle(c) /\ Clean(items', raced)
    BY <1>7, RemoveGentle
  <2> QED  BY <1>4, <1>7, <2>1, <2>2
<1> QED  BY <1>5, <1>6, <1>7 DEF AnswerLost, SetItem, Written, Rewritten, Removed

LEMMA DiesKeeps ==
  ASSUME GraphInv, NEW c \in Clients, Dies(c)
  PROVE  GraphInv'
<1>1. /\ call' = [call EXCEPT ![c] = Idle] /\ faults < MaxFaults /\ faults' = faults + 1
      /\ items' = items /\ behind' = behind /\ calls' = calls /\ asked' = asked /\ redone' = redone
      /\ raced' = raced /\ raced \subseteq raced'
  BY DEF Dies
<1>2. Typed
  BY DEF GraphInv
<1>3. faults' \in 0 .. MaxFaults
  BY <1>1, <1>2, GraphAssumption DEF Typed
<1>4. Typed'
  BY <1>1, <1>2, <1>3, IdleShaped DEF Typed
<1>5. Gentle(c) /\ Clean(items', raced')
  BY <1>1, SameGentle
<1> QED  BY <1>1, <1>4, <1>5, CarryEnd

(* Only the replicas, or nothing, changed. *)
LEMMA TableKeeps ==
  ASSUME GraphInv, behind' \in [Nodes -> Item \cup {NoItem}],
         UNCHANGED <<items, call, calls, faults, asked, redone, raced>>
  PROVE  GraphInv'
<1>1. Typed'
  BY DEF GraphInv, Typed
<1>2. \A c \in Clients :
        Shaped(call'[c]) /\ Made(call'[c], items', raced') /\ Tracked(call'[c], items', raced')
  BY DEF GraphInv
<1>3. Crossed'
  BY DEF GraphInv, Crossed
<1>4. Clean(items', raced')
  BY DEF GraphInv
<1> QED  BY <1>1, <1>2, <1>3, <1>4 DEF GraphInv

LEMMA StartCallKeeps ==
  ASSUME GraphInv, NEW c \in Clients, StartCall(c)
  PROVE  GraphInv'
<1>1. ASSUME NEW n \in Nodes, AddNode(c, n)  PROVE GraphInv'
  BY <1>1, AddNodeMade, StartWriterKeeps DEF AddNode
<1>2. ASSUME NEW s \in Nodes, NEW t \in Nodes, NEW r \in Relations, AddEdge(c, s, r, t)  PROVE GraphInv'
  BY <1>2, AddEdgeMade, StartWriterKeeps DEF AddEdge
<1>3. ASSUME NEW n \in Nodes, NEW d \in Docs, LinkDocs(c, n, << d >>)  PROVE GraphInv'
  <2>1. << d >> \in Seq(Docs)
    OBVIOUS
  <2> QED  BY <1>3, <2>1, LinkDocsMade, StartWriterKeeps DEF LinkDocs
<1>4. ASSUME NEW edges \in Imports, ImportGraph(c, edges)  PROVE GraphInv'
  BY <1>4, ImportMade, StartWriterKeeps DEF ImportGraph
<1>5. ASSUME NEW s \in Nodes, NEW t \in Nodes, NEW r \in Relations, DeleteEdge(c, s, r, t)  PROVE GraphInv'
  BY <1>5, DeleteEdgeKeeps
<1>6. ASSUME NEW t \in Nodes, DeleteNode(c, t)  PROVE GraphInv'
  BY <1>6, DeleteNodeKeeps
<1> QED  BY <1>1, <1>2, <1>3, <1>4, <1>5, <1>6 DEF StartCall

LEMMA GraphInvStep ==
  ASSUME GraphInv, [GraphNext]_gvars
  PROVE  GraphInv'
<1>1. ASSUME NEW c \in Clients, StartCall(c)  PROVE GraphInv'
  BY <1>1, StartCallKeeps
<1>2. ASSUME NEW c \in Clients, Progress(c)  PROVE GraphInv'
  <2>1. CASE Write(c)
    BY <2>1, WriteKeeps
  <2>2. ASSUME NEW n \in Nodes, NEW seen \in Answers(n), Scan(c, n, seen)  PROVE GraphInv'
    BY <2>2, ScanKeeps
  <2>3. CASE NextSource(c)
    BY <2>3, NextSourceKeeps
  <2>4. ASSUME NEW n \in Nodes, NEW seen \in Answers(n), call[c].src = n, DropRead(c, seen)  PROVE GraphInv'
    BY <2>4, DropReadKeeps
  <2>5. CASE DropWrite(c)
    BY <2>5, DropWriteKeeps
  <2>6. CASE RemoveItem(c)
    BY <2>6, RemoveItemKeeps
  <2> QED  BY <1>2, <2>1, <2>2, <2>3, <2>4, <2>5, <2>6 DEF Progress
<1>3. ASSUME NEW c \in Clients, Fault(c)  PROVE GraphInv'
  BY <1>3, RequestFailsKeeps, AnswerLostKeeps, DiesKeeps DEF Fault
<1>4. ASSUME NEW n \in Nodes, CatchUp(n)  PROVE GraphInv'
  <2>1. Typed /\ behind' = [behind EXCEPT ![n] = items[n]]
    BY <1>4 DEF GraphInv, CatchUp
  <2>2. behind' \in [Nodes -> Item \cup {NoItem}]
    BY <2>1, LagTyped
  <2> QED  BY <1>4, <2>2, TableKeeps DEF CatchUp
<1>5. CASE UNCHANGED gvars
  BY <1>5, TableKeeps DEF gvars, GraphInv, Typed
<1> QED  BY <1>1, <1>2, <1>3, <1>4, <1>5 DEF GraphNext
LEMMA GraphInvInit ==
  ASSUME GraphInit
  PROVE  GraphInv
<1>1. /\ items \in [Nodes -> Item \cup {NoItem}]
      /\ \A n \in Nodes : items[n] # NoItem =>
           items[n].known /\ \A e \in ToSet(items[n].edges) : items[e.target] # NoItem
  BY StartsAssumption DEF GraphInit
<1>2. /\ behind = items /\ call = [c \in Clients |-> Idle] /\ calls = 0 /\ faults = 0 /\ raced = {}
      /\ asked = [n \in Nodes |-> [e \in EdgeRec |-> Copies(n, e)]]
      /\ redone = [n \in Nodes |-> [e \in EdgeRec |-> 0]]
  BY DEF GraphInit
<1>3. \A n \in Nodes, e \in EdgeRec : Copies(n, e) \in Nat
  <2> SUFFICES ASSUME NEW n \in Nodes, NEW e \in EdgeRec  PROVE Copies(n, e) \in Nat
    OBVIOUS
  <2>1. << >> \in Seq(EdgeRec)
    OBVIOUS
  <2>2. Lists(items[n]) \in Seq(EdgeRec)
    BY <1>1, <2>1 DEF Lists, Item
  <2> QED  BY <2>2, CountFinite DEF Copies
<1>4. asked \in Tallies /\ redone \in Tallies
  BY <1>2, <1>3 DEF Tallies
<1>5. call \in [Clients -> CallRec]
  BY <1>2, IdleShaped
<1>6. Typed
  BY <1>1, <1>2, <1>4, <1>5, GraphAssumption DEF Typed
<1>7. \A c \in Clients :
        /\ call[c] = Idle /\ Shaped(call[c]) /\ Made(call[c], items, raced)
        /\ Tracked(call[c], items, raced)
  BY <1>2, IdleShaped, IdleQuiet
<1>8. Crossed
  BY <1>7, IdleShaped DEF Crossed
<1>9. Clean(items, raced)
  <2> SUFFICES ASSUME NEW n \in Nodes, items[n] = NoItem, NEW s \in Nodes, Points(items, s, n)
               PROVE  FALSE
    BY <1>1 DEF Clean
  <2>1. PICK i \in DOMAIN Lists(items[s]) : Lists(items[s])[i].target = n
    BY DEF Points
  <2>2. items[s] # NoItem
    <3>1. DOMAIN << >> = {}
      OBVIOUS
    <3> QED  BY <2>1, <3>1 DEF Lists
  <2>3. Lists(items[s])[i] \in ToSet(items[s].edges)
    BY <2>1, <2>2 DEF Lists, ToSet
  <2> QED  BY <1>1, <2>1, <2>2, <2>3
<1> QED  BY <1>6, <1>7, <1>8, <1>9 DEF GraphInv

LEMMA GraphInvGives ==
  ASSUME GraphInv
  PROVE  NoDangling
<1>1. Typed /\ Clean(items, raced)
  BY DEF GraphInv
<1>2. \A c \in Clients :
        /\ call[c].inner \in 0 .. MaxAttempts - 1 /\ call[c].outer \in 0 .. MaxAttempts - 1
        /\ call[c].seen \in Seq(EdgeRec)
  BY <1>1 DEF Typed, CallRec
<1>3. GraphTypeOK
  BY <1>1, <1>2 DEF GraphTypeOK, Typed
<1>4. \A n \in Nodes \ raced :
        items[n] = NoItem => \A s \in Nodes : \A e \in ToSet(Lists(items[s])) : e.target # n
  BY <1>1 DEF Clean, Points, ToSet
<1> QED  BY <1>1, <1>3, <1>4 DEF NoDangling, Clean

(* Calls, table and replicas stay in step, in the sense of GraphInv,       *)
(* through every request of add_node, add_edge, link_docs, delete_edge,    *)
(* delete_node and import_graph, however they fail and interleave.         *)
THEOREM GraphStays == GraphSpec => []GraphInv
<1>1. GraphInit => GraphInv
  BY GraphInvInit
<1>2. GraphInv /\ [GraphNext]_gvars => GraphInv'
  BY GraphInvStep
<1> QED  BY <1>1, <1>2, PTL DEF GraphSpec

(* No edge leads to a node without an item, and add_node filled in every   *)
(* item, but for nodes whose delete_node something overlapped or a lagging *)
(* read misled: inbound edges go before the node does, also when           *)
(* delete_node fails or its caller dies part way.                          *)
THEOREM NothingDangles == GraphSpec => []NoDangling
<1>1. GraphInv => NoDangling
  BY GraphInvGives
<1> QED  BY <1>1, GraphStays, PTL
-----------------------------------------------------------------------------
(***************************************************************************)
(* What a step does to the table.                                          *)
(***************************************************************************)
LEMMA TableStep ==
  ASSUME GraphInv, [GraphNext]_gvars
  PROVE  \/ items' = items
         \/ \E c \in Clients :
              \/ call[c].step = "write" /\ items' = Written(Head(call[c].todo))
              \/ call[c].step = "rewrite" /\ Unchanged(call[c]) /\ items' = Rewritten(call[c])
              \/ call[c].step = "remove" /\ items' = Removed(call[c].dst)
<1>1. ASSUME NEW c \in Clients, StartCall(c)  PROVE items' = items
  BY <1>1 DEF StartCall, AddNode, AddEdge, LinkDocs, ImportGraph, StartWriter, DeleteEdge, DeleteNode
<1>2. ASSUME NEW c \in Clients, Progress(c)
      PROVE  \/ items' = items
             \/ call[c].step = "write" /\ items' = Written(Head(call[c].todo))
             \/ call[c].step = "rewrite" /\ Unchanged(call[c]) /\ items' = Rewritten(call[c])
             \/ call[c].step = "remove" /\ items' = Removed(call[c].dst)
  <2>1. CASE Write(c)
    BY <2>1 DEF Write, SetItem, Written
  <2>2. ASSUME NEW n \in Nodes, NEW seen \in Answers(n), Scan(c, n, seen)  PROVE items' = items
    BY <2>2 DEF Scan
  <2>3. CASE NextSource(c)
    BY <2>3 DEF NextSource
  <2>4. ASSUME NEW n \in Nodes, NEW seen \in Answers(n), DropRead(c, seen)  PROVE items' = items
    BY <2>4 DEF DropRead
  <2>5. CASE DropWrite(c)
    BY <2>5 DEF DropWrite, SetItem, Rewritten
  <2>6. CASE RemoveItem(c)
    BY <2>6 DEF RemoveItem, SetItem, Removed
  <2> QED  BY <1>2, <2>1, <2>2, <2>3, <2>4, <2>5, <2>6 DEF Progress
<1>3. ASSUME NEW c \in Clients, Fault(c)
      PROVE  \/ items' = items
             \/ call[c].step = "write" /\ items' = Written(Head(call[c].todo))
             \/ call[c].step = "rewrite" /\ Unchanged(call[c]) /\ items' = Rewritten(call[c])
             \/ call[c].step = "remove" /\ items' = Removed(call[c].dst)
  <2>1. CASE RequestFails(c)
    BY <2>1 DEF RequestFails
  <2>2. CASE AnswerLost(c)
    BY <2>2 DEF AnswerLost, SetItem, Written, Rewritten, Removed
  <2>3. CASE Dies(c)
    BY <2>3 DEF Dies
  <2> QED  BY <1>3, <2>1, <2>2, <2>3 DEF Fault
<1>4. ASSUME NEW n \in Nodes, CatchUp(n)  PROVE items' = items
  BY <1>4 DEF CatchUp
<1>5. CASE UNCHANGED gvars
  BY <1>5 DEF gvars
<1> QED  BY <1>1, <1>2, <1>3, <1>4, <1>5 DEF GraphNext

(* Fewer copies of an edge are left only by a rewrite that drops it or by  *)
(* the removal of its node.                                                *)
LEMMA LeavesStep ==
  ASSUME GraphInv, [GraphNext]_gvars, NEW n \in Nodes, NEW e \in EdgeRec,
         Copies(n, e)' < Copies(n, e)
  PROVE  \E c \in Clients :
           \/ call[c].step = "rewrite" /\ call[c].src = n /\ Matches(call[c], e)
           \/ call[c].step = "remove" /\ call[c].dst = n
<1>1. Typed
  BY DEF GraphInv
<1>2. Count(Lists(items'[n]), e) < Count(Lists(items[n]), e)
  BY DEF Copies
<1>3. Lists(items[n]) \in Seq(EdgeRec)
  <2>1. << >> \in Seq(EdgeRec)
    OBVIOUS
  <2> QED  BY <1>1, <2>1 DEF Lists, Item, Typed
<1>4. Count(Lists(items[n]), e) \in Nat
  BY <1>3, CountFinite
<1>5. CASE items' = items
  BY <1>2, <1>4, <1>5
<1>6. ASSUME NEW c \in Clients, call[c].step = "write", items' = Written(Head(call[c].todo))
      PROVE  FALSE
  <2> DEFINE w == Head(call[c].todo)
  <2>1. w \in WriteRec /\ (w.kind = "node" => w.edges = << >>)
    BY <1>6, HeadIs
  <2>2. items' = Written(w)
    BY <1>6
  <2> HIDE DEF w
  <2>3. Count(Lists(items'[n]), e) =
          Count(Lists(items[n]), e) + (IF w.kind = "append" /\ n = w.node THEN Count(w.edges, e) ELSE 0)
    BY <1>1, <2>1, <2>2, WriteEffect
  <2>4. Count(w.edges, e) \in Nat
    <3>1. w.edges \in Seq(EdgeRec)
      BY <2>1 DEF WriteRec
    <3> QED  BY <3>1, CountFinite
  <2> QED  BY <1>2, <1>4, <2>3, <2>4
<1>7. ASSUME NEW c \in Clients, call[c].step = "rewrite", Unchanged(call[c]), items' = Rewritten(call[c])
      PROVE  call[c].src = n /\ Matches(call[c], e)
  <2>1. call[c] \in CallRec /\ call[c].src \in Nodes
    BY <1>7 DEF GraphInv, Typed, Shaped
  <2> QED  BY <1>1, <1>2, <1>7, <2>1, RewriteEffect
<1>8. ASSUME NEW c \in Clients, call[c].step = "remove", items' = Removed(call[c].dst)
      PROVE  call[c].dst = n
  <2>1. call[c].dst \in Nodes
    BY <1>8 DEF GraphInv, Shaped, Deleting
  <2> QED  BY <1>1, <1>2, <1>8, <2>1, RemoveEffect
<1> QED  BY <1>5, <1>6, <1>7, <1>8, TableStep

(* _drop_edges loses nobody's edge: one leaves an adjacency list only for  *)
(* a delete_edge or delete_node that it matches, or with its own node,     *)
(* whatever is appended between the read and the write.                    *)
THEOREM OnlyMatchesLeave == GraphSpec => OnlyMatchingEdgesLeave
<1>1. GraphInv /\ [GraphNext]_gvars =>
        [\A n \in Nodes, e \in EdgeRec :
           Copies(n, e)' < Copies(n, e) =>
             \E c \in Clients :
               \/ call[c].step = "rewrite" /\ call[c].src = n /\ Matches(call[c], e)
               \/ call[c].step = "remove" /\ call[c].dst = n]_gvars
  BY LeavesStep
<1> QED  BY <1>1, GraphStays, PTL DEF GraphSpec, OnlyMatchingEdgesLeave
-----------------------------------------------------------------------------
(***************************************************************************)
(* Appends are accounted for.                                              *)
(***************************************************************************)
LEMMA CopiesFinite ==
  ASSUME Typed, NEW n \in Nodes, NEW e \in EdgeRec
  PROVE  /\ Copies(n, e) \in Nat /\ Copies(n, e) = Count(Lists(items[n]), e)
         /\ asked[n][e] \in Nat /\ redone[n][e] \in Nat
<1>1. << >> \in Seq(EdgeRec)
  OBVIOUS
<1>2. Lists(items[n]) \in Seq(EdgeRec)
  BY <1>1 DEF Typed, Lists, Item
<1> QED  BY <1>2, CountFinite DEF Copies, Typed, Tallies

(* A call that owes no more leaves no more owed. *)
LEMMA OwedNoMore ==
  ASSUME Typed, NEW c \in Clients, NEW k2, call' = [call EXCEPT ![c] = k2],
         NEW n \in Nodes, NEW e \in EdgeRec, OwedIn(k2, n, e) \subseteq OwedIn(call[c], n, e)
  PROVE  Owed(n, e)' \subseteq Owed(n, e)
<1>1. call'[c] = k2 /\ \A d \in Clients : d # c => call'[d] = call[d]
  BY DEF Typed
<1>2. \A q : q \in Owed(n, e) <=> q \in Clients \X (Nat \X Nat) /\ q[2] \in OwedIn(call[q[1]], n, e)
  BY DEF Owed
<1>3. \A q : q \in Owed(n, e)' <=> q \in Clients \X (Nat \X Nat) /\ q[2] \in OwedIn(call'[q[1]], n, e)
  BY DEF Owed
<1> SUFFICES ASSUME NEW q, q \in Owed(n, e)'  PROVE q \in Owed(n, e)
  OBVIOUS
<1>4. q \in Clients \X (Nat \X Nat) /\ q[2] \in OwedIn(call'[q[1]], n, e) /\ q[1] \in Clients
  BY <1>3
<1>5. CASE q[1] = c
  BY <1>1, <1>2, <1>4, <1>5
<1>6. CASE q[1] # c
  BY <1>1, <1>2, <1>4, <1>6
<1> QED  BY <1>5, <1>6

(* Where no edge is appended and no more is owed, the accounts hold.       *)
LEMMA AccountedCalm ==
  ASSUME Typed, Typed', Accounted, asked' = asked, redone' = redone,
         \A n \in Nodes, e \in EdgeRec : Owed(n, e)' \subseteq Owed(n, e) /\ Copies(n, e)' <= Copies(n, e)
  PROVE  Accounted'
<1> SUFFICES ASSUME NEW n \in Nodes, NEW e \in EdgeRec
             PROVE  /\ IsFiniteSet(Owed(n, e)')
                    /\ Copies(n, e)' + Cardinality(Owed(n, e)') <= asked'[n][e] + redone'[n][e]
  BY DEF Accounted
<1> DEFINE O == Owed(n, e)
           P == Owed(n, e)'
<1>1. IsFiniteSet(O) /\ Copies(n, e) + Cardinality(O) <= asked[n][e] + redone[n][e]
  BY DEF Accounted
<1>2. P \subseteq O /\ Copies(n, e)' <= Copies(n, e)
  OBVIOUS
<1>3. Copies(n, e) \in Nat /\ Copies(n, e)' \in Nat /\ asked[n][e] \in Nat /\ redone[n][e] \in Nat
  <2>1. Copies(n, e) \in Nat /\ asked[n][e] \in Nat /\ redone[n][e] \in Nat
    BY CopiesFinite
  <2>2. << >> \in Seq(EdgeRec)
    OBVIOUS
  <2>3. Lists(items'[n]) \in Seq(EdgeRec)
    BY <2>2 DEF Typed, Lists, Item
  <2>4. Copies(n, e)' \in Nat
    BY <2>3, CountFinite DEF Copies
  <2> QED  BY <2>1, <2>4
<1> HIDE DEF O, P
<1>4. IsFiniteSet(P) /\ Cardinality(P) <= Cardinality(O) /\ Cardinality(P) \in Nat /\ Cardinality(O) \in Nat
  BY <1>1, <1>2, FS_Subset, FS_CardinalityType
<1>5. Copies(n, e)' + Cardinality(P) <= asked[n][e] + redone[n][e]
  BY <1>1, <1>2, <1>3, <1>4
<1> QED  BY <1>4, <1>5 DEF P

(* Where a call appends what it owed, the accounts hold.                   *)
LEMMA AccountedAppend ==
  ASSUME Typed, Typed', Accounted, asked' = asked, redone' = redone,
         NEW c \in Clients, call[c].step = "write", NEW b \in Nat, b = Behind(call[c]),
         b + 1 \in DOMAIN call[c].all, NEW w \in WriteRec, w = call[c].all[b + 1],
         w.kind = "node" => w.edges = << >>, items' = Written(w),
         NEW k2, call' = [call EXCEPT ![c] = k2],
         \A n \in Nodes, e \in EdgeRec :
           \A p \in OwedIn(k2, n, e) : p \in OwedIn(call[c], n, e) /\ p[1] # b + 1
  PROVE  Accounted'
<1> SUFFICES ASSUME NEW n \in Nodes, NEW e \in EdgeRec
             PROVE  /\ IsFiniteSet(Owed(n, e)')
                    /\ Copies(n, e)' + Cardinality(Owed(n, e)') <= asked'[n][e] + redone'[n][e]
  BY DEF Accounted
<1> DEFINE O == Owed(n, e)
           P == Owed(n, e)'
           J == {j \in DOMAIN w.edges : w.edges[j] = e}
           D == IF w.kind = "append" /\ n = w.node THEN {<<c, <<b + 1, j>>>> : j \in J} ELSE {}
           gain == IF w.kind = "append" /\ n = w.node THEN Count(w.edges, e) ELSE 0
           old == Copies(n, e)
<1>1. IsFiniteSet(O) /\ old + Cardinality(O) <= asked[n][e] + redone[n][e]
  BY DEF Accounted
<1>2. old \in Nat /\ asked[n][e] \in Nat /\ redone[n][e] \in Nat /\ old = Count(Lists(items[n]), e)
  BY CopiesFinite
<1>3. w.edges \in Seq(EdgeRec)
  BY DEF WriteRec
<1>4. IsFiniteSet(J) /\ Cardinality(J) = Count(w.edges, e) /\ Count(w.edges, e) \in Nat /\ J \subseteq Nat
  <2>1. IsFiniteSet(J) /\ Count(w.edges, e) \in Nat
    BY <1>3, CountFinite
  <2>2. J \subseteq Nat
    BY <1>3
  <2> QED  BY <2>1, <2>2 DEF Count
<1>5. Copies(n, e)' = old + gain
  <2>1. Count(Lists(items'[n]), e) = Count(Lists(items[n]), e) + gain
    BY WriteEffect
  <2> QED  BY <1>2, <2>1 DEF Copies
<1>6. P \subseteq O
  <2>1. OwedIn(k2, n, e) \subseteq OwedIn(call[c], n, e)
    OBVIOUS
  <2> QED  BY <2>1, OwedNoMore
<1>7. D \subseteq O
  <2> SUFFICES ASSUME w.kind = "append", n = w.node, NEW j \in J
               PROVE  <<c, <<b + 1, j>>>> \in O
    OBVIOUS
  <2>1. j \in Nat /\ j \in DOMAIN w.edges /\ w.edges[j] = e
    BY <1>4
  <2>2. <<b + 1, j>> \in OwedIn(call[c], n, e)
    <3> DEFINE k == call[c]
               p == <<b + 1, j>>
    <3>1. p \in Nat \X Nat /\ p[1] = b + 1 /\ p[2] = j /\ b + 1 > b
      BY <2>1
    <3>2. k.step = "write" /\ b + 1 \in DOMAIN k.all /\ k.all[b + 1] = w /\ Behind(k) = b
      OBVIOUS
    <3> HIDE DEF k, p
    <3>3. p \in OwedBy(k.all, b, n, e)
      BY <2>1, <3>1, <3>2 DEF OwedBy
    <3>4. p \in OwedIn(k, n, e)
      BY <3>2, <3>3 DEF OwedIn
    <3> QED  BY <3>4 DEF k, p
  <2> QED  BY <2>1, <2>2 DEF Owed
<1>8. P \cap D = {}
  <2> SUFFICES ASSUME NEW j \in J, <<c, <<b + 1, j>>>> \in P  PROVE FALSE
    OBVIOUS
  <2>1. call'[c] = k2
    BY DEF Typed
  <2>2. <<b + 1, j>> \in OwedIn(k2, n, e)
    BY <2>1 DEF Owed
  <2>3. <<b + 1, j>>[1] # b + 1
    BY <2>2
  <2> QED  BY <2>3
<1>9. IsFiniteSet(D) /\ Cardinality(D) = gain
  <2>1. CASE w.kind = "append" /\ n = w.node
    <3> DEFINE f == [j \in J |-> <<c, <<b + 1, j>>>>]
    <3>1. D = {<<c, <<b + 1, j>>>> : j \in J}
      BY <2>1
    <3>2. f \in [J -> D] /\ (\A x, y \in J : f[x] = f[y] => x = y) /\ \A z \in D : \E x \in J : f[x] = z
      BY <3>1
    <3> HIDE DEF f, D, J
    <3>3. IsFiniteSet(D) /\ Cardinality(D) = Cardinality(J)
      BY <1>4, <3>2, SameSize
    <3> QED  BY <1>4, <2>1, <3>3
  <2>2. CASE ~(w.kind = "append" /\ n = w.node)
    BY <2>2, FS_EmptySet
  <2> QED  BY <2>1, <2>2
<1>10. gain \in Nat
  BY <1>4
<1> HIDE DEF O, P, D, J, gain, old
<1>11. IsFiniteSet(P) /\ Cardinality(P) \in Nat /\ Cardinality(O) \in Nat
  BY <1>1, <1>6, FS_Subset, FS_CardinalityType
<1>12. IsFiniteSet(P \cup D) /\ Cardinality(P \cup D) = Cardinality(P) + gain
  <2>1. Cardinality(P \cap D) = 0
    BY <1>8, FS_EmptySet
  <2>2. /\ IsFiniteSet(P \cup D)
        /\ Cardinality(P \cup D) = Cardinality(P) + Cardinality(D) - Cardinality(P \cap D)
    BY <1>9, <1>11, FS_Union
  <2> QED  BY <1>9, <1>10, <1>11, <2>1, <2>2
<1>13. Cardinality(P \cup D) <= Cardinality(O)
  <2>1. P \cup D \subseteq O
    BY <1>6, <1>7
  <2> QED  BY <1>1, <2>1, FS_Subset
<1>14. Copies(n, e)' + Cardinality(P) <= asked[n][e] + redone[n][e]
  BY <1>1, <1>2, <1>5, <1>10, <1>11, <1>12, <1>13
<1> QED  BY <1>11, <1>14 DEF P

(* Where a call begins, its caller has asked for what it owes.             *)
LEMMA AccountedStart ==
  ASSUME GraphInv, Accounted, NEW c \in Clients, NEW op, NEW ws, NEW edges, WellMade(op, ws, edges),
         MayStart(c), StartWriter(c, op, ws, edges)
  PROVE  Accounted'
<1> SUFFICES ASSUME NEW n \in Nodes, NEW e \in EdgeRec
             PROVE  /\ IsFiniteSet(Owed(n, e)')
                    /\ Copies(n, e)' + Cardinality(Owed(n, e)') <= asked'[n][e] + redone'[n][e]
  BY DEF Accounted
<1> DEFINE k == Writer(op, ws)
           O == Owed(n, e)
           P == Owed(n, e)'
           M == OwedBy(ws, 0, n, e)
           D == {q \in {c} \X (Nat \X Nat) : q[2] \in M}
           more == Wanted(edges, n, e)
           old == Copies(n, e)
<1>1. IsFiniteSet(O) /\ old + Cardinality(O) <= asked[n][e] + redone[n][e]
  BY DEF Accounted
<1>2. Typed /\ old \in Nat /\ asked[n][e] \in Nat /\ redone[n][e] \in Nat
  BY CopiesFinite DEF GraphInv
<1>3. IsFiniteSet(M) /\ more \in Nat /\ Cardinality(M) <= more
  BY DEF WellMade
<1>4. k.step = "write" /\ k.all = ws /\ Behind(k) = 0
  BY WriterIs
<1>5. /\ call' = [call EXCEPT ![c] = k] /\ items' = items /\ redone' = redone
      /\ asked' = [m \in Nodes |-> [f \in EdgeRec |-> asked[m][f] + Wanted(edges, m, f)]]
  BY DEF StartWriter
<1> HIDE DEF k
<1>6. OwedIn(k, n, e) = M
  BY <1>4 DEF OwedIn
<1>7. P \subseteq O \cup D
  <2>1. call'[c] = k /\ \A d \in Clients : d # c => call'[d] = call[d]
    BY <1>2, <1>5 DEF Typed
  <2> SUFFICES ASSUME NEW q, q \in P  PROVE q \in O \cup D
    OBVIOUS
  <2>2. q \in Clients \X (Nat \X Nat) /\ q[2] \in OwedIn(call'[q[1]], n, e)
    BY DEF Owed
  <2>3. CASE q[1] = c
    BY <1>6, <2>1, <2>2, <2>3
  <2>4. CASE q[1] # c
    BY <2>1, <2>2, <2>4 DEF Owed
  <2> QED  BY <2>3, <2>4
<1>8. IsFiniteSet(D) /\ Cardinality(D) <= Cardinality(M)
  <2> DEFINE f == [q \in D |-> q[2]]
  <2>1. f \in [D -> M] /\ \A x, y \in D : f[x] = f[y] => x = y
    <3> HIDE DEF M
    <3> QED  OBVIOUS
  <2> HIDE DEF f, D, M
  <2> QED  BY <1>3, <2>1, NoLarger
<1>9. Copies(n, e)' = old /\ asked'[n][e] = asked[n][e] + more /\ redone'[n][e] = redone[n][e]
  BY <1>5 DEF Copies
<1> HIDE DEF O, P, M, D, more, old
<1>10. Cardinality(O) \in Nat /\ Cardinality(D) \in Nat /\ Cardinality(M) \in Nat
  BY <1>1, <1>3, <1>8, FS_CardinalityType
<1>11. IsFiniteSet(O \cup D) /\ Cardinality(O \cup D) <= Cardinality(O) + Cardinality(D)
  <2>1. /\ IsFiniteSet(O \cup D)
        /\ Cardinality(O \cup D) = Cardinality(O) + Cardinality(D) - Cardinality(O \cap D)
    BY <1>1, <1>8, FS_Union
  <2>2. Cardinality(O \cap D) \in Nat
    <3>1. IsFiniteSet(O \cap D)
      BY <1>1, FS_Subset
    <3> QED  BY <3>1, FS_CardinalityType
  <2> QED  BY <1>10, <2>1, <2>2
<1>12. IsFiniteSet(P) /\ Cardinality(P) <= Cardinality(O \cup D)
  BY <1>7, <1>11, FS_Subset
<1>13. Cardinality(P) \in Nat /\ Cardinality(O \cup D) \in Nat
  BY <1>11, <1>12, FS_CardinalityType
<1>14. old + Cardinality(P) <= (asked[n][e] + more) + redone[n][e]
  <2>1. Cardinality(P) <= Cardinality(O) + more
    BY <1>3, <1>8, <1>10, <1>11, <1>12, <1>13
  <2> QED  BY <1>1, <1>2, <1>3, <1>10, <1>13, <2>1
<1> QED  BY <1>9, <1>12, <1>14 DEF P
(* Where an append of add_edge is applied and its answer lost, the copy is *)
(* one of those that may be repeated.                                      *)
LEMMA AccountedLost ==
  ASSUME Typed, Typed', Accounted, asked' = asked,
         NEW w \in WriteRec, w.kind = "append", Len(w.edges) = 1, items' = Written(w),
         redone' = [redone EXCEPT ![w.node][w.edges[1]] = @ + 1],
         \A n \in Nodes, e \in EdgeRec : Owed(n, e)' \subseteq Owed(n, e)
  PROVE  Accounted'
<1> SUFFICES ASSUME NEW n \in Nodes, NEW e \in EdgeRec
             PROVE  /\ IsFiniteSet(Owed(n, e)')
                    /\ Copies(n, e)' + Cardinality(Owed(n, e)') <= asked'[n][e] + redone'[n][e]
  BY DEF Accounted
<1> DEFINE O == Owed(n, e)
           P == Owed(n, e)'
           old == Copies(n, e)
           one == IF n = w.node /\ e = w.edges[1] THEN 1 ELSE 0
           gain == IF w.kind = "append" /\ n = w.node THEN Count(w.edges, e) ELSE 0
<1>1. IsFiniteSet(O) /\ old + Cardinality(O) <= asked[n][e] + redone[n][e]
  BY DEF Accounted
<1>2. old \in Nat /\ asked[n][e] \in Nat /\ redone[n][e] \in Nat /\ old = Count(Lists(items[n]), e)
  BY CopiesFinite
<1>3. w.edges \in Seq(EdgeRec) /\ w.node \in Nodes
  BY DEF WriteRec
<1>4. gain \in Nat /\ gain <= one
  <2>1. Count(w.edges, e) \in Nat
    BY <1>3, CountFinite
  <2>2. DOMAIN w.edges = {1}
    BY <1>3
  <2>3. e # w.edges[1] => Count(w.edges, e) = 0
    <3>1. e # w.edges[1] => {i \in DOMAIN w.edges : w.edges[i] = e} = {}
      BY <2>2
    <3> QED  BY <3>1, FS_EmptySet DEF Count
  <2>4. Count(w.edges, e) <= 1
    <3>1. {i \in DOMAIN w.edges : w.edges[i] = e} \subseteq {1}
      BY <2>2
    <3>2. IsFiniteSet({1}) /\ Cardinality({1}) = 1
      BY FS_Singleton
    <3> QED  BY <3>1, <3>2, FS_Subset DEF Count
  <2> QED  BY <2>1, <2>3, <2>4
<1>5. Copies(n, e)' = old + gain
  <2>1. w.kind = "node" => w.edges = << >>
    OBVIOUS
  <2>2. Count(Lists(items'[n]), e) = Count(Lists(items[n]), e) + gain
    BY <2>1, WriteEffect
  <2> QED  BY <1>2, <2>2 DEF Copies
<1>6. redone'[n][e] = redone[n][e] + one
  <2>1. redone \in Tallies
    BY DEF Typed
  <2>2. redone' = Raised(redone, w.node, w.edges[1])
    BY DEF Raised
  <2>3. Raised(redone, w.node, w.edges[1])[n][e] = redone[n][e] + one
    BY <1>3, <2>1, TallyUp
  <2> QED  BY <2>2, <2>3
<1>7. one \in Nat
  OBVIOUS
<1> HIDE DEF O, P, old, one, gain
<1>8. P \subseteq O
  BY DEF O, P
<1>9. IsFiniteSet(P) /\ Cardinality(P) \in Nat /\ Cardinality(O) \in Nat /\ Cardinality(P) <= Cardinality(O)
  BY <1>1, <1>8, FS_Subset, FS_CardinalityType
<1>10. Copies(n, e)' + Cardinality(P) <= asked[n][e] + (redone[n][e] + one)
  BY <1>1, <1>2, <1>4, <1>5, <1>7, <1>9
<1> QED  BY <1>6, <1>9, <1>10 DEF P

(* A failed request leaves its call owing no more than before: only        *)
(* add_edge begins again with an append, and it had not made it yet.       *)
LEMMA FailureOwes ==
  ASSUME NEW k \in CallRec, Shaped(k), InRequest(k), NEW n, NEW e
  PROVE  OwedIn(AfterFailure(k), n, e) \subseteq OwedIn(k, n, e)
<1> DEFINE f == AfterFailure(k)
<1>1. f = Idle \/ (f.op = k.op /\ f.all = k.all /\ (k.step = "write" <=> f.step = "write")
                   /\ (f.todo = k.todo \/ (f.todo = k.all /\ k.op \notin {"add_node", "import"})))
  BY FailureIs
<1> HIDE DEF f
<1>2. CASE f = Idle
  <2>1. Idle.step # "write"
    BY DEF Idle
  <2> QED  BY <1>2, <2>1 DEF OwedIn, f
<1>3. CASE f # Idle /\ k.step # "write"
  BY <1>1, <1>3 DEF OwedIn, f
<1>4. CASE f # Idle /\ k.step = "write" /\ f.todo = k.todo
  <2>1. Behind(f) = Behind(k) /\ f.all = k.all /\ f.step = "write"
    BY <1>1, <1>4 DEF Behind
  <2> QED  BY <1>4, <2>1 DEF OwedIn, f
<1>5. CASE f # Idle /\ k.step = "write" /\ f.todo = k.all /\ k.op \notin {"add_node", "import"}
  <2>1. k.op \in {"add_edge", "link_docs"}
    BY <1>5 DEF Shaped, Writing
  <2>2. /\ k.all \in Seq(WriteRec) /\ Len(k.all) \in Nat /\ DOMAIN k.all = 1 .. Len(k.all)
        /\ Len(k.todo) \in 1 .. Len(k.all)
    BY <1>5 DEF CallRec, Shaped
  <2>3. ASSUME NEW p, p \in OwedBy(k.all, Behind(f), n, e)  PROVE p \in OwedBy(k.all, Behind(k), n, e)
    <3>1. /\ p \in Nat \X Nat /\ p[1] \in DOMAIN k.all /\ k.all[p[1]].kind = "append"
          /\ k.all[p[1]].node = n /\ p[2] \in DOMAIN k.all[p[1]].edges /\ k.all[p[1]].edges[p[2]] = e
      BY <2>3 DEF OwedBy
    <3>2. k.op = "add_edge" /\ Len(k.all) = 3 /\ k.all[1].kind = "node" /\ k.all[2].kind = "node"
      BY <2>1, <3>1 DEF Shaped
    <3>3. p[1] = 3
      <4>1. p[1] \in 1 .. 3 /\ p[1] # 1 /\ p[1] # 2
        BY <2>2, <3>1, <3>2
      <4> QED  BY <4>1
    <3>4. Behind(k) < 3
      <4> DEFINE l == Len(k.todo)
      <4>1. l \in 1 .. 3 /\ Behind(k) = 3 - l
        BY <2>2, <3>2 DEF Behind
      <4> HIDE DEF l
      <4> QED  BY <4>1
    <3> QED  BY <3>1, <3>3, <3>4 DEF OwedBy
  <2>4. f.all = k.all /\ f.step = "write"
    BY <1>1, <1>5
  <2>5. OwedIn(f, n, e) = OwedBy(k.all, Behind(f), n, e)
    BY <2>4 DEF OwedIn
  <2>6. OwedIn(k, n, e) = OwedBy(k.all, Behind(k), n, e)
    BY <1>5 DEF OwedIn
  <2> QED  BY <2>3, <2>5, <2>6 DEF f
<1> QED  BY <1>1, <1>2, <1>3, <1>4, <1>5

(* No more copies after a step that appends nothing. *)
LEMMA NoMoreCopies ==
  ASSUME GraphInv,
         \/ items' = items
         \/ \E w \in WriteRec : w.kind # "append" /\ (w.kind = "node" => w.edges = << >>) /\ items' = Written(w)
         \/ \E c \in Clients : call[c].step = "rewrite" /\ Unchanged(call[c]) /\ items' = Rewritten(call[c])
         \/ \E c \in Clients : call[c].step = "remove" /\ items' = Removed(call[c].dst),
         NEW n \in Nodes, NEW e \in EdgeRec
  PROVE  Copies(n, e)' <= Copies(n, e)
<1>1. Typed /\ Copies(n, e) \in Nat /\ Copies(n, e) = Count(Lists(items[n]), e)
  BY CopiesFinite DEF GraphInv
<1>2. Copies(n, e)' = Count(Lists(items'[n]), e)
  BY DEF Copies
<1>3. CASE items' = items
  BY <1>1, <1>2, <1>3
<1>4. ASSUME NEW w \in WriteRec, w.kind # "append", w.kind = "node" => w.edges = << >>, items' = Written(w)
      PROVE  Copies(n, e)' <= Copies(n, e)
  <2>1. Count(Lists(items'[n]), e) =
          Count(Lists(items[n]), e) + (IF w.kind = "append" /\ n = w.node THEN Count(w.edges, e) ELSE 0)
    BY <1>1, <1>4, WriteEffect
  <2> QED  BY <1>1, <1>2, <1>4, <2>1
<1>5. ASSUME NEW c \in Clients, call[c].step = "rewrite", Unchanged(call[c]), items' = Rewritten(call[c])
      PROVE  Copies(n, e)' <= Copies(n, e)
  <2>1. call[c] \in CallRec /\ call[c].src \in Nodes
    BY <1>5 DEF GraphInv, Typed, Shaped
  <2>2. Count(Lists(items'[n]), e) <= Count(Lists(items[n]), e)
    BY <1>1, <1>5, <2>1, RewriteEffect
  <2> QED  BY <1>1, <1>2, <2>2
<1>6. ASSUME NEW c \in Clients, call[c].step = "remove", items' = Removed(call[c].dst)
      PROVE  Copies(n, e)' <= Copies(n, e)
  <2>1. call[c].dst \in Nodes
    BY <1>6 DEF GraphInv, Shaped, Deleting
  <2>2. Count(Lists(items'[n]), e) <= Count(Lists(items[n]), e)
    BY <1>1, <1>6, <2>1, RemoveEffect
  <2> QED  BY <1>1, <1>2, <2>2
<1> QED  BY <1>3, <1>4, <1>5, <1>6

(* A step that appends nothing and asks for nothing. *)
LEMMA QuietAccounts ==
  ASSUME GraphInv, GraphInv', Accounted, NEW c \in Clients, asked' = asked, redone' = redone,
         \/ items' = items
         \/ \E w \in WriteRec : w.kind # "append" /\ (w.kind = "node" => w.edges = << >>) /\ items' = Written(w)
         \/ \E d \in Clients : call[d].step = "rewrite" /\ Unchanged(call[d]) /\ items' = Rewritten(call[d])
         \/ \E d \in Clients : call[d].step = "remove" /\ items' = Removed(call[d].dst),
         NEW k2, call' = [call EXCEPT ![c] = k2],
         \A n \in Nodes, e \in EdgeRec : OwedIn(k2, n, e) \subseteq OwedIn(call[c], n, e)
  PROVE  Accounted'
<1>1. Typed /\ Typed'
  BY DEF GraphInv
<1>2. ASSUME NEW n \in Nodes, NEW e \in EdgeRec
      PROVE  Owed(n, e)' \subseteq Owed(n, e) /\ Copies(n, e)' <= Copies(n, e)
  <2>1. Owed(n, e)' \subseteq Owed(n, e)
    BY <1>1, OwedNoMore
  <2>2. Copies(n, e)' <= Copies(n, e)
    BY NoMoreCopies
  <2> QED  BY <2>1, <2>2
<1> QED  BY <1>1, <1>2, AccountedCalm

LEMMA OwesNothing ==
  ASSUME NEW k, k.step # "write", NEW n, NEW e
  PROVE  OwedIn(k, n, e) = {}
BY DEF OwedIn
LEMMA WriteAccounts ==
  ASSUME GraphInv, GraphInv', Accounted, NEW c \in Clients, Write(c)
  PROVE  Accounted'
<1> DEFINE k == call[c]
           w == Head(k.todo)
           b == Behind(k)
           k2 == IF Len(k.todo) = 1 THEN Idle ELSE [k EXCEPT !.todo = Tail(k.todo), !.inner = 0]
<1>1. /\ k.step = "write" /\ items' = Written(w) /\ asked' = asked /\ redone' = redone
      /\ call' = [call EXCEPT ![c] = k2]
  BY DEF Write, SetItem, Written
<1>2. Typed /\ Typed' /\ k \in CallRec /\ Shaped(k)
  BY DEF GraphInv, Typed
<1>3. /\ b \in Nat /\ b + 1 \in DOMAIN k.all /\ w = k.all[b + 1] /\ w \in WriteRec
      /\ w.kind = "node" => w.edges = << >>
  BY <1>1, HeadIs
<1>4. \A n \in Nodes, e \in EdgeRec :
        \A p \in OwedIn(k2, n, e) : p \in OwedIn(k, n, e) /\ p[1] # b + 1
  <2>1. CASE Len(k.todo) = 1
    <3>1. k2.step # "write"
      BY <2>1 DEF Idle
    <3> QED  BY <3>1, OwesNothing
  <2>2. CASE Len(k.todo) # 1
    <3>1. k2.all = k.all /\ k2.step = "write" /\ Behind(k2) = b + 1
      BY <1>1, <1>2, <2>2, Advances
    <3> HIDE DEF k2, b, k
    <3> QED  BY <1>1, <1>3, <3>1 DEF OwedIn, OwedBy, b
  <2> QED  BY <2>1, <2>2
<1> HIDE DEF k2, b, w
<1>5. b = Behind(call[c])
  BY DEF b
<1> QED  BY <1>1, <1>2, <1>3, <1>4, <1>5, AccountedAppend

LEMMA AnswerLostAccounts ==
  ASSUME GraphInv, GraphInv', Accounted, NEW c \in Clients, AnswerLost(c)
  PROVE  Accounted'
<1> DEFINE k == call[c]
           w == Head(k.todo)
           f == AfterFailure(k)
<1>1. call' = [call EXCEPT ![c] = f] /\ asked' = asked
  BY DEF AnswerLost
<1>2. Typed /\ Typed' /\ k \in CallRec /\ Shaped(k)
  BY DEF GraphInv, Typed
<1>3. InRequest(k)
  BY DEF AnswerLost, InRequest
<1>4. \A n \in Nodes, e \in EdgeRec : OwedIn(f, n, e) \subseteq OwedIn(k, n, e)
  BY <1>2, <1>3, FailureOwes
<1>5. CASE /\ k.step = "write" /\ items' = Written(w)
           /\ redone' = IF k.op = "add_edge" /\ w.kind = "append"
                        THEN [redone EXCEPT ![w.node][w.edges[1]] = @ + 1] ELSE redone
  <2> DEFINE b == Behind(k)
  <2>1. /\ b \in Nat /\ b + 1 \in DOMAIN k.all /\ w = k.all[b + 1] /\ w \in WriteRec
        /\ w.kind = "node" => w.edges = << >>
    BY <1>5, HeadIs
  <2>2. CASE w.kind # "append"
    <3> HIDE DEF f, w
    <3> QED  BY <1>1, <1>4, <1>5, <2>1, <2>2, QuietAccounts
  <2>3. CASE w.kind = "append" /\ k.op = "add_edge"
    <3>1. Len(w.edges) = 1
      <4>1. /\ Len(k.all) = 3 /\ k.all[1].kind = "node" /\ k.all[2].kind = "node"
            /\ Len(k.all[3].edges) = 1 /\ k.all \in Seq(WriteRec)
        BY <1>2, <2>3 DEF Shaped, CallRec
      <4>2. b + 1 \in 1 .. 3
        BY <2>1, <4>1
      <4>3. b + 1 = 1 \/ b + 1 = 2 \/ b + 1 = 3
        <5> HIDE DEF b
        <5> QED  BY <2>1, <4>2
      <4> HIDE DEF b, w
      <4> QED  BY <2>1, <2>3, <4>1, <4>3
    <3>2. redone' = [redone EXCEPT ![w.node][w.edges[1]] = @ + 1]
      BY <1>5, <2>3
    <3>3. \A n \in Nodes, e \in EdgeRec : Owed(n, e)' \subseteq Owed(n, e)
      <4> HIDE DEF f
      <4> QED  BY <1>1, <1>2, <1>4, OwedNoMore
    <3> HIDE DEF w, f, b
    <3> QED  BY <1>1, <1>2, <1>5, <2>1, <2>3, <3>1, <3>2, <3>3, AccountedLost
  <2>4. CASE w.kind = "append" /\ k.op # "add_edge"
    <3>1. k.op = "import"
      <4>1. k.op \in Writing
        BY <1>2, <1>5 DEF Shaped
      <4> QED  BY <1>2, <2>1, <2>4, <4>1 DEF Shaped, Writing
    <3>2. f = Idle
      BY <1>5, <2>4, <3>1 DEF AfterFailure, RetriesItself, WrappedInRetry
    <3>3. \A n \in Nodes, e \in EdgeRec : OwedIn(f, n, e) = {}
      <4>1. f.step # "write"
        BY <3>2 DEF Idle
      <4> QED  BY <4>1, OwesNothing
    <3>4. \A n \in Nodes, e \in EdgeRec :
            \A p \in OwedIn(f, n, e) : p \in OwedIn(k, n, e) /\ p[1] # b + 1
      BY <3>3
    <3>5. redone' = redone
      BY <1>5, <2>4
    <3>6. b = Behind(call[c])
      OBVIOUS
    <3> HIDE DEF w, f, b
    <3> QED  BY <1>1, <1>2, <1>5, <2>1, <3>4, <3>5, <3>6, AccountedAppend
  <2> QED  BY <2>2, <2>3, <2>4
<1>6. CASE k.step = "rewrite" /\ Unchanged(k) /\ items' = Rewritten(k) /\ redone' = redone
  <2> HIDE DEF f
  <2> QED  BY <1>1, <1>4, <1>6, QuietAccounts
<1>7. CASE k.step = "remove" /\ items' = Removed(k.dst) /\ redone' = redone
  <2> HIDE DEF f
  <2> QED  BY <1>1, <1>4, <1>7, QuietAccounts
<1> QED  BY <1>5, <1>6, <1>7 DEF AnswerLost, SetItem, Written, Rewritten, Removed

(* The steps of a delete, and the failures, append nothing.                *)
LEMMA OthersAccount ==
  ASSUME GraphInv, GraphInv', Accounted, NEW c \in Clients,
         \/ NextSource(c) \/ DropWrite(c) \/ RemoveItem(c) \/ RequestFails(c) \/ Dies(c)
         \/ \E n \in Nodes : \E seen : Scan(c, n, seen)
         \/ \E seen : DropRead(c, seen)
         \/ \E s, t \in Nodes, r \in Relations : DeleteEdge(c, s, r, t)
         \/ \E t \in Nodes : DeleteNode(c, t)
  PROVE  Accounted'
<1> DEFINE k == call[c]
           k2 == call'[c]
<1>1. Typed /\ Typed' /\ k \in CallRec /\ Shaped(k) /\ Shaped(k2)
  BY DEF GraphInv, Typed
<1>2. call' = [call EXCEPT ![c] = k2]
  <2>1. \A d \in Clients : d # c => call'[d] = call[d]
    BY <1>1 DEF Typed, NextSource, DropWrite, RemoveItem, RequestFails, Dies, Scan, DropRead,
                DeleteEdge, DeleteNode
  <2>2. call \in [Clients -> CallRec] /\ call' \in [Clients -> CallRec]
    BY <1>1 DEF Typed
  <2> QED  BY <2>1, <2>2
<1>3. asked' = asked /\ redone' = redone
  BY DEF NextSource, DropWrite, RemoveItem, RequestFails, Dies, Scan, DropRead, DeleteEdge, DeleteNode
<1>4. \/ items' = items
      \/ k.step = "rewrite" /\ Unchanged(k) /\ items' = Rewritten(k)
      \/ k.step = "remove" /\ items' = Removed(k.dst)
  BY DEF NextSource, DropWrite, RemoveItem, RequestFails, Dies, Scan, DropRead, DeleteEdge, DeleteNode,
         SetItem, Rewritten, Removed
<1>5. \/ k2 = AfterFailure(k) /\ InRequest(k)
      \/ k2.step # "write"
  <2>1. ASSUME RequestFails(c)  PROVE k2 = AfterFailure(k) /\ InRequest(k)
    BY <1>1, <2>1 DEF RequestFails, Typed
  <2>2. ASSUME DropWrite(c)
        PROVE  (k2 = AfterFailure(k) /\ InRequest(k)) \/ k2.step # "write"
    <3>1. k.step = "rewrite" /\ (k2 = Dropped(k) \/ k2 = AfterFailure(k))
      BY <1>1, <2>2 DEF DropWrite, Typed
    <3>2. InRequest(k)
      BY <3>1 DEF InRequest
    <3>3. Dropped(k).step # "write"
      <4>1. k.op # "delete_node" => Dropped(k).step = "none"
        BY DEF Dropped, Idle
      <4>2. k.op = "delete_node" => Dropped(k).step = "next"
        BY <1>1 DEF Dropped, CallRec
      <4> QED  BY <4>1, <4>2
    <3> QED  BY <3>1, <3>2, <3>3
  <2>3. ASSUME NextSource(c)  PROVE k2.step # "write"
    <3>1. \/ k2 = [k EXCEPT !.step = "remove", !.inner = 0, !.outer = 0]
          \/ \E s \in k.sources : k2 = [k EXCEPT !.step = "read", !.src = s, !.sources = @ \ {s},
                                                !.inner = 0, !.outer = 0]
      BY <1>1, <2>3 DEF NextSource, Typed
    <3> HIDE DEF k2
    <3>2. k2.step \in {"remove", "read"}
      <4> HIDE DEF k
      <4> QED  BY <1>1, <3>1 DEF CallRec
    <3> QED  BY <3>2
  <2>4. ASSUME RemoveItem(c) \/ Dies(c)  PROVE k2.step # "write"
    <3>1. k2 = Idle
      BY <1>1, <2>4 DEF RemoveItem, Dies, Typed
    <3> QED  BY <3>1 DEF Idle
  <2>5. ASSUME NEW n \in Nodes, NEW seen, Scan(c, n, seen)  PROVE k2.step # "write"
    BY <1>1, <2>5 DEF Scan, Typed, CallRec
  <2>6. ASSUME NEW seen, DropRead(c, seen)  PROVE k2.step # "write"
    <3> DEFINE read == [k EXCEPT !.seen = Lists(seen), !.inner = 0]
    <3>1. k2 = Dropped(read) \/ k2 = [read EXCEPT !.step = "rewrite"]
      BY <1>1, <2>6 DEF DropRead, Typed
    <3>2. [read EXCEPT !.step = "rewrite"].step = "rewrite"
      BY <1>1 DEF CallRec
    <3>3. Dropped(read).step # "write"
      <4>1. read.op # "delete_node" => Dropped(read).step = "none"
        BY DEF Dropped, Idle
      <4>2. [read EXCEPT !.step = "next", !.seen = << >>].step = "next"
        BY <1>1 DEF CallRec
      <4> HIDE DEF read
      <4> QED  BY <4>1, <4>2 DEF Dropped
    <3> QED  BY <3>1, <3>2, <3>3
  <2>7. ASSUME NEW s \in Nodes, NEW t \in Nodes, NEW r \in Relations, DeleteEdge(c, s, r, t)
        PROVE  k2.step # "write"
    BY <1>1, <2>7 DEF DeleteEdge, Typed, Idle
  <2>8. ASSUME NEW t \in Nodes, DeleteNode(c, t)  PROVE k2.step # "write"
    BY <1>1, <2>8 DEF DeleteNode, Typed, Idle
  <2> HIDE DEF k, k2
  <2> QED  BY <2>1, <2>2, <2>3, <2>4, <2>5, <2>6, <2>7, <2>8
<1>6. \A n \in Nodes, e \in EdgeRec : OwedIn(k2, n, e) \subseteq OwedIn(k, n, e)
  <2>1. CASE k2 = AfterFailure(k) /\ InRequest(k)
    BY <1>1, <2>1, FailureOwes
  <2>2. CASE k2.step # "write"
    BY <2>2, OwesNothing
  <2> QED  BY <1>5, <2>1, <2>2
<1> HIDE DEF k2
<1> QED  BY <1>2, <1>3, <1>4, <1>6, QuietAccounts

LEMMA AccountedStep ==
  ASSUME GraphInv, GraphInv', Accounted, [GraphNext]_gvars
  PROVE  Accounted'
<1>1. ASSUME NEW c \in Clients, StartCall(c)  PROVE Accounted'
  <2>1. ASSUME NEW n \in Nodes, AddNode(c, n)  PROVE Accounted'
    BY <2>1, AddNodeMade, AccountedStart DEF AddNode
  <2>2. ASSUME NEW s \in Nodes, NEW t \in Nodes, NEW r \in Relations, AddEdge(c, s, r, t)  PROVE Accounted'
    BY <2>2, AddEdgeMade, AccountedStart DEF AddEdge
  <2>3. ASSUME NEW n \in Nodes, NEW d \in Docs, LinkDocs(c, n, << d >>)  PROVE Accounted'
    <3>1. << d >> \in Seq(Docs)
      OBVIOUS
    <3> QED  BY <2>3, <3>1, LinkDocsMade, AccountedStart DEF LinkDocs
  <2>4. ASSUME NEW edges \in Imports, ImportGraph(c, edges)  PROVE Accounted'
    BY <2>4, ImportMade, AccountedStart DEF ImportGraph
  <2>5. ASSUME NEW s \in Nodes, NEW t \in Nodes, NEW r \in Relations, DeleteEdge(c, s, r, t)  PROVE Accounted'
    BY <2>5, OthersAccount
  <2>6. ASSUME NEW t \in Nodes, DeleteNode(c, t)  PROVE Accounted'
    BY <2>6, OthersAccount
  <2> QED  BY <1>1, <2>1, <2>2, <2>3, <2>4, <2>5, <2>6 DEF StartCall
<1>2. ASSUME NEW c \in Clients, Progress(c)  PROVE Accounted'
  <2>1. CASE Write(c)
    BY <2>1, WriteAccounts
  <2>2. ASSUME NEW n \in Nodes, NEW seen \in Answers(n), Scan(c, n, seen)  PROVE Accounted'
    BY <2>2, OthersAccount
  <2>3. ASSUME NEW seen, DropRead(c, seen)  PROVE Accounted'
    BY <2>3, OthersAccount
  <2>4. CASE NextSource(c) \/ DropWrite(c) \/ RemoveItem(c)
    BY <2>4, OthersAccount
  <2> QED  BY <1>2, <2>1, <2>2, <2>3, <2>4 DEF Progress
<1>3. ASSUME NEW c \in Clients, Fault(c)  PROVE Accounted'
  BY <1>3, AnswerLostAccounts, OthersAccount DEF Fault
<1>4. ASSUME UNCHANGED <<items, call, asked, redone>>  PROVE Accounted'
  BY <1>4 DEF Accounted, Owed, Copies
<1>5. ASSUME NEW n \in Nodes, CatchUp(n)  PROVE Accounted'
  BY <1>4, <1>5 DEF CatchUp
<1>6. CASE UNCHANGED gvars
  BY <1>4, <1>6 DEF gvars
<1> QED  BY <1>1, <1>2, <1>3, <1>5, <1>6 DEF GraphNext

LEMMA AccountedInit ==
  ASSUME GraphInit
  PROVE  Accounted
<1> SUFFICES ASSUME NEW n \in Nodes, NEW e \in EdgeRec
             PROVE  /\ IsFiniteSet(Owed(n, e))
                    /\ Copies(n, e) + Cardinality(Owed(n, e)) <= asked[n][e] + redone[n][e]
  BY DEF Accounted
<1>1. Typed
  BY GraphInvInit DEF GraphInv
<1>2. Copies(n, e) \in Nat
  BY <1>1, CopiesFinite
<1>3. asked[n][e] = Copies(n, e) /\ redone[n][e] = 0
  BY DEF GraphInit
<1>4. Owed(n, e) = {}
  <2>1. \A c \in Clients : call[c].step # "write"
    BY DEF GraphInit, Idle
  <2> QED  BY <2>1 DEF Owed, OwedIn
<1>5. IsFiniteSet(Owed(n, e)) /\ Cardinality(Owed(n, e)) = 0
  BY <1>4, FS_EmptySet
<1> QED  BY <1>2, <1>3, <1>5

LEMMA AccountedGives ==
  ASSUME GraphInv, Accounted
  PROVE  AppendsAccounted
<1> SUFFICES ASSUME NEW n \in Nodes, NEW e \in EdgeRec
             PROVE  Copies(n, e) <= asked[n][e] + redone[n][e]
  BY DEF AppendsAccounted
<1>1. /\ IsFiniteSet(Owed(n, e))
      /\ Copies(n, e) + Cardinality(Owed(n, e)) <= asked[n][e] + redone[n][e]
  BY DEF Accounted
<1>2. Copies(n, e) \in Nat /\ asked[n][e] \in Nat /\ redone[n][e] \in Nat
  BY CopiesFinite DEF GraphInv
<1>3. Cardinality(Owed(n, e)) \in Nat
  BY <1>1, FS_CardinalityType
<1> QED  BY <1>1, <1>2, <1>3

(* The copies of an edge never exceed what callers of add_edge and         *)
(* import_graph asked for and the appends of add_edge whose answer was     *)
(* lost: an import, whose appends are not retried, never doubles an edge.  *)
THEOREM AppendsStayAccounted == GraphSpec => []AppendsAccounted
<1>1. GraphInit => Accounted
  BY AccountedInit
<1>2. GraphInv /\ GraphInv' /\ Accounted /\ [GraphNext]_gvars => Accounted'
  BY AccountedStep
<1>3. GraphInv /\ Accounted => AppendsAccounted
  BY AccountedGives
<1> QED  BY <1>1, <1>2, <1>3, GraphStays, PTL DEF GraphSpec
=============================================================================
