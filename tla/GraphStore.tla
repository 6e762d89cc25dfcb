----------------------------- MODULE GraphStore -----------------------------
(***************************************************************************)
(* The entity graph kept beside the vectors (src/src/dynavec/graph.py).    *)
(* A node is one DynamoDB item; its outbound edges are a list embedded in  *)
(* that item, so an operation on an edge or a node is several single-item  *)
(* requests with nothing around them.  Every request is a step here, and   *)
(* the clients' requests interleave.                                       *)
(*                                                                         *)
(* A request can fail before it is applied or after it (the answer is      *)
(* lost), and the caller can die between two requests.  Reads take no      *)
(* ConsistentRead, so they may answer with the item as it was before its   *)
(* last write.  The attributes ntype and props, edge weights and the       *)
(* counts that deletes return are left out: no property reads them.        *)
(***************************************************************************)
EXTENDS Naturals, Sequences, FiniteSets, SequencesExt, Sublists

CONSTANTS
  Clients,       \* threads and processes using one GraphStore table
  Nodes,         \* entity ids of one namespace
  Relations,
  Docs,
  Starts,        \* the tables a run begins with
  Imports,       \* the edge lists import_graph may be given
  BatchSize,     \* import_graph's batch_size: edges per UpdateItem
  StaleReads,    \* whether a read may miss the last write of an item
  MaxAttempts,   \* retry's max_attempts (5 in the code)
  MaxCalls,      \* bound: operations started
  MaxFaults,     \* bound: failed requests and dead callers
  NoItem, None

ASSUME GraphAssumption ==
  /\ BatchSize \in Nat \ {0} /\ MaxAttempts \in Nat \ {0}
  /\ MaxCalls \in Nat /\ MaxFaults \in Nat
  /\ StaleReads \in BOOLEAN
  /\ None \notin Nodes \cup Relations

VARIABLES
  items,    \* [Nodes -> item or NoItem], the table
  behind,   \* [Nodes -> item or NoItem], what a lagging replica still answers
  call,     \* [Clients -> the operation a client is in]
  calls,    \* operations started
  faults,   \* faults injected
  asked,    \* ghost: copies of each edge the callers asked for
  redone,   \* ghost: appends of add_edge whose answer was lost
  raced     \* ghost: nodes deleted while something else used them

gvars == <<items, behind, call, calls, faults, asked, redone, raced>>

EdgeRec == [relation: Relations, target: Nodes]
ImportEdge == [src: Nodes, relation: Relations, dst: Nodes]
Item == [known: BOOLEAN, edges: Seq(EdgeRec), docs: Seq(Docs)]

(* A run begins with a table in which edges lead to nodes; an import is    *)
(* given records that _prepare_import lets through, and edges: one of      *)
(* nodes only is its add_nodes.                                            *)
ASSUME ItemAssumption == NoItem \notin Item
ASSUME StartsAssumption ==
  \A table \in Starts :
    /\ table \in [Nodes -> Item \cup {NoItem}]
    /\ \A n \in Nodes : table[n] # NoItem =>
         table[n].known /\ \A e \in ToSet(table[n].edges) : table[e.target] # NoItem
ASSUME ImportsAssumption == \A edges \in Imports : edges \in Seq(ImportEdge) /\ edges # << >>

(* The item that a list_append starts from when there is none: only its    *)
(* own list is filled in.                                                  *)
BareItem == [known |-> FALSE, edges |-> <<>>, docs |-> <<>>]
Stored(n) == IF items[n] = NoItem THEN BareItem ELSE items[n]
Lists(item) == IF item = NoItem THEN <<>> ELSE item.edges
Copies(n, e) == Count(Lists(items[n]), e)

(***************************************************************************)
(* Requests that write: add_node's initialisation, the append to an        *)
(* adjacency list, the append to the document list.                        *)
(***************************************************************************)
NodeWrite(n) == [kind |-> "node", node |-> n, edges |-> <<>>, docs |-> <<>>]
EdgeWrite(n, es) == [kind |-> "append", node |-> n, edges |-> es, docs |-> <<>>]
DocsWrite(n, ds) == [kind |-> "link", node |-> n, edges |-> <<>>, docs |-> ds]

Applied(w) ==
  CASE w.kind = "node" -> [Stored(w.node) EXCEPT !.known = TRUE]
    [] w.kind = "append" -> [Stored(w.node) EXCEPT !.edges = @ \o w.edges]
    [] w.kind = "link" -> [Stored(w.node) EXCEPT !.docs = @ \o w.docs]

AddEdgeWrites(s, r, t) ==
  << NodeWrite(s), NodeWrite(t), EdgeWrite(s, <<[relation |-> r, target |-> t]>>) >>

LinkDocsWrites(n, ds) == << NodeWrite(n), DocsWrite(n, ds) >>

(* The writes of an import: every endpoint once, in the order met, then    *)
(* each source's edges, grouped, in batches.                               *)
EdgeOf(e) == [relation |-> e.relation, target |-> e.dst]

Endpoints(edges) ==
  Once([i \in 1 .. 2 * Len(edges) |->
          IF i % 2 = 1 THEN edges[(i + 1) \div 2].src ELSE edges[i \div 2].dst])

Sources(edges) == Once([i \in DOMAIN edges |-> edges[i].src])

Grouped(edges, s) ==
  LET of == Picked(edges, {i \in DOMAIN edges : edges[i].src = s})
  IN [i \in DOMAIN of |-> EdgeOf(of[i])]

Batches(edges, s) == Chunked(Grouped(edges, s), BatchSize)
Appends(edges, s) == [i \in DOMAIN Batches(edges, s) |-> EdgeWrite(s, Batches(edges, s)[i])]

ImportWrites(edges) ==
  [i \in DOMAIN Endpoints(edges) |-> NodeWrite(Endpoints(edges)[i])]
    \o Joined([i \in DOMAIN Sources(edges) |-> Appends(edges, Sources(edges)[i])])

(***************************************************************************)
(* Calls.                                                                  *)
(***************************************************************************)
Idle == [op |-> "none", step |-> "none", all |-> <<>>, todo |-> <<>>,
         src |-> None, rel |-> None, dst |-> None,
         unscanned |-> {}, sources |-> {}, seen |-> <<>>, inner |-> 0, outer |-> 0]

Writer(op, ws) == [Idle EXCEPT !.op = op, !.step = "write", !.all = ws, !.todo = ws]

Uses(k) == {w.node : w \in ToSet(k.all)}
             \cup {e.target : e \in UNION {ToSet(w.edges) : w \in ToSet(k.all)}}

Conflicting(n) == {c \in Clients : n \in Uses(call[c])}
DeletedNow == {call[c].dst : c \in {d \in Clients : call[d].op = "delete_node"}}

(* How often a list of edges has e from n. *)
Wanted(edges, n, e) == Cardinality({i \in DOMAIN edges : edges[i].src = n /\ EdgeOf(edges[i]) = e})

MayStart(c) == call[c] = Idle /\ calls < MaxCalls

StartWriter(c, op, ws, edges) ==
  /\ calls' = calls + 1
  /\ call' = [call EXCEPT ![c] = Writer(op, ws)]
  /\ asked' = [n \in Nodes |-> [e \in EdgeRec |-> asked[n][e] + Wanted(edges, n, e)]]
  /\ raced' = raced \cup (Uses(Writer(op, ws)) \cap DeletedNow)
  /\ UNCHANGED <<items, behind, faults, redone>>

AddNode(c, n) == MayStart(c) /\ StartWriter(c, "add_node", << NodeWrite(n) >>, << >>)
AddEdge(c, s, r, t) ==
  MayStart(c) /\ StartWriter(c, "add_edge", AddEdgeWrites(s, r, t),
                            << [src |-> s, relation |-> r, dst |-> t] >>)
LinkDocs(c, n, ds) == MayStart(c) /\ StartWriter(c, "link_docs", LinkDocsWrites(n, ds), << >>)
ImportGraph(c, edges) == MayStart(c) /\ StartWriter(c, "import", ImportWrites(edges), edges)

DeleteEdge(c, s, r, t) ==
  /\ MayStart(c)
  /\ calls' = calls + 1
  /\ call' = [call EXCEPT ![c] = [Idle EXCEPT !.op = "delete_edge", !.step = "read",
                                             !.src = s, !.rel = r, !.dst = t]]
  /\ UNCHANGED <<items, behind, faults, asked, redone, raced>>

DeleteNode(c, t) ==
  /\ MayStart(c)
  /\ calls' = calls + 1
  /\ call' = [call EXCEPT ![c] = [Idle EXCEPT !.op = "delete_node", !.step = "scan",
                                             !.dst = t, !.unscanned = Nodes]]
  /\ raced' = IF Conflicting(t) # {} THEN raced \cup {t} ELSE raced
  /\ UNCHANGED <<items, behind, faults, asked, redone>>

(***************************************************************************)
(* Retries.  add_node, get_node, _scan_nodes and _delete_node_item retry   *)
(* themselves; add_edge, link_docs and _drop_edges retry what they wrap    *)
(* as well; the appends of an import are never retried.                    *)
(***************************************************************************)
RetriesItself(k) ==
  \/ k.step \in {"read", "scan", "remove"}
  \/ k.step = "write" /\ Head(k.todo).kind = "node"

(* Mutant: the appends of an import are retried too. *)
WrappedWithImport(k) ==
  \/ k.op \in {"add_edge", "link_docs", "import"}
  \/ k.step \in {"read", "rewrite"}

WrappedInRetry(k) ==
  \/ k.op \in {"add_edge", "link_docs"}
  \/ k.step \in {"read", "rewrite"}

Again(k) == IF k.step = "scan"
            THEN [k EXCEPT !.inner = @ + 1, !.unscanned = Nodes, !.sources = {}]
            ELSE [k EXCEPT !.inner = @ + 1]

(* Mutant: an attempt is not counted. *)
FromTheStartUncounted(k) ==
  [k EXCEPT !.inner = 0, !.todo = k.all, !.seen = <<>>,
            !.step = IF k.step = "write" THEN "write" ELSE "read"]

FromTheStart(k) == [k EXCEPT !.outer = @ + 1, !.inner = 0, !.todo = k.all, !.seen = <<>>,
                             !.step = IF k.step = "write" THEN "write" ELSE "read"]

(* The call after a request of it failed with a retryable error.           *)
AfterFailure(k) ==
  IF RetriesItself(k) /\ k.inner + 1 < MaxAttempts THEN Again(k)
  ELSE IF WrappedInRetry(k) /\ k.outer + 1 < MaxAttempts THEN FromTheStart(k)
  ELSE Idle

(***************************************************************************)
(* Steps.                                                                  *)
(***************************************************************************)
SetItem(n, item) ==
  /\ items' = [items EXCEPT ![n] = item]
  /\ behind' = [behind EXCEPT ![n] = items[n]]

Answers(n) == {items[n]} \cup (IF StaleReads THEN {behind[n]} ELSE {})

(* The next write of a writer's list, answered.                            *)
Write(c) ==
  LET k == call[c] IN
  /\ k.step = "write"
  /\ SetItem(Head(k.todo).node, Applied(Head(k.todo)))
  /\ call' = [call EXCEPT ![c] = IF Len(k.todo) = 1 THEN Idle
                                 ELSE [k EXCEPT !.todo = Tail(@), !.inner = 0]]
  /\ UNCHANGED <<calls, faults, asked, redone, raced>>

(* Mutant: only the first page is read. *)
ScanFirstPage(c, n, seen) ==
  LET k == call[c]
      found == IF n # k.dst /\ \E e \in ToSet(Lists(seen)) : e.target = k.dst
               THEN k.sources \cup {n} ELSE k.sources
  IN /\ k.step = "scan" /\ n \in k.unscanned /\ seen \in Answers(n)
     /\ call' = [call EXCEPT ![c] = [k EXCEPT !.unscanned = {}, !.sources = found, !.step = "next"]]
     /\ raced' = IF seen # items[n] THEN raced \cup {k.dst} ELSE raced
     /\ UNCHANGED <<items, behind, calls, faults, asked, redone>>

(* One page of the scan of delete_node: the sources that point at it.      *)
Scan(c, n, seen) ==
  LET k == call[c]
      left == k.unscanned \ {n}
      found == IF n # k.dst /\ \E e \in ToSet(Lists(seen)) : e.target = k.dst
               THEN k.sources \cup {n} ELSE k.sources
  IN /\ k.step = "scan" /\ n \in k.unscanned /\ seen \in Answers(n)
     /\ call' = [call EXCEPT ![c] = [k EXCEPT !.unscanned = left, !.sources = found,
                                              !.step = IF left = {} THEN "next" ELSE "scan"]]
     /\ raced' = IF seen # items[n] THEN raced \cup {k.dst} ELSE raced
     /\ UNCHANGED <<items, behind, calls, faults, asked, redone>>

(* delete_node goes to its next source, or to the node itself.             *)
NextSource(c) ==
  LET k == call[c] IN
  /\ k.step = "next"
  /\ \/ /\ k.sources = {}
        /\ call' = [call EXCEPT ![c] = [k EXCEPT !.step = "remove", !.inner = 0, !.outer = 0]]
     \/ \E s \in k.sources :
          call' = [call EXCEPT ![c] = [k EXCEPT !.step = "read", !.src = s,
                                                !.sources = @ \ {s}, !.inner = 0, !.outer = 0]]
  /\ UNCHANGED <<items, behind, calls, faults, asked, redone, raced>>

Matches(k, e) == e.target = k.dst /\ (k.rel = None \/ e.relation = k.rel)
Kept(k) == Picked(k.seen, {i \in DOMAIN k.seen : ~Matches(k, k.seen[i])})

(* What follows _drop_edges in the operation that called it.               *)
Dropped(k) == IF k.op = "delete_node" THEN [k EXCEPT !.step = "next", !.seen = <<>>] ELSE Idle

(* _drop_edges: the read, and its early returns.                           *)
DropRead(c, seen) ==
  LET k == call[c]
      read == [k EXCEPT !.seen = Lists(seen), !.inner = 0]
  IN /\ k.step = "read" /\ seen \in Answers(k.src)
     /\ call' = [call EXCEPT ![c] =
                   IF Kept(read) = read.seen THEN Dropped(read)
                   ELSE [read EXCEPT !.step = "rewrite"]]
     /\ raced' = IF seen # items[k.src] /\ k.op = "delete_node" THEN raced \cup {k.dst} ELSE raced
     /\ UNCHANGED <<items, behind, calls, faults, asked, redone>>

(* Mutant: the write asks only that the node is there. *)
StillThere(k) == items[k.src] # NoItem

(* The condition edges = :old of the rewrite.                              *)
Unchanged(k) == items[k.src] # NoItem /\ items[k.src].edges = k.seen

(* _drop_edges: the whole list is written back if it is the one read.      *)
DropWrite(c) ==
  LET k == call[c] IN
  /\ k.step = "rewrite"
  /\ \/ /\ Unchanged(k)
        /\ SetItem(k.src, [items[k.src] EXCEPT !.edges = Kept(k)])
        /\ call' = [call EXCEPT ![c] = Dropped(k)]
     \/ /\ ~Unchanged(k)
        /\ call' = [call EXCEPT ![c] = AfterFailure(k)]
        /\ UNCHANGED <<items, behind>>
  /\ UNCHANGED <<calls, faults, asked, redone, raced>>

RemoveItem(c) ==
  LET k == call[c] IN
  /\ k.step = "remove"
  /\ SetItem(k.dst, NoItem)
  /\ call' = [call EXCEPT ![c] = Idle]
  /\ UNCHANGED <<calls, faults, asked, redone, raced>>

(***************************************************************************)
(* Faults.                                                                 *)
(***************************************************************************)
InRequest(k) == k.step \in {"write", "scan", "read", "rewrite", "remove"}

(* The request fails and nothing was applied.                              *)
RequestFails(c) ==
  /\ InRequest(call[c]) /\ faults < MaxFaults
  /\ faults' = faults + 1
  /\ call' = [call EXCEPT ![c] = AfterFailure(call[c])]
  /\ UNCHANGED <<items, behind, calls, asked, redone, raced>>

(* The write is applied and its answer is lost.                            *)
AnswerLost(c) ==
  LET k == call[c]
      w == Head(k.todo)
  IN /\ faults < MaxFaults
     /\ faults' = faults + 1
     /\ \/ /\ k.step = "write"
           /\ SetItem(w.node, Applied(w))
           /\ redone' = IF k.op = "add_edge" /\ w.kind = "append"
                        THEN [redone EXCEPT ![w.node][w.edges[1]] = @ + 1] ELSE redone
        \/ /\ k.step = "rewrite" /\ Unchanged(k)
           /\ SetItem(k.src, [items[k.src] EXCEPT !.edges = Kept(k)])
           /\ UNCHANGED redone
        \/ /\ k.step = "remove"
           /\ SetItem(k.dst, NoItem)
           /\ UNCHANGED redone
     /\ call' = [call EXCEPT ![c] = AfterFailure(k)]
     /\ UNCHANGED <<calls, asked, raced>>

(* The caller dies, or an error that is not retryable ends the operation.  *)
Dies(c) ==
  /\ call[c] # Idle /\ faults < MaxFaults
  /\ faults' = faults + 1
  /\ call' = [call EXCEPT ![c] = Idle]
  /\ UNCHANGED <<items, behind, calls, asked, redone, raced>>

(* The replica behind an item catches up.                                  *)
CatchUp(n) ==
  /\ behind[n] # items[n]
  /\ behind' = [behind EXCEPT ![n] = items[n]]
  /\ UNCHANGED <<items, call, calls, faults, asked, redone, raced>>

(***************************************************************************)
(* The specification.                                                      *)
(***************************************************************************)
GraphInit ==
  /\ items \in Starts
  /\ behind = items
  /\ call = [c \in Clients |-> Idle]
  /\ calls = 0 /\ faults = 0
  /\ asked = [n \in Nodes |-> [e \in EdgeRec |-> Copies(n, e)]]
  /\ redone = [n \in Nodes |-> [e \in EdgeRec |-> 0]]
  /\ raced = {}

StartCall(c) ==
  \/ \E n \in Nodes : AddNode(c, n)
  \/ \E s, t \in Nodes, r \in Relations : AddEdge(c, s, r, t)
  \/ \E n \in Nodes, d \in Docs : LinkDocs(c, n, <<d>>)
  \/ \E edges \in Imports : ImportGraph(c, edges)
  \/ \E s, t \in Nodes, r \in Relations : DeleteEdge(c, s, r, t)
  \/ \E t \in Nodes : DeleteNode(c, t)

Progress(c) ==
  \/ Write(c)
  \/ \E n \in Nodes : \E seen \in Answers(n) : Scan(c, n, seen)
  \/ NextSource(c)
  \/ \E n \in Nodes : \E seen \in Answers(n) : call[c].src = n /\ DropRead(c, seen)
  \/ DropWrite(c)
  \/ RemoveItem(c)

Fault(c) == RequestFails(c) \/ AnswerLost(c) \/ Dies(c)

GraphNext ==
  \/ \E c \in Clients : StartCall(c) \/ Progress(c) \/ Fault(c)
  \/ \E n \in Nodes : CatchUp(n)

(* A caller's thread goes on with its call; nothing makes a fault happen.  *)
GraphSpec == GraphInit /\ [][GraphNext]_gvars /\ \A c \in Clients : WF_gvars(Progress(c))
-----------------------------------------------------------------------------
(***************************************************************************)
(* Properties.                                                             *)
(***************************************************************************)
GraphTypeOK ==
  /\ items \in [Nodes -> Item \cup {NoItem}]
  /\ behind \in [Nodes -> Item \cup {NoItem}]
  /\ \A c \in Clients :
       /\ call[c].inner \in 0 .. MaxAttempts - 1 /\ call[c].outer \in 0 .. MaxAttempts - 1
       /\ call[c].seen \in Seq(EdgeRec)
  /\ calls \in 0 .. MaxCalls /\ faults \in 0 .. MaxFaults
  /\ raced \subseteq Nodes

(* A rewrite of an adjacency list loses nobody's edge: an edge leaves a    *)
(* list only through a delete_edge for it, a delete_node of its target, or *)
(* with its own node.  It is the condition edges = :old of _drop_edges that *)
(* keeps an append which arrives between the read and the write.           *)
OnlyMatchingEdgesLeave ==
  [][ \A n \in Nodes, e \in EdgeRec :
        Copies(n, e)' < Copies(n, e) =>
          \E c \in Clients :
            \/ call[c].step = "rewrite" /\ call[c].src = n /\ Matches(call[c], e)
            \/ call[c].step = "remove" /\ call[c].dst = n ]_gvars

(* An edge to a node that is gone, and an item that add_node never filled  *)
(* in, come only from a delete_node that something overlapped or that a    *)
(* lagging read misled; a delete_node that fails or dies part way leaves   *)
(* neither, because the inbound edges go before the node does.  The state  *)
(* stays typed as GraphTypeOK says.                                        *)
NoDangling ==
  /\ GraphTypeOK
  /\ \A n \in Nodes \ raced :
       /\ items[n] # NoItem => items[n].known
       /\ items[n] = NoItem =>
            \A s \in Nodes : \A e \in ToSet(Lists(items[s])) : e.target # n

(* Appends are not idempotent, and only add_edge repeats one: the copies of *)
(* an edge never exceed what the callers asked for plus the add_edge       *)
(* appends whose answer was lost.  An import never doubles an edge.        *)
AppendsAccounted ==
  \A n \in Nodes, e \in EdgeRec : Copies(n, e) <= asked[n][e] + redone[n][e]

(* Every operation returns or raises: retries are bounded, also when the   *)
(* replica that is read never catches up with the list it is compared to.  *)
CallsReturn == \A c \in Clients : call[c] # Idle ~> call[c] = Idle
=============================================================================
