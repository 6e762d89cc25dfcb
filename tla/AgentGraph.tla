----------------------------- MODULE AgentGraph -----------------------------
(***************************************************************************)
(* The agent graph engine (src/src/dynavec/agents/graph.py): a queue of    *)
(* ready nodes is taken as one batch, a batch of several nodes runs in a   *)
(* thread pool on copies of the state, the results are merged and their    *)
(* outgoing edges followed in batch order, and a node with several inbound *)
(* edges is a barrier.                                                     *)
(*                                                                         *)
(* Each node of a batch works on a copy of its own and the pool is awaited *)
(* before anything is merged, so a batch is one step.  The state has plain *)
(* keys, which an update replaces, and one list, `log', with the append    *)
(* reducer.  Traces are left out but for the error they carry.             *)
(***************************************************************************)
EXTENDS Sublists, SequencesExt

CONSTANTS
  Graphs,          \* the graphs that may be run, as records (see GraphOK)
  Keys,            \* state keys without a reducer
  Values,
  MaxIterations,   \* AgentGraph.max_iterations
  MaxSteps,        \* run's max_steps
  Absent, Always, Broken

Update == [Keys -> Values \cup {Absent}]
GState == [plain: Update, log: Seq(Nat)]
(* What a node's function may do: the keys it sets, whether it appends to  *)
(* the list, whether it raises, whether it works on the state in place.    *)
Outcome == [sets: Update, logs: BOOLEAN, fails: BOOLEAN, inPlace: BOOLEAN]

GraphOK(g) ==
  /\ IsFiniteSet(g.nodes) /\ g.nodes = 1 .. Cardinality(g.nodes)       \* in the order of add_node
  /\ g.entry \in Nat /\ g.joins \subseteq g.nodes
  /\ g.edges \in Seq([source: Nat, target: Nat, when: {Always, Broken} \cup (Keys \X Values)])
  /\ \A n \in g.nodes : g.does[n] \subseteq Outcome /\ g.does[n] # {}

ASSUME AgentGraphAssumption ==
  /\ \A g \in Graphs : GraphOK(g)
  /\ MaxIterations \in Nat \ {0} /\ MaxSteps \in Nat \ {0}
  /\ Absent \notin Values /\ Always # Broken

VARIABLES
  graph,     \* the graph that is run
  gstate,    \* the state that flows through it
  ready,     \* run's ready_queue
  visits,    \* run's node_visit_counts
  steps,     \* run's steps
  arrived,   \* lengths of the lists in barrier_states
  phase,     \* "new", "running", "done", "raised"
  failed,    \* GraphResult.error is set
  batch      \* ghost: what the nodes of the last batch did, and on which state, unless it raised

agvars == <<graph, gstate, ready, visits, steps, arrived, phase, failed, batch>>

NoUpdate == [k \in Keys |-> Absent]
NoBatch == [before |-> [plain |-> NoUpdate, log |-> <<>>], ran |-> <<>>]
Targets(g) == [i \in DOMAIN g.edges |-> g.edges[i].target]
Out(g, n) == {i \in DOMAIN g.edges : g.edges[i].source = n}
Inbound(g, n) == Cardinality({i \in DOMAIN g.edges : g.edges[i].target = n})
Barriers(g) == g.joins \cup {n \in g.nodes : Inbound(g, n) > 1}

(***************************************************************************)
(* validate: every edge joins known nodes, and no cycle is found that has  *)
(* neither a condition nor an edge that leaves it.  The cycles looked at   *)
(* are those a depth-first walk closes.                                    *)
(***************************************************************************)
Dangles(g) == g.entry \notin g.nodes
              \/ \E i \in DOMAIN g.edges : {g.edges[i].source, g.edges[i].target} \ g.nodes # {}

Guarded(g, cycle) ==
  \E i \in DOMAIN g.edges :
    g.edges[i].source \in cycle /\ (g.edges[i].when # Always \/ g.edges[i].target \notin cycle)

(* Mutant: a cycle is taken to be the whole path that led to it. *)
CycleIsPath(path, n) == ToSet(path)
CycleOf(path, n) == {path[i] : i \in {j \in DOMAIN path : \E h \in 1 .. j : path[h] = n}}

CheckCycles(g) ==
  LET check[n \in g.nodes, path \in Seq(g.nodes),
            acc \in [visited: SUBSET g.nodes, malformed: BOOLEAN]] ==
        LET here == Append(path, n)
            Follow(a, e) ==
              IF e.target \in ToSet(here)
              THEN IF Guarded(g, CycleOf(here, e.target)) THEN a ELSE [a EXCEPT !.malformed = TRUE]
              ELSE IF e.target \notin a.visited THEN check[e.target, here, a] ELSE a
        IN FoldLeft(Follow, [acc EXCEPT !.visited = @ \cup {n}], SelectSeq(g.edges, LAMBDA e : e.source = n))
  IN check

Malformed(g) ==
  FoldLeft(LAMBDA a, n : IF n \in a.visited THEN a ELSE CheckCycles(g)[n, <<>>, a],
           [visited |-> {}, malformed |-> FALSE], [n \in g.nodes |-> n]).malformed

(***************************************************************************)
(* State and edges.                                                        *)
(***************************************************************************)
(* Mutant: the last branch's state becomes the state. *)
MergeReplaces(s, u) == [plain |-> u.plain, log |-> s.log \o u.log]

(* GraphState.merge: a key that is there and has a reducer goes through    *)
(* it, any other is replaced.                                              *)
Merge(s, u) == [plain |-> [k \in Keys |-> IF u.plain[k] = Absent THEN s.plain[k] ELSE u.plain[k]],
                log |-> s.log \o u.log]

(* _execute_node: a returned dict is merged into a copy, a node that works *)
(* in place leaves what it did also when it raises.                        *)
After(s, n, o) == Merge(s, [plain |-> o.sets, log |-> IF o.logs THEN <<n>> ELSE <<>>])

Holds(e, s) == e.when = Always \/ (e.when # Broken /\ s.plain[e.when[1]] = e.when[2])

(* Mutant: a node is queued although it already waits. *)
QueueAgain(queue, ts, S) == queue \o Picked(ts, S)
(* The targets ts[i], i in S, are queued, each unless it waits already.    *)
Queue(queue, ts, S) ==
  queue \o Picked(ts, {i \in S : ts[i] \notin ToSet(queue) /\ \A j \in S : ts[j] = ts[i] => i <= j})

(* _dispatch_outgoing.  A barrier opens when as many arrivals were counted *)
(* as it has inbound edges, or when it is the only active target.          *)
Active(g, n, s) == {i \in Out(g, n) : Holds(g.edges[i], s)}
Into(g, A, t) == {i \in A : g.edges[i].target = t}
Opened(g, came, A) ==
  {i \in A : LET t == g.edges[i].target IN
              \/ t \notin Barriers(g) \/ Cardinality(A) = 1
              \/ came[t] + Cardinality({j \in Into(g, A, t) : j <= i}) >= Inbound(g, t)}
Dispatch(g, a, n, s) ==
  LET A == Active(g, n, s)
  IN IF \E i \in Out(g, n) : g.edges[i].when = Broken
     THEN [a EXCEPT !.raised = TRUE]
     ELSE [a EXCEPT !.queue = Queue(@, Targets(g), Opened(g, a.arrived, A)),
                    !.arrived = [t \in g.nodes |->
                       IF t \in Barriers(g) THEN @[t] + Cardinality(Into(g, A, t)) ELSE @[t]]]

(***************************************************************************)
(* Actions.                                                                *)
(***************************************************************************)
Invoke ==
  /\ phase = "new"
  /\ IF Dangles(graph) \/ Malformed(graph)
     THEN phase' = "raised" /\ UNCHANGED ready
     ELSE phase' = "running" /\ ready' = <<graph.entry>>
  /\ UNCHANGED <<graph, gstate, visits, steps, arrived, failed, batch>>

(* A node of the batch is over its limit: MaxIterationsExceededError.      *)
TooOften == \E i \in DOMAIN ready : visits[ready[i]] >= MaxIterations

RaiseLimit ==
  /\ phase = "running" /\ ready # <<>> /\ steps < MaxSteps
  /\ TooOften
  /\ phase' = "raised"
  /\ UNCHANGED <<graph, gstate, ready, visits, steps, arrived, failed, batch>>

Counted == [n \in graph.nodes |-> visits[n] + Count(ready, n)]

(* The results, in batch order: the first error ends the run, and what was *)
(* merged before it stays.                                                 *)
Taken(a, n, o) ==
  LET branch == After(gstate, n, o)
  IN IF a.raised \/ a.failed THEN a
     ELSE IF o.fails
     THEN [a EXCEPT !.failed = TRUE,
                    !.state = IF Len(ready) = 1 /\ o.inPlace THEN branch ELSE @]
     ELSE Dispatch(graph, [a EXCEPT !.state = IF Len(ready) = 1 THEN branch ELSE Merge(@, branch)],
                   n, branch)
Absorbed(out) ==
  LET after[i \in 0 .. Len(ready)] ==
        IF i = 0 THEN [state |-> gstate, queue |-> <<>>, arrived |-> arrived,
                       failed |-> FALSE, raised |-> FALSE]
        ELSE Taken(after[i - 1], ready[i], out[i])
  IN after[Len(ready)]

Advance(out) ==
  \E r \in {Absorbed(out)} :
    /\ gstate' = r.state /\ ready' = r.queue /\ arrived' = r.arrived /\ failed' = r.failed
    /\ phase' = IF r.raised THEN "raised" ELSE IF r.failed THEN "done" ELSE "running"
    /\ batch' = IF r.raised THEN NoBatch
                ELSE [before |-> gstate,
                      ran |-> [i \in DOMAIN ready |-> [node |-> ready[i], did |-> out[i]]]]
    /\ UNCHANGED graph

RunBatch(out) ==
  /\ phase = "running" /\ ready # <<>> /\ steps < MaxSteps
  /\ ~TooOften
  /\ \A i \in DOMAIN ready : out[i] \in graph.does[ready[i]]
  /\ Advance(out)
  /\ visits' = Counted
  /\ steps' = steps + Len(ready)

(* Nothing is ready, or max_steps is reached: both return success.         *)
Finish ==
  /\ phase = "running" /\ (ready = <<>> \/ steps >= MaxSteps)
  /\ phase' = "done"
  /\ UNCHANGED <<graph, gstate, ready, visits, steps, arrived, failed, batch>>

AgentGraphInit ==
  /\ graph \in Graphs
  /\ gstate = [plain |-> NoUpdate, log |-> <<>>]
  /\ ready = <<>> /\ steps = 0 /\ phase = "new" /\ failed = FALSE /\ batch = NoBatch
  /\ visits = [n \in graph.nodes |-> 0] /\ arrived = [n \in graph.nodes |-> 0]

Batches == [DOMAIN ready -> UNION {graph.does[n] : n \in graph.nodes}]

AgentGraphNext ==
  \/ Invoke
  \/ RaiseLimit
  \/ \E out \in Batches : RunBatch(out)
  \/ Finish

AgentGraphSpec == AgentGraphInit /\ [][AgentGraphNext]_agvars /\ WF_agvars(AgentGraphNext)
-----------------------------------------------------------------------------
(***************************************************************************)
(* Properties.                                                             *)
(***************************************************************************)
AgentGraphTypeOK ==
  /\ gstate \in GState
  /\ ready \in Seq(graph.nodes)
  /\ visits \in [graph.nodes -> 0 .. MaxIterations]
  /\ steps <= MaxSteps + Cardinality(graph.nodes)
  /\ phase \in {"new", "running", "done", "raised"}

(* A node's distances from the entry, and the graphs in which all of them  *)
(* agree: every branch reaches a join in the same batch.                   *)
Succ(g, ns) == {g.edges[i].target : i \in {j \in DOMAIN g.edges : g.edges[j].source \in ns}}
Layers(g) ==
  LET layer[d \in 0 .. Cardinality(g.nodes)] ==
        IF d = 0 THEN {g.entry} ELSE Succ(g, layer[d - 1])
  IN layer
Layered(g) == LET ls == Layers(g) IN \A c, d \in DOMAIN ls : c # d => ls[c] \cap ls[d] = {}
Plainly(g) == \A i \in DOMAIN g.edges : g.edges[i].when = Always
Connected(g) == LET ls == Layers(g) IN g.nodes = UNION {ls[d] : d \in DOMAIN ls}

(* In a connected graph without conditions whose branches have equal       *)
(* lengths a join runs once and after every branch into it, and a run that *)
(* nothing cut short has run every node.  The state stays typed, and the   *)
(* steps within max_iterations, as AgentGraphTypeOK says.                  *)
JoinsOnce ==
  /\ AgentGraphTypeOK
  /\ phase # "raised" /\ ~Dangles(graph) /\ Plainly(graph) /\ Layered(graph) /\ Connected(graph) =>
       /\ \A n \in graph.nodes : visits[n] <= 1
       /\ \A n \in graph.nodes : visits[n] = 1 =>
            \A m \in graph.nodes : n \in Succ(graph, {m}) => visits[m] = 1
       /\ phase = "done" /\ ~failed /\ ready = <<>> => \A n \in graph.nodes : visits[n] = 1

(* What exactly one node of a batch set, and the value it set.             *)
Setters(k) == {i \in DOMAIN batch.ran : batch.ran[i].did.sets[k] # Absent}
Sole(k, i) == Setters(k) = {i}

(* A key no branch had before and one branch of a parallel batch set has   *)
(* that branch's value afterwards.                                         *)
FreshKeysKept ==
  ~failed => \A k \in Keys : \A i \in Setters(k) :
    Sole(k, i) /\ batch.before.plain[k] = Absent => gstate.plain[k] = batch.ran[i].did.sets[k]

(* validate's verdict on cycles: a graph it rejects has nodes that a run   *)
(* cannot leave, because their edges are unconditional and stay among      *)
(* them; and a plain ring, which nothing leaves, is always rejected.       *)
Trap(g, ns) == ns # {} /\ ~Guarded(g, ns) /\ \A n \in ns : Out(g, n) # {}
Ring(g, ns) == /\ Trap(g, ns) /\ \A n \in ns : Cardinality(Out(g, n)) = 1
               /\ \A n \in ns : \E m \in ns : n \in Succ(g, {m})
CyclesJudged ==
  phase = "new" /\ ~Dangles(graph) =>
    /\ Malformed(graph) => \E ns \in SUBSET graph.nodes : Trap(graph, ns)
    /\ (\E ns \in SUBSET graph.nodes : Ring(graph, ns)) => Malformed(graph)

(* What a comment and a test claim of every merge: a key that one branch   *)
(* of a parallel batch updated has that branch's value afterwards.  Each   *)
(* branch is merged as a whole state, so a sibling's older copy wins.      *)
BranchUpdatesMerged ==
  ~failed => \A k \in Keys : \A i \in Setters(k) :
    Sole(k, i) => gstate.plain[k] = batch.ran[i].did.sets[k]
=============================================================================
