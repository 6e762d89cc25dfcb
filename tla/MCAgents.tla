------------------------------- MODULE MCAgents -------------------------------
(***************************************************************************)
(* Instances of the orchestration layer for TLC: the agent graph, the node *)
(* graph and the checkpointed agent share no state, so a behaviour is of   *)
(* one of them, chosen at the start, and the others stand still.           *)
(***************************************************************************)
EXTENDS AgentGraph, NodeGraph, AgentThread

CONSTANT k1
VARIABLE part

allvars == <<part, agvars, ngvars, atvars>>

(* Agent graphs: what their nodes do, and their shapes.                    *)
Quiet == [sets |-> NoUpdate, logs |-> FALSE, fails |-> FALSE, inPlace |-> FALSE]
Sets(v) == [Quiet EXCEPT !.sets = [k \in Keys |-> v]]
Logs == [Quiet EXCEPT !.logs = TRUE]
Fails == [Sets(1) EXCEPT !.fails = TRUE]
FailsInPlace == [Fails EXCEPT !.inPlace = TRUE]
Edge(s, t, w) == [source |-> s, target |-> t, when |-> w]
Shape(ns, es, joins, does) ==
  [nodes |-> ns, edges |-> es, entry |-> 1, joins |-> joins, does |-> [n \in ns |-> does]]
Pairs == [i \in 1 .. 16 |-> << (i + 3) \div 4, ((i + 3) % 4) + 1 >>]
Plain(ps) == LET listed == SelectSeq(Pairs, LAMBDA p : p \in ps)
             IN [i \in DOMAIN listed |-> Edge(listed[i][1], listed[i][2], Always)]

(* Every graph of three nodes and every ordered one of four, unconditional; *)
(* a diamond and a guarded loop whose nodes do anything; an edge that      *)
(* cannot be evaluated; an edge to an unknown node.                        *)
SmallGraphs ==
  {Shape(1 .. 3, Plain(ps), {}, {Quiet}) : ps \in SUBSET ((1 .. 3) \X (1 .. 3))}
    \cup {Shape(1 .. 4, Plain(ps), {}, {Quiet}) :
            ps \in SUBSET {p \in (1 .. 4) \X (1 .. 4) : p[1] < p[2]}}
Diamond == << Edge(1, 2, Always), Edge(1, 3, Always), Edge(2, 4, Always), Edge(3, 4, Always) >>
Loop == << Edge(1, 2, Always), Edge(2, 1, <<k1, 0>>), Edge(2, 3, <<k1, 1>>) >>
SomeGraphs ==
  SmallGraphs \cup
  { Shape(1 .. 4, Diamond, {4}, {Quiet, Sets(0), Sets(1), Logs, Fails, FailsInPlace}),
    Shape(1 .. 3, Loop, {}, {Quiet, Sets(0), Sets(1), FailsInPlace}),
    Shape(1 .. 2, << Edge(1, 2, Broken) >>, {}, {Quiet}),
    Shape(1 .. 2, << Edge(1, 3, Always) >>, {}, {Quiet}) }
DiamondOnly == {Shape(1 .. 4, Diamond, {4}, {Quiet, Sets(0), Sets(1)})}

(* Chains of three nodes with their error edges: none, to the next node,   *)
(* past it, backwards, two into one, and a chain of handlers whose first   *)
(* node is a tool and whose second may not be attempted at all.            *)
Chain(err, attempts, tools) ==
  [size |-> 3, std |-> {<<1, 2>>, <<2, 3>>}, err |-> err, attempts |-> attempts, tools |-> tools]
SomePipelines ==
  {Chain(err, <<2, 1, 1>>, {}) :
     err \in { {}, {<<1, 2>>}, {<<1, 3>>}, {<<3, 1>>}, {<<1, 3>>, <<2, 3>>} }}
    \cup {Chain({<<1, 2>>, <<2, 3>>}, <<1, 0, 1>>, {1})}

(* Runs that overlap, runs that are cut, runs that go back, lagging reads, *)
(* a table without list_append, and the memory of one process.             *)
Circumstance(backend, overlap, stale, travel, steps_, runs_, faults) ==
  [backend |-> backend, overlap |-> overlap, stale |-> stale, travel |-> travel,
   steps |-> steps_, runs |-> runs_, faults |-> faults]
SomeSettings ==
  { Circumstance("table", TRUE, FALSE, FALSE, 1, 2, 0),
    Circumstance("table", FALSE, FALSE, FALSE, 2, 2, 1),
    Circumstance("table", FALSE, FALSE, TRUE, 2, 2, 1),
    Circumstance("table", FALSE, TRUE, FALSE, 1, 2, 0),
    Circumstance("mock", FALSE, FALSE, FALSE, 2, 2, 1),
    Circumstance("memory", FALSE, FALSE, TRUE, 2, 2, 1) }

Init ==
  /\ part \in {"agent graph", "node graph", "thread"}
  /\ AgentGraphInit /\ (part # "agent graph" => graph = CHOOSE g \in Graphs : \A h \in Graphs : Len(g.edges) <= Len(h.edges))
  /\ NodeGraphInit /\ (part # "node graph" => pipe = CHOOSE p \in Pipelines : TRUE)
  /\ ThreadInit /\ (part # "thread" => setting = CHOOSE t \in Settings : TRUE)

Next ==
  /\ UNCHANGED part
  /\ \/ part = "agent graph" /\ AgentGraphNext /\ UNCHANGED <<ngvars, atvars>>
     \/ part = "node graph" /\ NodeGraphNext /\ UNCHANGED <<agvars, atvars>>
     \/ part = "thread" /\ ThreadNext /\ UNCHANGED <<agvars, ngvars>>

(* The engine's own steps; the caller's (a run, a resume, a fault) are not *)
(* owed.  It is enough that one of the engines that run goes on.           *)
Goes ==
  /\ UNCHANGED part
  /\ \/ part = "agent graph" /\ AgentGraphNext /\ UNCHANGED <<ngvars, atvars>>
     \/ part = "node graph" /\ Proceed /\ UNCHANGED <<agvars, atvars>>
     \/ part = "thread" /\ (\E p \in Procs : GoesOn(p)) /\ UNCHANGED <<agvars, ngvars>>

Spec == Init /\ [][Next]_allvars /\ WF_allvars(Goes)

(* Whatever fails, loops, is retried or resumed, a run of an agent graph, a *)
(* pass over a node graph and a run of an agent come to an end.            *)
Busy == \/ part = "agent graph" /\ phase \in {"new", "running"}
        \/ mode = "running"
        \/ \E p \in Procs : Alive(p)
EveryRunEnds == Busy ~> ~Busy
=============================================================================
