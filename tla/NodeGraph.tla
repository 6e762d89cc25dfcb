------------------------------ MODULE NodeGraph ------------------------------
(***************************************************************************)
(* SimpleGraph, the resumable pipeline of nodes                            *)
(* (src/src/dynavec/nodes/graph.py): every node is executed once in the    *)
(* order of add_node, with retries; a node that fails ends the run unless  *)
(* an error edge leaves it; the run's GraphRunState can be saved and given *)
(* to resume, which skips what is recorded as succeeded.                   *)
(*                                                                         *)
(* Each attempt of a node is a step.  What a node computes is not modelled,*)
(* only which recorded outputs it was given; delays are left out.          *)
(***************************************************************************)
EXTENDS Naturals, Sequences, FiniteSets

CONSTANTS
  Pipelines,    \* the graphs that may be run (see PipelineOK)
  MaxPasses,    \* bound: runs and resumes of one graph
  NoNode

(* nodes are 1 .. size in the order of add_node; attempts is each node's   *)
(* RetryPolicy.max_attempts (1 without a policy); a tool catches what it   *)
(* raises and returns it as its result.                                    *)
PipelineOK(p) ==
  /\ p.size \in Nat \ {0}
  /\ p.std \subseteq (1 .. p.size) \X (1 .. p.size)
  /\ p.err \subseteq (1 .. p.size) \X (1 .. p.size)
  /\ p.attempts \in [1 .. p.size -> Nat] /\ p.tools \subseteq 1 .. p.size

ASSUME NodeGraphAssumption ==
  /\ \A p \in Pipelines : PipelineOK(p)
  /\ MaxPasses \in Nat /\ NoNode \notin Nat

VARIABLES
  pipe,       \* the graph
  cp,         \* its GraphRunState
  saved,      \* a to_dict() of it that the caller kept, or NoNode
  at,         \* position of the loop over _execution_order
  tries,      \* attempts of the node at it
  mode,       \* "idle", "running", "stopped" (returned or raised), "ended"
  passes,     \* runs and resumes
  before,     \* ghost: the state the pass began with
  ran,        \* ghost: nodes executed in this pass
  handling    \* ghost: [node -> the failed node whose error it was given]

ngvars == <<pipe, cp, saved, at, tries, mode, passes, before, ran, handling>>

PNodes == 1 .. pipe.size
Fresh(size) == [status |-> [n \in 1 .. size |-> "none"], outputs |-> {},
                used |-> [n \in 1 .. size |-> {}], failedNode |-> NoNode, completed |-> FALSE]

(* The run's shortcut past a node that succeeded before.                   *)
Recorded(c, n) == c.status[n] = "succeeded" /\ n \in c.outputs

(* Mutant: the shortcut asks whether the failure of the last pass was at   *)
(* this node.                                                              *)
SkipsBeforeFailure(n) == n \in cp.outputs /\ \A m \in PNodes : cp.status[m] = "failed" => n < m
Skips(n) == Recorded(cp, n)

ErrorTargets(n) == {e \in pipe.err : e[1] = n}

(* Mutant: the error edge is looked for only right after the failure. *)
FailedSourcesAdjacent(n) == {e[1] : e \in {f \in pipe.err : f[2] = n /\ cp.failedNode = f[1]
                                                          /\ f[1] = n - 1}}
FailedSources(n) == {e[1] : e \in {f \in pipe.err : f[2] = n /\ cp.status[f[1]] = "failed"}}

(* The recorded outputs among a node's inputs.                             *)
Given(n) == IF FailedSources(n) # {} THEN {}
            ELSE {e[1] : e \in {f \in pipe.std : f[2] = n}} \cap cp.outputs

(***************************************************************************)
(* Actions.                                                                *)
(***************************************************************************)
Begin(c) ==
  /\ mode # "running" /\ passes < MaxPasses
  /\ cp' = c /\ before' = c
  /\ at' = 1 /\ tries' = 0 /\ mode' = "running" /\ passes' = passes + 1
  /\ ran' = {} /\ handling' = [n \in PNodes |-> NoNode]
  /\ UNCHANGED <<pipe, saved>>

Run == mode = "idle" /\ Begin(Fresh(pipe.size))

(* resume of the state the run left, or of a copy kept earlier.            *)
Resume(c) == mode # "idle" /\ c # NoNode /\ Begin([c EXCEPT !.failedNode = NoNode])

Keep ==
  /\ mode \in {"stopped", "ended"} /\ saved = NoNode
  /\ saved' = cp
  /\ UNCHANGED <<pipe, cp, at, tries, mode, passes, before, ran, handling>>

Skip ==
  /\ mode = "running" /\ at \in PNodes /\ Skips(at)
  /\ at' = at + 1
  /\ UNCHANGED <<pipe, cp, saved, tries, mode, passes, before, ran, handling>>

Executing == mode = "running" /\ at \in PNodes /\ ~Skips(at)

Entered ==
  /\ ran' = ran \cup {at}
  /\ \/ FailedSources(at) = {} /\ UNCHANGED handling
     \/ \E s \in FailedSources(at) : handling' = [handling EXCEPT ![at] = s]

(* The attempt returns; a node that returns None leaves no output.         *)
Succeed(returns) ==
  /\ Executing /\ tries < pipe.attempts[at]
  /\ Entered
  /\ cp' = [cp EXCEPT !.status[at] = "succeeded", !.used[at] = Given(at),
                      !.outputs = IF returns THEN @ \cup {at} ELSE @]
  /\ at' = at + 1 /\ tries' = 0
  /\ UNCHANGED <<pipe, saved, mode, passes, before>>

(* The attempt raises an error the policy retries, and attempts are left.  *)
Retry ==
  /\ Executing /\ at \notin pipe.tools /\ tries + 1 < pipe.attempts[at]
  /\ Entered
  /\ tries' = tries + 1
  /\ UNCHANGED <<pipe, cp, saved, at, mode, passes, before>>

(* The last attempt raises, or an attempt raises what the policy does not  *)
(* retry, or the policy allows none: the run goes on only if an error edge *)
(* leaves the node.                                                        *)
FailNode ==
  /\ Executing /\ (at \notin pipe.tools \/ pipe.attempts[at] = 0)
  /\ IF pipe.attempts[at] = 0 THEN UNCHANGED <<ran, handling>> ELSE Entered
  /\ cp' = [cp EXCEPT !.status[at] = "failed", !.failedNode = at, !.completed =
                        IF ErrorTargets(at) = {} THEN FALSE ELSE @]
  /\ tries' = 0
  /\ IF ErrorTargets(at) = {} THEN mode' = "stopped" /\ UNCHANGED at
                              ELSE at' = at + 1 /\ UNCHANGED mode
  /\ UNCHANGED <<pipe, saved, passes, before>>

Complete ==
  /\ mode = "running" /\ at = pipe.size + 1
  /\ LET all == \A n \in PNodes : cp.status[n] \in {"succeeded", "none"}
     IN cp' = [cp EXCEPT !.completed = all, !.failedNode = IF all THEN NoNode ELSE @]
  /\ mode' = "ended"
  /\ UNCHANGED <<pipe, saved, at, tries, passes, before, ran, handling>>

NodeGraphInit ==
  /\ pipe \in Pipelines
  /\ cp = Fresh(pipe.size) /\ before = cp /\ saved = NoNode
  /\ at = 1 /\ tries = 0 /\ mode = "idle" /\ passes = 0
  /\ ran = {} /\ handling = [n \in PNodes |-> NoNode]

Proceed ==
  \/ Skip
  \/ \E returns \in BOOLEAN : Succeed(returns)
  \/ Retry
  \/ FailNode
  \/ Complete

NodeGraphNext ==
  \/ Run
  \/ \E c \in {cp, saved} : Resume(c)
  \/ Keep
  \/ Proceed

NodeGraphSpec == NodeGraphInit /\ [][NodeGraphNext]_ngvars /\ WF_ngvars(Proceed)
-----------------------------------------------------------------------------
(***************************************************************************)
(* Properties.                                                             *)
(***************************************************************************)
NodeGraphTypeOK ==
  /\ cp.status \in [PNodes -> {"none", "succeeded", "failed"}]
  /\ cp.outputs \subseteq PNodes /\ cp.failedNode \in PNodes \cup {NoNode}
  /\ at \in 1 .. pipe.size + 1
  /\ \A n \in PNodes : tries > 0 => tries < pipe.attempts[at]

(* Work that a checkpoint records as done is not done again by a resume,   *)
(* whichever node failed, however often it is resumed.                     *)
RecordedWorkKept == \A n \in ran : ~Recorded(before, n)

(* A pass that got past a failure gave the error to every node later in    *)
(* the order that an error edge leads to, unless an earlier pass had       *)
(* recorded that node: no failure is passed over in silence.  The  *)
(* state stays typed as NodeGraphTypeOK says.                              *)
FailuresHandled ==
  /\ NodeGraphTypeOK
  /\ mode = "ended" =>
       \A e \in pipe.err :
         cp.status[e[1]] = "failed" /\ e[1] < e[2] =>
           \/ Recorded(before, e[2])
           \/ pipe.attempts[e[2]] = 0
           \/ e[2] \in ran /\ handling[e[2]] # NoNode
=============================================================================
