----------------------------- MODULE AgentThread -----------------------------
(***************************************************************************)
(* One conversation thread of a ReAct agent and its checkpoints            *)
(* (src/src/dynavec/agents/react.py and checkpoint.py): a run loads the    *)
(* thread's latest checkpoint or the one it is told to resume from, and    *)
(* then alternates between the model and its tools, saving the whole       *)
(* conversation after every step.                                          *)
(*                                                                         *)
(* With DynamoDB a save is an item and then an update of the thread's      *)
(* manifest; if the update raises, the manifest is read, changed and       *)
(* written back.  In memory a save is one step under a lock.  Runs may be  *)
(* abandoned at any point (an exception, a dead process) and more than one *)
(* may be alive.  Messages keep what tells them apart: who wrote them, and *)
(* how many calls the model asked for.                                     *)
(***************************************************************************)
EXTENDS Naturals, Sequences, FiniteSets

CONSTANTS
  Procs,        \* processes that run the agent on this thread
  StepLimit,    \* bound on ReActAgent.max_steps
  MaxCalls,     \* tool calls in one answer of the model
  Settings,     \* the circumstances a thread may meet (see SettingOK)
  None

(* The backend: in memory, a table, or a table whose update_item always    *)
(* raises.  Whether runs of the thread may overlap, whether a read of the  *)
(* table may miss its last write, and whether a run may resume from any    *)
(* checkpoint; the agent's max_steps.  As bounds, the calls of run, and how  *)
(* many manifest updates fail and runs are abandoned.                      *)
SettingOK(t) ==
  /\ t.backend \in {"memory", "table", "mock"}
  /\ t.overlap \in BOOLEAN /\ t.stale \in BOOLEAN /\ t.travel \in BOOLEAN
  /\ t.steps \in 1 .. StepLimit /\ t.runs \in Nat /\ t.faults \in Nat
  /\ t.backend = "memory" => ~t.stale

ASSUME ThreadAssumption ==
  /\ StepLimit \in Nat \ {0} /\ MaxCalls \in Nat
  /\ \A t \in Settings : SettingOK(t)
  /\ None \notin Nat

VARIABLES
  setting,    \* the circumstances, fixed at the start
  saves,      \* the checkpoint items, by checkpoint id
  manifest,   \* the thread's latest checkpoint id and its history
  older,      \* what a lagging read of the manifest may still answer
  run,        \* [Procs -> the run a process is in]
  runs, failures,
  begun,      \* ghost: [step -> times its tools were started]
  cut,        \* ghost: [step -> runs abandoned between its tools and its save]
  orphans,    \* ghost: checkpoints whose save was abandoned
  raised,     \* ghost: an update_item raised
  blurred     \* ghost: runs overlapped, travelled back, or a read lagged

atvars == <<setting, saves, manifest, older, run, runs, failures, begun, cut, orphans, raised, blurred>>

StepNos == 1 .. StepLimit
Goal == [from |-> "user", calls |-> 0]
Observation == [from |-> "tool", calls |-> 0]
Spoken(n) == [from |-> "model", calls |-> n]
Conversation == [messages: Seq({Goal, Observation} \cup {Spoken(n) : n \in 0 .. MaxCalls}),
                 steps: Seq(StepNos), total: Nat]
Opening == [messages |-> <<Goal>>, steps |-> <<>>, total |-> 0]

Off == [pc |-> "off", from |-> None, talk |-> Opening, step |-> 0, left |-> 0,
        then |-> "none", label |-> 0, parent |-> None, id |-> None, read |-> None]
Alive(p) == run[p].pc # "off"
Between == {"parent", "item", "manifest", "fallback", "rewrite"}

(***************************************************************************)
(* The run.                                                                *)
(***************************************************************************)
Start(p, from) ==
  /\ ~Alive(p) /\ runs < setting.runs
  /\ from # None => setting.travel
  /\ setting.overlap \/ \A q \in Procs : ~Alive(q)
  /\ runs' = runs + 1
  /\ run' = [run EXCEPT ![p] = [Off EXCEPT !.pc = "load", !.from = from]]
  /\ blurred' = (blurred \/ from # None \/ \E q \in Procs : Alive(q))
  /\ UNCHANGED <<setting, saves, manifest, older, failures, begun, cut, orphans, raised>>

(* What get may answer: the checkpoint asked for, or the manifest's latest. *)
Manifests == {manifest} \cup (IF setting.stale THEN {older} ELSE {})
Answers(from) ==
  LET ids == IF from = None THEN {m.latest : m \in Manifests} ELSE {from}
      lagging == {id \in ids : setting.stale /\ id = Len(saves)}
  IN ids \cup (IF lagging # {} THEN {None} ELSE {})

(* A save of the conversation under step number `label' is to follow, and  *)
(* then what `then' says.                                                  *)
Saving(r, label, then) == [r EXCEPT !.pc = "parent", !.label = label, !.then = then]

(* The next step, or the max_steps_reached checkpoint.                     *)
Onward(r, step) == IF step > setting.steps
                   THEN Saving([r EXCEPT !.step = step], setting.steps, "off")
                   ELSE [r EXCEPT !.step = step, !.pc = "think"]

(* Mutant: the loop starts at the step the checkpoint was saved for. *)
ResumedSameStep(r, c) == Onward([r EXCEPT !.talk = c.talk], IF c.step = 0 THEN 1 ELSE c.step)
(* Mutant: the count of tool calls is not restored. *)
ResumedNoTotal(r, c) == Onward([r EXCEPT !.talk = [c.talk EXCEPT !.total = 0]], c.step + 1)
Resumed(r, c) == Onward([r EXCEPT !.talk = c.talk], c.step + 1)

Load(p, id) ==
  /\ run[p].pc = "load" /\ id \in Answers(run[p].from)
  /\ run' = [run EXCEPT ![p] =
               IF id = None THEN Saving([@ EXCEPT !.step = 0], 0, "think")
               ELSE Resumed(@, saves[id])]
  /\ blurred' = (blurred \/ (run[p].from = None /\ id # manifest.latest))
  /\ UNCHANGED <<setting, saves, manifest, older, runs, failures, begun, cut, orphans, raised>>

(* The model answers without asking for tools: the last step.              *)
Answer(p) ==
  LET r == run[p] IN
  /\ r.pc = "think"
  /\ run' = [run EXCEPT ![p] =
               Saving([r EXCEPT !.talk.messages = Append(@, Spoken(0)),
                                !.talk.steps = Append(@, r.step)], r.step, "off")]
  /\ UNCHANGED <<setting, saves, manifest, older, runs, failures, begun, cut, orphans, raised, blurred>>

(* The model asks for n tool calls.                                        *)
Ask(p, n) ==
  LET r == run[p] IN
  /\ r.pc = "think"
  /\ run' = [run EXCEPT ![p] = [r EXCEPT !.talk.messages = Append(@, Spoken(n)),
                                         !.talk.total = @ + n, !.left = n, !.pc = "tools"]]
  /\ begun' = [begun EXCEPT ![r.step] = @ + 1]
  /\ UNCHANGED <<setting, saves, manifest, older, runs, failures, cut, orphans, raised, blurred>>

(* One call returns; after the last the step is complete.  A tool that     *)
(* raises, or that is not registered, answers with an error text.          *)
CallTool(p) ==
  LET r == run[p]
      said == [r EXCEPT !.talk.messages = Append(@, Observation), !.left = @ - 1]
  IN /\ r.pc = "tools"
     /\ run' = [run EXCEPT ![p] =
                  IF r.left > 1 THEN said
                  ELSE Saving([said EXCEPT !.talk.steps = Append(@, r.step)], r.step, "think")]
     /\ UNCHANGED <<setting, saves, manifest, older, runs, failures, begun, cut, orphans, raised, blurred>>

(***************************************************************************)
(* A save.                                                                 *)
(***************************************************************************)
Checkpoint(r) == [step |-> r.label, parent |-> r.parent, talk |-> r.talk]
Saved(r) == IF r.then = "off" THEN Off ELSE Onward(r, r.step + 1)

(* put: the parent is the latest checkpoint, wherever the run came from.   *)
ReadParent(p, id) ==
  /\ run[p].pc = "parent" /\ id \in Answers(None)
  /\ run' = [run EXCEPT ![p].parent = id, ![p].pc = "item"]
  /\ UNCHANGED <<setting, saves, manifest, older, runs, failures, begun, cut, orphans, raised, blurred>>

MemorySave(p) ==
  LET id == Len(saves) + 1 IN
  /\ setting.backend = "memory" /\ run[p].pc = "item"
  /\ saves' = Append(saves, Checkpoint(run[p]))
  /\ manifest' = [latest |-> id, history |-> Append(manifest.history, id)]
  /\ run' = [run EXCEPT ![p] = Saved(@)]
  /\ UNCHANGED <<setting, older, runs, failures, begun, cut, orphans, raised, blurred>>

(* Mutant: a step that has a checkpoint is not written again. *)
PutItemOnce(p) ==
  /\ setting.backend # "memory" /\ run[p].pc = "item"
  /\ saves' = IF \E i \in DOMAIN saves : saves[i].step = run[p].label THEN saves
              ELSE Append(saves, Checkpoint(run[p]))
  /\ run' = [run EXCEPT ![p].id = Len(saves) + 1, ![p].pc = "manifest"]
  /\ UNCHANGED <<setting, manifest, older, runs, failures, begun, cut, orphans, raised, blurred>>

PutItem(p) ==
  /\ setting.backend # "memory" /\ run[p].pc = "item"
  /\ saves' = Append(saves, Checkpoint(run[p]))
  /\ run' = [run EXCEPT ![p].id = Len(saves) + 1, ![p].pc = "manifest"]
  /\ UNCHANGED <<setting, manifest, older, runs, failures, begun, cut, orphans, raised, blurred>>

(* Mutant: the history is set, not appended to. *)
ListedAlone(m, id) == [latest |-> id, history |-> <<id>>]
Listed(m, id) == [latest |-> id, history |-> Append(m.history, id)]

UpdateManifest(p) ==
  /\ setting.backend = "table" /\ run[p].pc = "manifest"
  /\ manifest' = Listed(manifest, run[p].id) /\ older' = manifest
  /\ run' = [run EXCEPT ![p] = Saved(@)]
  /\ UNCHANGED <<setting, saves, runs, failures, begun, cut, orphans, raised, blurred>>

(* Mutant: the update is tried again. *)
AfterRaiseAgain(r) == r
AfterRaise(r) == [r EXCEPT !.pc = "fallback"]

(* update_item raises: not supported, refused, or its answer was lost.     *)
UpdateRaises(p) ==
  /\ run[p].pc = "manifest"
  /\ \/ /\ setting.backend = "mock"
        /\ UNCHANGED <<manifest, older, failures>>
     \/ /\ setting.backend = "table" /\ failures < setting.faults
        /\ failures' = failures + 1
        /\ \/ UNCHANGED <<manifest, older>>
           \/ manifest' = Listed(manifest, run[p].id) /\ older' = manifest
  /\ run' = [run EXCEPT ![p] = AfterRaise(@)]
  /\ raised' = TRUE
  /\ UNCHANGED <<setting, saves, runs, begun, cut, orphans, blurred>>

Fallback(p, m) ==
  /\ run[p].pc = "fallback" /\ m \in Manifests
  /\ run' = [run EXCEPT ![p].read = m, ![p].pc = "rewrite"]
  /\ blurred' = (blurred \/ m # manifest)
  /\ UNCHANGED <<setting, saves, manifest, older, runs, failures, begun, cut, orphans, raised>>

Rewrite(p) ==
  /\ run[p].pc = "rewrite"
  /\ manifest' = Listed(run[p].read, run[p].id) /\ older' = manifest
  /\ run' = [run EXCEPT ![p] = Saved([@ EXCEPT !.read = None])]
  /\ UNCHANGED <<setting, saves, runs, failures, begun, cut, orphans, raised, blurred>>

(* The run ends where it stands.                                           *)
Abandon(p) ==
  LET r == run[p] IN
  /\ Alive(p) /\ failures < setting.faults
  /\ failures' = failures + 1
  /\ run' = [run EXCEPT ![p] = Off]
  /\ cut' = IF r.pc = "tools" \/ (r.pc \in Between /\ r.then = "think" /\ r.step \in StepNos)
            THEN [cut EXCEPT ![r.step] = @ + 1] ELSE cut
  /\ orphans' = IF r.pc = "manifest" THEN orphans \cup {r.id} ELSE orphans
  /\ blurred' = (blurred \/ r.pc \in {"fallback", "rewrite"})
  /\ UNCHANGED <<setting, saves, manifest, older, runs, begun, raised>>

(***************************************************************************)
(* The specification.                                                      *)
(***************************************************************************)
ThreadInit ==
  /\ setting \in Settings
  /\ saves = <<>> /\ manifest = [latest |-> None, history |-> <<>>] /\ older = manifest
  /\ run = [p \in Procs |-> Off] /\ runs = 0 /\ failures = 0
  /\ begun = [s \in StepNos |-> 0] /\ cut = [s \in StepNos |-> 0]
  /\ orphans = {} /\ raised = FALSE /\ blurred = FALSE

GoesOn(p) ==
  \/ \E id \in DOMAIN saves \cup {None} : Load(p, id) \/ ReadParent(p, id)
  \/ Answer(p)
  \/ \E n \in 1 .. MaxCalls : Ask(p, n)
  \/ CallTool(p)
  \/ MemorySave(p)
  \/ PutItem(p)
  \/ UpdateManifest(p)
  \/ UpdateRaises(p)
  \/ \E m \in Manifests : Fallback(p, m)
  \/ Rewrite(p)

ThreadNext ==
  \E p \in Procs :
    \/ \E from \in DOMAIN saves \cup {None} : Start(p, from)
    \/ GoesOn(p)
    \/ Abandon(p)

ThreadSpec == ThreadInit /\ [][ThreadNext]_atvars /\ \A p \in Procs : WF_atvars(GoesOn(p))
-----------------------------------------------------------------------------
(***************************************************************************)
(* Properties.                                                             *)
(***************************************************************************)
ThreadTypeOK ==
  /\ \A i \in DOMAIN saves : saves[i].talk \in Conversation /\ saves[i].step \in 0 .. StepLimit
  /\ \A p \in Procs : run[p].talk \in Conversation /\ run[p].left \in 0 .. MaxCalls

(* Whatever is interrupted, raced or lost, the manifest only ever names    *)
(* checkpoints that are there: a thread can always be resumed and listed,  *)
(* and following parents leads from any checkpoint back to a first one.    *)
CheckpointsExist ==
  /\ manifest.latest \in DOMAIN saves \cup {None}
  /\ \A i \in DOMAIN manifest.history : manifest.history[i] \in DOMAIN saves
  /\ \A i \in DOMAIN saves : saves[i].parent = None \/ saves[i].parent \in 1 .. i - 1

(* Every saved conversation can be continued: each request of the model is *)
(* followed by exactly the observations it asked for, the steps are        *)
(* numbered without a gap, and the number of tool calls is that of the     *)
(* observations.                                                           *)
Coherent(t, step) ==
  /\ t.steps = [i \in 1 .. Len(t.steps) |-> i] /\ Len(t.steps) = step
  /\ t.messages[1] = Goal
  /\ \A i \in DOMAIN t.messages :
       LET n == t.messages[i].calls IN
       /\ \A j \in 1 .. n : i + j \in DOMAIN t.messages /\ t.messages[i + j] = Observation
       /\ t.messages[i].from = "model" /\ i + n + 1 \in DOMAIN t.messages =>
            t.messages[i + n + 1] # Observation
  /\ t.total = Cardinality({i \in DOMAIN t.messages : t.messages[i] = Observation})

SavesCoherent == \A i \in DOMAIN saves : Coherent(saves[i].talk, saves[i].step)

(* Tools have effects, so they matter most: while runs neither overlap nor *)
(* go back to an older checkpoint, and no read lags, the tools of a step   *)
(* are started once and once more for every run that was abandoned before  *)
(* its step was saved.                                                     *)
ToolsRepeatOnlyAfterCuts ==
  ~blurred => \A s \in StepNos : begun[s] <= 1 + cut[s]

(* While no manifest update raised, the history lists every checkpoint     *)
(* once, but for those whose save is under way or was abandoned between    *)
(* the item and the manifest.  The state stays typed as ThreadTypeOK says. *)
HistoryComplete ==
  /\ ThreadTypeOK
  /\ ~raised =>
       \A id \in DOMAIN saves :
         \/ id \in orphans \/ \E p \in Procs : run[p].pc = "manifest" /\ run[p].id = id
         \/ Cardinality({i \in DOMAIN manifest.history : manifest.history[i] = id}) = 1
=============================================================================
