-------------------------- MODULE AgentRuns_proofs --------------------------
(***************************************************************************)
(* What runs agents: a thread of checkpoints with its manifest, a pipeline *)
(* of nodes with its record of what has run, and a graph of nodes whose    *)
(* batches are merged and joined.                                          *)
(***************************************************************************)
EXTENDS AgentThread, NodeGraph, AgentGraph, Sublists_proofs

-----------------------------------------------------------------------------
(***************************************************************************)
(* The manifest of a thread only ever names checkpoints that are there,    *)
(* for any number of processes, steps, tool calls, failures and abandoned  *)
(* runs, whether they overlap and whether reads lag.                       *)
(*                                                                         *)
(* CheckpointsExist is not inductive: a run writes into the manifest an id *)
(* it took earlier, after a copy it read earlier.  What is inductive says  *)
(* of every id that a run, the manifest or a lagging read may still use    *)
(* that its item has been put; items are never removed.                    *)
(***************************************************************************)

USE ThreadAssumption

Pcs == {"off", "load", "think", "tools", "parent", "item", "manifest", "fallback", "rewrite"}
Save == [step: 0 .. StepLimit, parent: Nat \cup {None}, talk: Conversation]

(* What may be known when n checkpoints have been put.                     *)
Known(n) == (1 .. n) \cup {None}
Record(n) == [latest: Known(n), history: Seq(1 .. n)]
Steps == 0 .. StepLimit + 1
Labels == 0 .. StepLimit
Lefts == 0 .. MaxCalls
Thens == {"none", "think", "off"}
RunRec(n) == [pc: Pcs, from: Known(n), talk: Conversation, step: Steps, left: Lefts, then: Thens,
           label: Labels, parent: Known(n), id: Known(n), read: Record(n) \cup {None}]

(* A run that thinks is within its steps, one that waits for tools waits   *)
(* for at least one, one that will go on after its save has a step to go   *)
(* on to, and one that updates the manifest has put its item.              *)
Good(n, r) ==
  /\ r \in RunRec(n)
  /\ r.pc \in {"think", "tools"} => r.step \in StepNos
  /\ r.pc = "tools" => r.left >= 1
  /\ r.pc \in Between => r.then = "off" \/ r.step <= StepLimit
  /\ r.pc \in {"manifest", "fallback", "rewrite"} => r.id \in 1 .. n
  /\ r.pc = "rewrite" => r.read \in Record(n)

Chained(s) == \A i \in DOMAIN s : s[i].parent = None \/ s[i].parent \in 1 .. i - 1

ThreadInv ==
  /\ setting \in Settings
  /\ saves \in Seq(Save) /\ Chained(saves)
  /\ manifest \in Record(Len(saves)) /\ older \in Record(Len(saves))
  /\ DOMAIN run = Procs /\ \A p \in Procs : Good(Len(saves), run[p])

(* More checkpoints, more that may be known.                               *)
LEMMA RecordGrows == ASSUME NEW n \in Nat PROVE Record(n) \subseteq Record(n + 1)
<1>1. Seq(1 .. n) \subseteq Seq(1 .. n + 1)
  <2> SUFFICES ASSUME NEW s \in Seq(1 .. n) PROVE s \in Seq(1 .. n + 1)
    OBVIOUS
  <2>1. s \in [1 .. Len(s) -> 1 .. n + 1] /\ Len(s) \in Nat
    OBVIOUS
  <2> QED  BY <2>1
<1> QED  BY <1>1 DEF Record, Known

LEMMA GoodGrows ==
  ASSUME NEW n \in Nat, NEW r, Good(n, r)
  PROVE  Good(n + 1, r)
<1>1. Record(n) \subseteq Record(n + 1) /\ Known(n) \subseteq Known(n + 1)
  BY RecordGrows DEF Known
<1>2. r \in RunRec(n + 1)
  BY <1>1 DEF Good, RunRec
<1>3. 1 .. n \subseteq 1 .. n + 1
  OBVIOUS
<1> QED  BY <1>1, <1>2, <1>3 DEF Good

(* A manifest to which a known checkpoint is added.                        *)
LEMMA ListedKnown ==
  ASSUME NEW n \in Nat, NEW m \in Record(n), NEW id \in 1 .. n
  PROVE  Listed(m, id) \in Record(n)
BY DEF Listed, Record, Known

(* The next step of a run, or its last checkpoint.                         *)
LEMMA OnwardGood ==
  ASSUME setting \in Settings, NEW n \in Nat, NEW r \in RunRec(n), NEW s \in 1 .. StepLimit + 1
  PROVE  Good(n, Onward(r, s))
<1>0. setting.steps \in 1 .. StepLimit
  BY DEF SettingOK
<1>1. CASE s > setting.steps
  <2> DEFINE o == [r EXCEPT !.step = s, !.pc = "parent", !.label = setting.steps, !.then = "off"]
  <2>1. Onward(r, s) = o
    BY <1>1 DEF Onward, Saving, RunRec
  <2>2. s \in Steps /\ setting.steps \in Labels /\ "parent" \in Pcs /\ "off" \in Thens
    BY <1>0 DEF Steps, Labels, Pcs, Thens
  <2>3. o \in RunRec(n) /\ o.pc = "parent" /\ o.then = "off"
    BY <2>2 DEF RunRec
  <2> HIDE DEF o
  <2> QED  BY <2>1, <2>3 DEF Good, Between
<1>2. CASE ~(s > setting.steps)
  <2> DEFINE o == [r EXCEPT !.step = s, !.pc = "think"]
  <2>1. Onward(r, s) = o
    BY <1>2 DEF Onward
  <2>2. s \in Steps /\ s \in StepNos /\ "think" \in Pcs
    BY <1>0, <1>2 DEF Steps, StepNos, Pcs
  <2>3. o \in RunRec(n) /\ o.pc = "think" /\ o.step \in StepNos
    BY <2>2 DEF RunRec
  <2> HIDE DEF o
  <2> QED  BY <2>1, <2>3 DEF Good, Between
<1> QED  BY <1>1, <1>2

LEMMA OpeningTyped == Opening \in Conversation
<1>1. <<Goal>> \in Seq({Goal, Observation} \cup {Spoken(i) : i \in 0 .. MaxCalls})
  OBVIOUS
<1>2. << >> \in Seq(StepNos)
  OBVIOUS
<1> QED  BY <1>1, <1>2 DEF Opening, Conversation

LEMMA OffGood == ASSUME NEW n \in Nat PROVE Good(n, Off)
BY OpeningTyped DEF Off, Good, RunRec, Pcs, Known, Between, Steps, Labels, Lefts, Thens

(* A run after its save.                                                   *)
LEMMA SavedGood ==
  ASSUME setting \in Settings, NEW n \in Nat, NEW r, r \in RunRec(n),
         r.then = "off" \/ r.step <= StepLimit
  PROVE  Good(n, Saved(r))
<1>1. CASE r.then = "off"
  BY <1>1, OffGood DEF Saved
<1>2. CASE r.then # "off"
  <2>1. r.step + 1 \in 1 .. StepLimit + 1
    BY <1>2 DEF RunRec, Steps
  <2> QED  BY <1>2, <2>1, OnwardGood DEF Saved
<1> QED  BY <1>1, <1>2

(* A step of one run that puts no checkpoint.                              *)
LEMMA OneRunSteps ==
  ASSUME ThreadInv, NEW p \in Procs, NEW r, Good(Len(saves), r),
         run' = [run EXCEPT ![p] = r], UNCHANGED <<setting, saves>>,
         manifest' \in Record(Len(saves)), older' \in Record(Len(saves))
  PROVE  ThreadInv'
BY DEF ThreadInv

(* What a read of the thread may answer is there.                          *)
LEMMA AnswersKnown ==
  ASSUME ThreadInv, NEW from \in Known(Len(saves)), NEW id \in Answers(from)
  PROVE  id \in Known(Len(saves))
<1>1. \A m \in Manifests : m \in Record(Len(saves))
  BY DEF Manifests, ThreadInv
<1>2. \A m \in Manifests : m.latest \in Known(Len(saves))
  BY <1>1 DEF Record
<1> QED  BY <1>2 DEF Answers, Known

LEMMA StartKeeps ==
  ASSUME ThreadInv, NEW p \in Procs, NEW from \in DOMAIN saves \cup {None}, Start(p, from)
  PROVE  ThreadInv'
<1> DEFINE r == [Off EXCEPT !.pc = "load", !.from = from]
<1>1. from \in Known(Len(saves)) /\ Len(saves) \in Nat
  BY DEF ThreadInv, Known
<1>2. Good(Len(saves), r)
  <2>1. Off \in RunRec(Len(saves)) /\ "load" \in Pcs
    BY <1>1, OffGood DEF Good, Pcs
  <2>2. r \in RunRec(Len(saves)) /\ r.pc = "load"
    BY <1>1, <2>1 DEF RunRec
  <2> HIDE DEF r
  <2> QED  BY <2>2 DEF Good, Between
<1>3. /\ run' = [run EXCEPT ![p] = r] /\ UNCHANGED <<setting, saves>>
      /\ manifest' = manifest /\ older' = older
  BY DEF Start
<1> HIDE DEF r
<1> QED  BY <1>2, <1>3, OneRunSteps DEF ThreadInv

LEMMA LoadKeeps ==
  ASSUME ThreadInv, NEW p \in Procs, NEW id \in DOMAIN saves \cup {None}, Load(p, id)
  PROVE  ThreadInv'
<1> DEFINE n == Len(saves)  r == run[p]
           o == IF id = None THEN Saving([r EXCEPT !.step = 0], 0, "think") ELSE Resumed(r, saves[id])
<1>1. r \in RunRec(n) /\ n \in Nat /\ setting \in Settings
  BY DEF ThreadInv, Good
<1>2. ASSUME id = None PROVE Good(n, o)
  <2>1. o = [r EXCEPT !.step = 0, !.pc = "parent", !.label = 0, !.then = "think"]
    BY <1>1, <1>2 DEF Saving, RunRec
  <2>2. 0 \in Steps /\ 0 \in Labels /\ "parent" \in Pcs /\ "think" \in Thens
    BY DEF Steps, Labels, Pcs, Thens
  <2>3. o \in RunRec(n) /\ o.pc = "parent" /\ o.step = 0
    BY <1>1, <2>1, <2>2 DEF RunRec
  <2> HIDE DEF o
  <2> QED  BY <2>3 DEF Good, Between
<1>3. ASSUME id # None PROVE Good(n, o)
  <2>1. saves[id] \in Save
    BY <1>3 DEF ThreadInv
  <2>2. [r EXCEPT !.talk = saves[id].talk] \in RunRec(n)
    BY <1>1, <2>1 DEF RunRec, Save
  <2>3. saves[id].step + 1 \in 1 .. StepLimit + 1
    BY <2>1 DEF Save
  <2>4. o = Onward([r EXCEPT !.talk = saves[id].talk], saves[id].step + 1)
    BY <1>3 DEF Resumed
  <2> DEFINE q == [r EXCEPT !.talk = saves[id].talk]  k == saves[id].step + 1
  <2> HIDE DEF o, q, k
  <2>5. q \in RunRec(n) /\ k \in 1 .. StepLimit + 1 /\ o = Onward(q, k)
    BY <2>2, <2>3, <2>4 DEF q, k
  <2> QED  BY <1>1, <2>5, OnwardGood
<1>4. /\ run' = [run EXCEPT ![p] = o] /\ UNCHANGED <<setting, saves>>
      /\ manifest' = manifest /\ older' = older
  BY DEF Load, ThreadInv
<1> HIDE DEF o
<1> QED  BY <1>2, <1>3, <1>4, OneRunSteps DEF ThreadInv

(* A conversation that grows by a message.                                 *)
LEMMA TalkGrows ==
  ASSUME NEW t \in Conversation, NEW i \in 0 .. MaxCalls, NEW k \in Nat, NEW s \in Seq(StepNos),
         NEW m \in {Observation, Spoken(i)}
  PROVE  [t EXCEPT !.messages = Append(@, m), !.steps = s, !.total = k] \in Conversation
<1> DEFINE M == {Goal, Observation} \cup {Spoken(j) : j \in 0 .. MaxCalls}
<1>1. m \in M
  OBVIOUS
<1>2. Conversation = [messages: Seq(M), steps: Seq(StepNos), total: Nat]
  BY DEF Conversation
<1> HIDE DEF M
<1>3. Append(t.messages, m) \in Seq(M)
  BY <1>1, <1>2
<1> QED  BY <1>2, <1>3

LEMMA AnswerKeeps ==
  ASSUME ThreadInv, NEW p \in Procs, Answer(p)
  PROVE  ThreadInv'
<1> DEFINE n == Len(saves)  r == run[p]
           t == [r.talk EXCEPT !.messages = Append(@, Spoken(0)), !.steps = Append(r.talk.steps, r.step),
                               !.total = r.talk.total]
           o == [r EXCEPT !.talk = t, !.pc = "parent", !.label = r.step, !.then = "off"]
<1>1. /\ r \in RunRec(n) /\ n \in Nat /\ r.talk \in Conversation /\ r.step \in StepNos
  BY DEF ThreadInv, Good, Answer, RunRec
<1>2. t \in Conversation
  <2>1. Append(r.talk.steps, r.step) \in Seq(StepNos) /\ r.talk.total \in Nat /\ 0 \in 0 .. MaxCalls
    BY <1>1 DEF Conversation
  <2> QED  BY <1>1, <2>1, TalkGrows
<1>3. o \in RunRec(n) /\ o.pc = "parent" /\ o.then = "off"
  <2>1. r.step \in Labels /\ "parent" \in Pcs /\ "off" \in Thens
    BY <1>1 DEF Labels, StepNos, Pcs, Thens
  <2> HIDE DEF t
  <2> QED  BY <1>1, <1>2, <2>1 DEF RunRec
<1>4. Good(n, o)
  <2> HIDE DEF o
  <2> QED  BY <1>3 DEF Good, Between
<1>5. Saving([r EXCEPT !.talk.messages = Append(@, Spoken(0)), !.talk.steps = Append(@, r.step)],
             r.step, "off") = o
  <2>1. [r.talk EXCEPT !.messages = Append(@, Spoken(0)), !.steps = Append(@, r.step)] = t
    BY <1>1 DEF Conversation
  <2> HIDE DEF t
  <2> QED  BY <1>1, <2>1 DEF Saving, RunRec
<1>6. /\ run' = [run EXCEPT ![p] = o] /\ UNCHANGED <<setting, saves>>
      /\ manifest' = manifest /\ older' = older
  BY <1>5 DEF Answer
<1> HIDE DEF o
<1> QED  BY <1>4, <1>6, OneRunSteps DEF ThreadInv

LEMMA AskKeeps ==
  ASSUME ThreadInv, NEW p \in Procs, NEW k \in 1 .. MaxCalls, Ask(p, k)
  PROVE  ThreadInv'
<1> DEFINE n == Len(saves)  r == run[p]
           t == [r.talk EXCEPT !.messages = Append(@, Spoken(k)), !.steps = r.talk.steps,
                               !.total = r.talk.total + k]
           o == [r EXCEPT !.talk = t, !.left = k, !.pc = "tools"]
<1>1. /\ r \in RunRec(n) /\ n \in Nat /\ r.talk \in Conversation /\ r.step \in StepNos
  BY DEF ThreadInv, Good, Ask, RunRec
<1>2. t \in Conversation
  <2>1. r.talk.steps \in Seq(StepNos) /\ r.talk.total + k \in Nat /\ k \in 0 .. MaxCalls
    BY <1>1 DEF Conversation
  <2> QED  BY <1>1, <2>1, TalkGrows
<1>3. o \in RunRec(n) /\ o.pc = "tools" /\ o.left = k /\ o.step = r.step
  <2>1. k \in Lefts /\ "tools" \in Pcs
    BY DEF Lefts, Pcs
  <2> HIDE DEF t
  <2> QED  BY <1>1, <1>2, <2>1 DEF RunRec
<1>4. Good(n, o)
  <2> HIDE DEF o
  <2> QED  BY <1>1, <1>3 DEF Good, Between
<1>5. [r EXCEPT !.talk.messages = Append(@, Spoken(k)), !.talk.total = @ + k,
                !.left = k, !.pc = "tools"] = o
  <2>1. [r.talk EXCEPT !.messages = Append(@, Spoken(k)), !.total = @ + k] = t
    BY <1>1 DEF Conversation
  <2> HIDE DEF t
  <2> QED  BY <1>1, <2>1 DEF RunRec
<1>6. /\ run' = [run EXCEPT ![p] = o] /\ UNCHANGED <<setting, saves>>
      /\ manifest' = manifest /\ older' = older
  BY <1>5 DEF Ask
<1> HIDE DEF o
<1> QED  BY <1>4, <1>6, OneRunSteps DEF ThreadInv

LEMMA CallToolKeeps ==
  ASSUME ThreadInv, NEW p \in Procs, CallTool(p)
  PROVE  ThreadInv'
<1> DEFINE n == Len(saves)  r == run[p]
           said == [r EXCEPT !.talk.messages = Append(@, Observation), !.left = @ - 1]
           t == [r.talk EXCEPT !.messages = Append(@, Observation), !.steps = r.talk.steps,
                               !.total = r.talk.total]
           u == [r.talk EXCEPT !.messages = Append(@, Observation), !.steps = Append(r.talk.steps, r.step),
                               !.total = r.talk.total]
           a == [r EXCEPT !.talk = t, !.left = r.left - 1]
           b == [r EXCEPT !.talk = u, !.left = r.left - 1, !.pc = "parent", !.label = r.step,
                          !.then = "think"]
<1>1. /\ r \in RunRec(n) /\ n \in Nat /\ r.talk \in Conversation /\ r.step \in StepNos
      /\ r.pc = "tools" /\ r.left - 1 \in 0 .. MaxCalls
  BY DEF ThreadInv, Good, CallTool, RunRec, Lefts
<1>2. t \in Conversation /\ u \in Conversation
  <2>1. /\ r.talk.steps \in Seq(StepNos) /\ r.talk.total \in Nat
        /\ Append(r.talk.steps, r.step) \in Seq(StepNos) /\ 0 \in 0 .. MaxCalls
    BY <1>1 DEF Conversation
  <2> QED  BY <1>1, <2>1, TalkGrows
<1>3. /\ a \in RunRec(n) /\ a.pc = "tools" /\ a.left = r.left - 1 /\ a.step = r.step
      /\ b \in RunRec(n) /\ b.pc = "parent" /\ b.step = r.step
  <2>1. r.step \in Labels /\ r.left - 1 \in Lefts /\ "parent" \in Pcs /\ "think" \in Thens
    BY <1>1 DEF Labels, Lefts, StepNos, Pcs, Thens
  <2> HIDE DEF t, u
  <2> QED  BY <1>1, <1>2, <2>1 DEF RunRec
<1>4. (r.left > 1 => Good(n, a)) /\ Good(n, b)
  <2> HIDE DEF a, b
  <2>1. r.left > 1 => r.left - 1 >= 1
    BY <1>1 DEF RunRec, Lefts
  <2> QED  BY <1>1, <1>3, <2>1 DEF Good, Between, StepNos
<1>5. /\ said = a
      /\ Saving([said EXCEPT !.talk.steps = Append(@, r.step)], r.step, "think") = b
  <2>1. /\ [r.talk EXCEPT !.messages = Append(@, Observation)] = t
        /\ [t EXCEPT !.steps = Append(@, r.step)] = u
    BY <1>1 DEF Conversation
  <2>2. said = a
    <3> HIDE DEF t
    <3> QED  BY <1>1, <2>1 DEF RunRec
  <2>3. [a EXCEPT !.talk.steps = Append(@, r.step)] = [a EXCEPT !.talk = u]
    <3> HIDE DEF t, u
    <3> QED  BY <1>1, <2>1 DEF RunRec
  <2>4. Saving([a EXCEPT !.talk = u], r.step, "think") = b
    <3> HIDE DEF t, u
    <3> QED  BY <1>1 DEF Saving, RunRec
  <2> HIDE DEF said, a, b
  <2> QED  BY <2>2, <2>3, <2>4
<1>6. /\ run' = [run EXCEPT ![p] = IF r.left > 1 THEN a ELSE b] /\ UNCHANGED <<setting, saves>>
      /\ manifest' = manifest /\ older' = older
  <2>1. /\ run' = [run EXCEPT ![p] = IF r.left > 1 THEN said
                                       ELSE Saving([said EXCEPT !.talk.steps = Append(@, r.step)],
                                                   r.step, "think")]
        /\ UNCHANGED <<setting, saves, manifest, older>>
    BY DEF CallTool
  <2> HIDE DEF said, a, b
  <2> QED  BY <1>5, <2>1
<1> HIDE DEF a, b
<1> QED  BY <1>4, <1>6, OneRunSteps DEF ThreadInv

LEMMA ReadParentKeeps ==
  ASSUME ThreadInv, NEW p \in Procs, NEW id, ReadParent(p, id)
  PROVE  ThreadInv'
<1> DEFINE n == Len(saves)  r == run[p]  o == [r EXCEPT !.parent = id, !.pc = "item"]
<1>1. None \in Known(n) /\ id \in Known(n)
  BY AnswersKnown DEF ReadParent, Known
<1>2. Good(n, r) /\ r.pc = "parent"
  BY DEF ThreadInv, ReadParent
<1>3. Good(n, o)
  BY <1>1, <1>2 DEF Good, RunRec, Pcs, Between
<1>4. /\ run' = [run EXCEPT ![p] = o] /\ UNCHANGED <<setting, saves>>
      /\ manifest' = manifest /\ older' = older
  BY <1>2 DEF ReadParent, ThreadInv
<1> HIDE DEF o
<1> QED  BY <1>3, <1>4, OneRunSteps DEF ThreadInv

(* The item of a new checkpoint.                                           *)
LEMMA PutChained ==
  ASSUME ThreadInv, NEW r, Good(Len(saves), r), saves' = Append(saves, Checkpoint(r))
  PROVE  saves' \in Seq(Save) /\ Chained(saves') /\ Len(saves') = Len(saves) + 1
<1>1. /\ Checkpoint(r) \in Save
      /\ Checkpoint(r).parent = None \/ Checkpoint(r).parent \in 1 .. Len(saves)
  BY DEF Checkpoint, Save, Good, RunRec, Known, Labels, ThreadInv
<1>2. saves \in Seq(Save) /\ Chained(saves)
  BY DEF ThreadInv
<1> QED  BY <1>1, <1>2 DEF Chained

LEMMA MemorySaveKeeps ==
  ASSUME ThreadInv, NEW p \in Procs, MemorySave(p)
  PROVE  ThreadInv'
<1> DEFINE n == Len(saves)  r == run[p]
<1>1. n \in Nat /\ Good(n, r) /\ r.pc = "item" /\ setting \in Settings
  BY DEF ThreadInv, MemorySave
<1>2. saves' \in Seq(Save) /\ Chained(saves') /\ Len(saves') = n + 1
  BY <1>1, PutChained DEF MemorySave
<1>3. manifest \in Record(n + 1) /\ older' \in Record(n + 1)
  BY <1>1, RecordGrows DEF ThreadInv, MemorySave
<1>4. manifest' \in Record(n + 1)
  <2>1. manifest' = Listed(manifest, n + 1)
    BY DEF MemorySave, Listed
  <2> QED  BY <1>1, <1>3, <2>1, ListedKnown
<1>5. \A q \in Procs : Good(n + 1, run[q])
  BY <1>1, GoodGrows DEF ThreadInv
<1>6. Good(n + 1, Saved(r))
  BY <1>1, <1>5, SavedGood DEF Good, Between
<1>7. /\ DOMAIN run' = Procs
      /\ \A q \in Procs : run'[q] = IF q = p THEN Saved(r) ELSE run[q]
  BY DEF MemorySave, ThreadInv
<1>8. \A q \in Procs : Good(n + 1, run'[q])
  BY <1>5, <1>6, <1>7
<1> QED  BY <1>1, <1>2, <1>3, <1>4, <1>7, <1>8 DEF ThreadInv, MemorySave

LEMMA PutItemKeeps ==
  ASSUME ThreadInv, NEW p \in Procs, PutItem(p)
  PROVE  ThreadInv'
<1> DEFINE n == Len(saves)  r == run[p]  o == [r EXCEPT !.id = n + 1, !.pc = "manifest"]
<1>1. n \in Nat /\ Good(n, r) /\ r.pc = "item" /\ setting \in Settings
  BY DEF ThreadInv, PutItem
<1>2. saves' \in Seq(Save) /\ Chained(saves') /\ Len(saves') = n + 1
  BY <1>1, PutChained DEF PutItem
<1>3. manifest' \in Record(n + 1) /\ older' \in Record(n + 1)
  BY <1>1, RecordGrows DEF ThreadInv, PutItem
<1>4. \A q \in Procs : Good(n + 1, run[q])
  BY <1>1, GoodGrows DEF ThreadInv
<1>5. Good(n + 1, o)
  <2>1. n + 1 \in Known(n + 1) /\ n + 1 \in 1 .. n + 1 /\ "manifest" \in Pcs
    BY <1>1 DEF Known, Pcs
  <2>2. r \in RunRec(n + 1) /\ (r.then = "off" \/ r.step <= StepLimit)
    BY <1>1, <1>4 DEF Good, Between
  <2>3. /\ o \in RunRec(n + 1) /\ o.pc = "manifest" /\ o.id = n + 1
        /\ o.then = r.then /\ o.step = r.step
    BY <2>1, <2>2 DEF RunRec
  <2> HIDE DEF o
  <2> QED  BY <2>1, <2>2, <2>3 DEF Good, Between
<1>6. /\ DOMAIN run' = Procs
      /\ \A q \in Procs : run'[q] = IF q = p THEN o ELSE run[q]
  BY DEF PutItem, ThreadInv
<1>7. \A q \in Procs : Good(n + 1, run'[q])
  <2> HIDE DEF o
  <2> QED  BY <1>4, <1>5, <1>6
<1> QED  BY <1>1, <1>2, <1>3, <1>6, <1>7 DEF ThreadInv, PutItem

LEMMA UpdateManifestKeeps ==
  ASSUME ThreadInv, NEW p \in Procs, UpdateManifest(p)
  PROVE  ThreadInv'
<1> DEFINE n == Len(saves)  r == run[p]
<1>1. n \in Nat /\ Good(n, r) /\ r.pc = "manifest" /\ setting \in Settings
  BY DEF ThreadInv, UpdateManifest
<1>2. manifest' \in Record(n) /\ older' \in Record(n)
  BY <1>1, ListedKnown DEF ThreadInv, UpdateManifest, Good
<1>3. Good(n, Saved(r))
  BY <1>1, SavedGood DEF Good, Between
<1> QED  BY <1>2, <1>3, OneRunSteps DEF UpdateManifest

LEMMA UpdateRaisesKeeps ==
  ASSUME ThreadInv, NEW p \in Procs, UpdateRaises(p)
  PROVE  ThreadInv'
<1> DEFINE n == Len(saves)  r == run[p]
<1>1. n \in Nat /\ Good(n, r) /\ r.pc = "manifest"
  BY DEF ThreadInv, UpdateRaises
<1>2. \/ manifest' = manifest /\ older' = older
      \/ manifest' = Listed(manifest, r.id) /\ older' = manifest
  BY DEF UpdateRaises
<1>3. manifest' \in Record(n) /\ older' \in Record(n)
  <2>1. Listed(manifest, r.id) \in Record(n)
    BY <1>1, ListedKnown DEF ThreadInv, Good
  <2> QED  BY <1>2, <2>1 DEF ThreadInv
<1>4. Good(n, AfterRaise(r))
  BY <1>1 DEF AfterRaise, Good, RunRec, Pcs, Between
<1> QED  BY <1>3, <1>4, OneRunSteps DEF UpdateRaises

LEMMA FallbackKeeps ==
  ASSUME ThreadInv, NEW p \in Procs, NEW m \in Manifests, Fallback(p, m)
  PROVE  ThreadInv'
<1> DEFINE n == Len(saves)  r == run[p]  o == [r EXCEPT !.read = m, !.pc = "rewrite"]
<1>1. Good(n, r) /\ r.pc = "fallback" /\ m \in Record(n)
  BY DEF ThreadInv, Fallback, Manifests
<1>2. Good(n, o)
  BY <1>1 DEF Good, RunRec, Pcs, Between
<1>3. /\ run' = [run EXCEPT ![p] = o] /\ UNCHANGED <<setting, saves>>
      /\ manifest' = manifest /\ older' = older
  BY <1>1 DEF Fallback, ThreadInv
<1> HIDE DEF o
<1> QED  BY <1>2, <1>3, OneRunSteps DEF ThreadInv

LEMMA RewriteKeeps ==
  ASSUME ThreadInv, NEW p \in Procs, Rewrite(p)
  PROVE  ThreadInv'
<1> DEFINE n == Len(saves)  r == run[p]  o == [r EXCEPT !.read = None]
<1>1. n \in Nat /\ Good(n, r) /\ r.pc = "rewrite" /\ setting \in Settings
  BY DEF ThreadInv, Rewrite
<1>2. manifest' \in Record(n) /\ older' \in Record(n)
  BY <1>1, ListedKnown DEF ThreadInv, Rewrite, Good
<1>3. o \in RunRec(n) /\ (o.then = "off" \/ o.step <= StepLimit)
  BY <1>1 DEF Good, RunRec, Between
<1>4. Good(n, Saved(o))
  <2> HIDE DEF o
  <2> QED  BY <1>1, <1>3, SavedGood
<1>5. run' = [run EXCEPT ![p] = Saved(o)] /\ UNCHANGED <<setting, saves>>
  BY DEF Rewrite
<1> HIDE DEF o
<1> QED  BY <1>2, <1>4, <1>5, OneRunSteps

LEMMA AbandonKeeps ==
  ASSUME ThreadInv, NEW p \in Procs, Abandon(p)
  PROVE  ThreadInv'
<1>1. Len(saves) \in Nat
  BY DEF ThreadInv
<1> QED  BY <1>1, OffGood, OneRunSteps DEF Abandon, ThreadInv

LEMMA ThreadInvInit == ThreadInit => ThreadInv
<1> SUFFICES ASSUME ThreadInit PROVE ThreadInv
  OBVIOUS
<1>1. saves \in Seq(Save) /\ Len(saves) = 0 /\ Chained(saves)
  BY DEF ThreadInit, Chained
<1>2. manifest \in Record(0) /\ older \in Record(0)
  BY DEF ThreadInit, Record, Known
<1>3. \A p \in Procs : Good(0, run[p])
  BY OffGood DEF ThreadInit
<1> QED  BY <1>1, <1>2, <1>3 DEF ThreadInit, ThreadInv

LEMMA ThreadInvNext == ThreadInv /\ [ThreadNext]_atvars => ThreadInv'
<1> SUFFICES ASSUME ThreadInv, [ThreadNext]_atvars PROVE ThreadInv'
  OBVIOUS
<1>1. CASE UNCHANGED atvars
  BY <1>1 DEF atvars, ThreadInv
<1>2. ASSUME NEW p \in Procs, \E from \in DOMAIN saves \cup {None} : Start(p, from)
      PROVE  ThreadInv'
  BY <1>2, StartKeeps
<1>3. ASSUME NEW p \in Procs, GoesOn(p)
      PROVE  ThreadInv'
  BY <1>3, LoadKeeps, ReadParentKeeps, AnswerKeeps, AskKeeps, CallToolKeeps, MemorySaveKeeps,
     PutItemKeeps, UpdateManifestKeeps, UpdateRaisesKeeps, FallbackKeeps, RewriteKeeps DEF GoesOn
<1>4. ASSUME NEW p \in Procs, Abandon(p)
      PROVE  ThreadInv'
  BY <1>4, AbandonKeeps
<1> QED  BY <1>1, <1>2, <1>3, <1>4 DEF ThreadNext

LEMMA ThreadInvImplies == ThreadInv => CheckpointsExist /\ ThreadTypeOK
<1> SUFFICES ASSUME ThreadInv PROVE CheckpointsExist /\ ThreadTypeOK
  OBVIOUS
<1>1. manifest.latest \in DOMAIN saves \cup {None}
  BY DEF ThreadInv, Record, Known
<1>2. \A i \in DOMAIN manifest.history : manifest.history[i] \in DOMAIN saves
  BY DEF ThreadInv, Record
<1>3. \A i \in DOMAIN saves : saves[i].parent = None \/ saves[i].parent \in 1 .. i - 1
  BY DEF ThreadInv, Chained
<1>4. \A i \in DOMAIN saves : saves[i] \in Save
  BY DEF ThreadInv
<1>5. ThreadTypeOK
  BY <1>4 DEF ThreadTypeOK, Save, ThreadInv, Good, RunRec, Lefts
<1> QED  BY <1>1, <1>2, <1>3, <1>5 DEF CheckpointsExist

(* The manifest that DynamoDBCheckpointer updates names only items it has  *)
(* put, and parents lead back to a first checkpoint, whatever is           *)
(* abandoned, raced, or read from a replica that lags.                     *)
THEOREM ManifestNamesItems == ThreadSpec => []CheckpointsExist
<1> QED  BY ThreadInvInit, ThreadInvNext, ThreadInvImplies, PTL DEF ThreadSpec

(* Every run and every saved conversation is typed, and within max_steps.  *)
THEOREM ThreadTyped == ThreadSpec => []ThreadTypeOK
<1> QED  BY ThreadInvInit, ThreadInvNext, ThreadInvImplies, PTL DEF ThreadSpec
-----------------------------------------------------------------------------
(***************************************************************************)
(* The history.  While no manifest update has raised, an id is appended to *)
(* the history once, by the run that put the item: ids in the history are  *)
(* distinct, and those under way are distinct and not in it yet.           *)
(***************************************************************************)
Lists(h, id) == \E i \in DOMAIN h : h[i] = id
Distinct(h) == \A i, j \in DOMAIN h : h[i] = h[j] => i = j
Pending(p) == run[p].pc = "manifest"

EachOnce ==
  /\ \A p \in Procs : run[p].pc \notin {"fallback", "rewrite"}
  /\ Distinct(manifest.history)
  /\ \A p \in Procs : Pending(p) => ~Lists(manifest.history, run[p].id)
  /\ \A p, q \in Procs : Pending(p) /\ Pending(q) /\ run[p].id = run[q].id => p = q
  /\ \A id \in DOMAIN saves :
       \/ id \in orphans \/ Lists(manifest.history, id)
       \/ \E p \in Procs : Pending(p) /\ run[p].id = id

HistoryInv == ~raised => EachOnce

(* A run that goes on, or is saved, does not stand before its manifest.    *)
LEMMA OnwardPc ==
  ASSUME NEW n, NEW r \in RunRec(n), NEW s
  PROVE  Onward(r, s).pc \in {"parent", "think"}
BY DEF Onward, Saving, RunRec

LEMMA SavedPc ==
  ASSUME NEW n, NEW r \in RunRec(n)
  PROVE  Saved(r).pc \in {"off", "parent", "think"}
BY OnwardPc DEF Saved, Off

(* A step of a run that neither comes to its manifest nor leaves it.       *)
LEMMA HistoryStands ==
  ASSUME ThreadInv, HistoryInv, NEW p \in Procs, NEW r, run' = [run EXCEPT ![p] = r],
         UNCHANGED <<saves, manifest, orphans, raised>>,
         run[p].pc # "manifest", r.pc \notin {"manifest", "fallback", "rewrite"}
  PROVE  HistoryInv'
<1> SUFFICES ASSUME ~raised' PROVE EachOnce'
  BY DEF HistoryInv
<1>1. EachOnce
  BY DEF HistoryInv
<1>2. \A q \in Procs : run'[q] = IF q = p THEN r ELSE run[q]
  BY DEF ThreadInv
<1>3. \A q \in Procs : Pending(q)' <=> Pending(q)
  BY <1>2 DEF Pending
<1>4. \A q \in Procs : Pending(q) => run'[q] = run[q]
  BY <1>2 DEF Pending
<1>5. \A id : Lists(manifest'.history, id) <=> Lists(manifest.history, id)
  BY DEF Lists
<1>6. \A q \in Procs : run'[q].pc \notin {"fallback", "rewrite"}
  BY <1>1, <1>2 DEF EachOnce
<1>7. \A q \in Procs : Pending(q)' => ~Lists(manifest'.history, run'[q].id)
  BY <1>1, <1>3, <1>4, <1>5 DEF EachOnce
<1>8. \A q, w \in Procs : Pending(q)' /\ Pending(w)' /\ run'[q].id = run'[w].id => q = w
  BY <1>1, <1>3, <1>4 DEF EachOnce
<1>9. \A id \in DOMAIN saves' :
        id \in orphans' \/ Lists(manifest'.history, id)
        \/ \E q \in Procs : Pending(q)' /\ run'[q].id = id
  BY <1>1, <1>3, <1>4, <1>5 DEF EachOnce
<1>10. Distinct(manifest'.history)
  BY <1>1 DEF EachOnce
<1> QED  BY <1>6, <1>7, <1>8, <1>9, <1>10 DEF EachOnce

(* An id that is in the history's range, is the id of an item.             *)
LEMMA HistoryKnown ==
  ASSUME ThreadInv
  PROVE  /\ Len(saves) \in Nat /\ DOMAIN saves = 1 .. Len(saves)
         /\ manifest.history \in Seq(1 .. Len(saves)) /\ DOMAIN run = Procs
         /\ \A id : Lists(manifest.history, id) => id \in 1 .. Len(saves)
         /\ \A q \in Procs : Pending(q) => run[q].id \in 1 .. Len(saves)
<1>1. manifest.history \in Seq(1 .. Len(saves)) /\ Len(saves) \in Nat /\ DOMAIN saves = 1 .. Len(saves)
  BY DEF ThreadInv, Record
<1>2. \A id : Lists(manifest.history, id) => id \in 1 .. Len(saves)
  BY <1>1 DEF Lists
<1> QED  BY <1>1, <1>2 DEF ThreadInv, Good, Pending

(* A history with distinct ids, to which a new one is appended.            *)
LEMMA ListedOnce ==
  ASSUME NEW n \in Nat, NEW h \in Seq(1 .. n), NEW id \in Nat, ~Lists(h, id), Distinct(h)
  PROVE  /\ \A k : Lists(Append(h, id), k) <=> Lists(h, k) \/ k = id
         /\ Distinct(Append(h, id))
<1> DEFINE l == Len(h)  g == Append(h, id)
<1>1. /\ l \in Nat /\ DOMAIN h = 1 .. l /\ DOMAIN g = 1 .. l + 1
      /\ \A i \in 1 .. l : g[i] = h[i] /\ h[i] # id
      /\ g[l + 1] = id
  BY DEF Lists
<1>2. \A i \in 1 .. l + 1 : i \in 1 .. l \/ i = l + 1
  BY <1>1
<1>3. \A i \in 1 .. l : i \in 1 .. l + 1
  BY <1>1
<1>4. l + 1 \in 1 .. l + 1
  BY <1>1
<1> HIDE DEF g, l
<1>5. ASSUME NEW k, Lists(g, k) PROVE Lists(h, k) \/ k = id
  BY <1>1, <1>2, <1>5 DEF Lists
<1>6. ASSUME NEW k, Lists(h, k) PROVE Lists(g, k)
  BY <1>1, <1>3, <1>6 DEF Lists
<1>7. Lists(g, id)
  BY <1>1, <1>4 DEF Lists
<1>8. Distinct(g)
  BY <1>1, <1>2 DEF Distinct
<1> QED  BY <1>5, <1>6, <1>7, <1>8 DEF g

LEMMA MemorySaveHistory ==
  ASSUME ThreadInv, HistoryInv, NEW p \in Procs, MemorySave(p)
  PROVE  HistoryInv'
<1> SUFFICES ASSUME ~raised' PROVE EachOnce'
  BY DEF HistoryInv
<1> DEFINE n == Len(saves)  r == Saved(run[p])
<1>1. EachOnce
  BY DEF HistoryInv, MemorySave
<1>2. /\ manifest'.history = Append(manifest.history, n + 1) /\ orphans' = orphans
      /\ saves' = Append(saves, Checkpoint(run[p])) /\ run[p].pc = "item"
      /\ \A q \in Procs : run'[q] = IF q = p THEN r ELSE run[q]
  BY HistoryKnown DEF MemorySave
<1>3. r.pc \in {"off", "parent", "think"}
  BY SavedPc DEF ThreadInv, Good
<1>4. DOMAIN saves' = 1 .. n + 1 /\ saves \in Seq(Save)
  BY <1>2 DEF ThreadInv
<1>5. /\ \A k : Lists(manifest'.history, k) <=> Lists(manifest.history, k) \/ k = n + 1
      /\ Distinct(manifest'.history)
  <2>1. ~Lists(manifest.history, n + 1) /\ n + 1 \in Nat /\ n \in Nat
    BY HistoryKnown
  <2>2. Distinct(manifest.history)
    BY <1>1 DEF EachOnce
  <2>3. manifest.history \in Seq(1 .. n) /\ manifest'.history = Append(manifest.history, n + 1)
    BY <1>2, HistoryKnown
  <2> HIDE DEF n
  <2> QED  BY <2>1, <2>2, <2>3, ListedOnce
<1>6. \A q \in Procs : (Pending(q)' <=> Pending(q)) /\ (Pending(q) => run'[q] = run[q])
  <2> HIDE DEF r
  <2> QED  BY <1>2, <1>3 DEF Pending
<1>7. \A q \in Procs : run'[q].pc \notin {"fallback", "rewrite"}
  <2> HIDE DEF r
  <2> QED  BY <1>1, <1>2, <1>3 DEF EachOnce
<1>8. \A q \in Procs : Pending(q)' => ~Lists(manifest'.history, run'[q].id)
  <2>1. \A q \in Procs : Pending(q) => run[q].id # n + 1
    BY HistoryKnown
  <2> QED  BY <1>1, <1>5, <1>6, <2>1 DEF EachOnce
<1>9. \A q, w \in Procs : Pending(q)' /\ Pending(w)' /\ run'[q].id = run'[w].id => q = w
  BY <1>1, <1>6 DEF EachOnce
<1>10. \A id \in DOMAIN saves' :
        id \in orphans' \/ Lists(manifest'.history, id)
        \/ \E q \in Procs : Pending(q)' /\ run'[q].id = id
  <2>1. \A id \in DOMAIN saves' : id \in DOMAIN saves \/ id = n + 1
    BY <1>4, HistoryKnown
  <2> QED  BY <1>1, <1>2, <1>5, <1>6, <2>1 DEF EachOnce
<1> QED  BY <1>5, <1>7, <1>8, <1>9, <1>10 DEF EachOnce

LEMMA PutItemHistory ==
  ASSUME ThreadInv, HistoryInv, NEW p \in Procs, PutItem(p)
  PROVE  HistoryInv'
<1> SUFFICES ASSUME ~raised' PROVE EachOnce'
  BY DEF HistoryInv
<1> DEFINE n == Len(saves)  r == [run[p] EXCEPT !.id = n + 1, !.pc = "manifest"]
<1>1. EachOnce
  BY DEF HistoryInv, PutItem
<1>2. /\ UNCHANGED <<manifest, orphans>>
      /\ saves' = Append(saves, Checkpoint(run[p])) /\ run[p].pc = "item"
      /\ \A q \in Procs : run'[q] = IF q = p THEN r ELSE run[q]
  BY HistoryKnown DEF PutItem
<1>3. r.pc = "manifest" /\ r.id = n + 1
  BY DEF ThreadInv, Good, RunRec
<1>4. DOMAIN saves' = 1 .. n + 1
  BY <1>2 DEF ThreadInv
<1>5. \A k : Lists(manifest'.history, k) <=> Lists(manifest.history, k)
  BY <1>2 DEF Lists
<1>6. \A q \in Procs : Pending(q)' <=> Pending(q) \/ q = p
  <2> HIDE DEF r
  <2> QED  BY <1>2, <1>3 DEF Pending
<1>7. run'[p].id = n + 1 /\ ~Pending(p) /\ \A q \in Procs : q # p => run'[q] = run[q]
  <2> HIDE DEF r
  <2> QED  BY <1>2, <1>3 DEF Pending
<1>8. \A q \in Procs : run'[q].pc \notin {"fallback", "rewrite"}
  <2> HIDE DEF r
  <2> QED  BY <1>1, <1>2, <1>3 DEF EachOnce
<1>9. /\ ~Lists(manifest.history, n + 1) /\ \A q \in Procs : Pending(q) => run[q].id # n + 1
      /\ \A id \in 1 .. n + 1 : id \in DOMAIN saves \/ id = n + 1
  BY HistoryKnown
<1> HIDE DEF n, r
<1>10. \A q \in Procs : Pending(q)' => ~Lists(manifest'.history, run'[q].id)
  BY <1>1, <1>5, <1>6, <1>7, <1>9 DEF EachOnce
<1>11. \A q, w \in Procs : Pending(q)' /\ Pending(w)' /\ run'[q].id = run'[w].id => q = w
  BY <1>1, <1>6, <1>7, <1>9 DEF EachOnce
<1>12. \A id \in DOMAIN saves' :
        id \in orphans' \/ Lists(manifest'.history, id)
        \/ \E q \in Procs : Pending(q)' /\ run'[q].id = id
  BY <1>1, <1>2, <1>4, <1>5, <1>6, <1>7, <1>9 DEF EachOnce
<1>13. Distinct(manifest'.history)
  BY <1>1, <1>2 DEF EachOnce
<1> QED  BY <1>8, <1>10, <1>11, <1>12, <1>13 DEF EachOnce

LEMMA UpdateManifestHistory ==
  ASSUME ThreadInv, HistoryInv, NEW p \in Procs, UpdateManifest(p)
  PROVE  HistoryInv'
<1> SUFFICES ASSUME ~raised' PROVE EachOnce'
  BY DEF HistoryInv
<1> DEFINE n == Len(saves)  r == Saved(run[p])  d == run[p].id
<1>1. EachOnce
  BY DEF HistoryInv, UpdateManifest
<1>2. /\ manifest'.history = Append(manifest.history, d)
      /\ UNCHANGED <<saves, orphans>> /\ Pending(p)
      /\ \A q \in Procs : run'[q] = IF q = p THEN r ELSE run[q]
  BY HistoryKnown DEF UpdateManifest, Listed, Pending
<1>3. r.pc \in {"off", "parent", "think"}
  BY SavedPc DEF ThreadInv, Good
<1>4. /\ \A k : Lists(manifest'.history, k) <=> Lists(manifest.history, k) \/ k = d
      /\ Distinct(manifest'.history)
  <2>1. ~Lists(manifest.history, d) /\ d \in Nat /\ n \in Nat
    BY <1>1, <1>2, HistoryKnown DEF EachOnce
  <2>2. Distinct(manifest.history)
    BY <1>1 DEF EachOnce
  <2>3. manifest.history \in Seq(1 .. n) /\ manifest'.history = Append(manifest.history, d)
    BY <1>2, HistoryKnown
  <2> HIDE DEF n, d
  <2> QED  BY <2>1, <2>2, <2>3, ListedOnce
<1>5. \A q \in Procs : (Pending(q)' <=> Pending(q) /\ q # p) /\ (q # p => run'[q] = run[q])
  <2> HIDE DEF r
  <2> QED  BY <1>2, <1>3 DEF Pending
<1>6. \A q \in Procs : run'[q].pc \notin {"fallback", "rewrite"}
  <2> HIDE DEF r
  <2> QED  BY <1>1, <1>2, <1>3 DEF EachOnce
<1>7. \A q \in Procs : Pending(q) /\ q # p => run[q].id # d
  BY <1>1, <1>2 DEF EachOnce
<1> HIDE DEF r
<1>8. \A q \in Procs : Pending(q)' => ~Lists(manifest'.history, run'[q].id)
  BY <1>1, <1>4, <1>5, <1>7 DEF EachOnce
<1>9. \A q, w \in Procs : Pending(q)' /\ Pending(w)' /\ run'[q].id = run'[w].id => q = w
  BY <1>1, <1>5 DEF EachOnce
<1>10. \A id \in DOMAIN saves' :
        id \in orphans' \/ Lists(manifest'.history, id)
        \/ \E q \in Procs : Pending(q)' /\ run'[q].id = id
  BY <1>1, <1>2, <1>4, <1>5 DEF EachOnce
<1> QED  BY <1>4, <1>6, <1>8, <1>9, <1>10 DEF EachOnce

LEMMA AbandonHistory ==
  ASSUME ThreadInv, HistoryInv, NEW p \in Procs, Abandon(p)
  PROVE  HistoryInv'
<1> SUFFICES ASSUME ~raised' PROVE EachOnce'
  BY DEF HistoryInv
<1>1. EachOnce
  BY DEF HistoryInv, Abandon
<1>2. /\ UNCHANGED <<saves, manifest>>
      /\ \A q \in Procs : run'[q] = IF q = p THEN Off ELSE run[q]
      /\ orphans' = IF Pending(p) THEN orphans \cup {run[p].id} ELSE orphans
  BY HistoryKnown DEF Abandon, Pending
<1>3. \A q \in Procs : (Pending(q)' <=> Pending(q) /\ q # p) /\ (q # p => run'[q] = run[q])
  BY <1>2 DEF Pending, Off
<1>4. \A q \in Procs : run'[q].pc \notin {"fallback", "rewrite"}
  BY <1>1, <1>2 DEF EachOnce, Off
<1>5. \A k : Lists(manifest'.history, k) <=> Lists(manifest.history, k)
  BY <1>2 DEF Lists
<1>6. \A q \in Procs : Pending(q)' => ~Lists(manifest'.history, run'[q].id)
  BY <1>1, <1>3, <1>5 DEF EachOnce
<1>7. \A q, w \in Procs : Pending(q)' /\ Pending(w)' /\ run'[q].id = run'[w].id => q = w
  BY <1>1, <1>3 DEF EachOnce
<1>8. \A id \in DOMAIN saves' :
        id \in orphans' \/ Lists(manifest'.history, id)
        \/ \E q \in Procs : Pending(q)' /\ run'[q].id = id
  BY <1>1, <1>2, <1>3, <1>5 DEF EachOnce
<1>9. Distinct(manifest'.history)
  BY <1>1, <1>2 DEF EachOnce
<1> QED  BY <1>4, <1>6, <1>7, <1>8, <1>9 DEF EachOnce

LEMMA HistoryInvInit == ThreadInit => HistoryInv
BY DEF ThreadInit, HistoryInv, EachOnce, Pending, Off, Lists, Distinct

(* The steps that do not touch the history.                                *)
LEMMA LoadHistory ==
  ASSUME ThreadInv, HistoryInv, NEW p \in Procs, NEW id \in DOMAIN saves \cup {None}, Load(p, id)
  PROVE  HistoryInv'
<1> DEFINE r == run[p]
           o == IF id = None THEN Saving([r EXCEPT !.step = 0], 0, "think") ELSE Resumed(r, saves[id])
<1>1. r \in RunRec(Len(saves))
  BY DEF ThreadInv, Good
<1>2. o.pc \in {"parent", "think"}
  <2>1. ASSUME id = None PROVE o.pc \in {"parent", "think"}
    BY <1>1, <2>1 DEF Saving, RunRec
  <2>2. ASSUME id # None PROVE o.pc \in {"parent", "think"}
    <3>1. [r EXCEPT !.talk = saves[id].talk] \in RunRec(Len(saves))
      <4>1. saves[id] \in Save
        BY <2>2 DEF ThreadInv
      <4> QED  BY <1>1, <4>1 DEF RunRec, Save
    <3> QED  BY <2>2, <3>1, OnwardPc DEF Resumed
  <2> QED  BY <2>1, <2>2
<1>3. /\ run' = [run EXCEPT ![p] = o] /\ UNCHANGED <<saves, manifest, orphans, raised>>
      /\ run[p].pc # "manifest"
  BY DEF Load
<1> HIDE DEF o
<1> QED  BY <1>2, <1>3, HistoryStands

LEMMA StepHistory ==
  ASSUME ThreadInv, HistoryInv, NEW p \in Procs,
         \/ \E from \in DOMAIN saves \cup {None} : Start(p, from)
         \/ Answer(p)
         \/ \E n \in 1 .. MaxCalls : Ask(p, n)
         \/ CallTool(p)
         \/ \E id : ReadParent(p, id)
  PROVE  HistoryInv'
<1>1. /\ run' = [run EXCEPT ![p] = run'[p]] /\ UNCHANGED <<saves, manifest, orphans, raised>>
      /\ run[p].pc # "manifest"
  BY DEF Start, Answer, Ask, CallTool, ReadParent, Alive, ThreadInv
<1>2. run[p] \in RunRec(Len(saves)) /\ DOMAIN run = Procs
  BY DEF ThreadInv, Good
<1>3. run'[p].pc \in {"load", "parent", "tools", "item"}
  <2>1. ASSUME NEW from, Start(p, from) PROVE run'[p].pc = "load"
    BY <1>2, <2>1 DEF Start, Off
  <2>2. ASSUME Answer(p) PROVE run'[p].pc = "parent"
    BY <1>2, <2>2 DEF Answer, Saving, RunRec
  <2>3. ASSUME NEW n, Ask(p, n) PROVE run'[p].pc = "tools"
    BY <1>2, <2>3 DEF Ask, RunRec
  <2>4. ASSUME CallTool(p) PROVE run'[p].pc \in {"tools", "parent"}
    BY <1>2, <2>4 DEF CallTool, Saving, RunRec
  <2>5. ASSUME NEW id, ReadParent(p, id) PROVE run'[p].pc = "item"
    BY <1>2, <2>5 DEF ReadParent, RunRec
  <2> QED  BY <2>1, <2>2, <2>3, <2>4, <2>5
<1> QED  BY <1>1, <1>3, HistoryStands

LEMMA HistoryInvNext == ThreadInv /\ HistoryInv /\ [ThreadNext]_atvars => HistoryInv'
<1> SUFFICES ASSUME ThreadInv, HistoryInv, [ThreadNext]_atvars PROVE HistoryInv'
  OBVIOUS
<1>1. CASE UNCHANGED atvars
  BY <1>1 DEF atvars, HistoryInv, EachOnce, Pending, Lists
<1>2. ASSUME NEW p \in Procs, UpdateRaises(p) PROVE HistoryInv'
  BY <1>2 DEF UpdateRaises, HistoryInv
<1>3. ASSUME NEW p \in Procs, Rewrite(p) \/ \E m \in Manifests : Fallback(p, m) PROVE HistoryInv'
  BY <1>3 DEF Rewrite, Fallback, HistoryInv, EachOnce
<1>4. ASSUME NEW p \in Procs, GoesOn(p) PROVE HistoryInv'
  BY <1>2, <1>3, <1>4, LoadHistory, StepHistory, MemorySaveHistory, PutItemHistory,
     UpdateManifestHistory DEF GoesOn
<1> QED  BY <1>1, <1>4, StepHistory, AbandonHistory DEF ThreadNext

LEMMA HistoryInvImplies == ThreadInv /\ HistoryInv => HistoryComplete
<1> SUFFICES ASSUME ThreadInv, HistoryInv PROVE HistoryComplete
  OBVIOUS
<1>1. ThreadTypeOK
  BY ThreadInvImplies
<1>2. ASSUME ~raised, NEW id \in DOMAIN saves, Lists(manifest.history, id)
      PROVE  Cardinality({i \in DOMAIN manifest.history : manifest.history[i] = id}) = 1
  <2>1. PICK k \in DOMAIN manifest.history : manifest.history[k] = id
    BY <1>2 DEF Lists
  <2>2. {i \in DOMAIN manifest.history : manifest.history[i] = id} = {k}
    BY <1>2, <2>1 DEF HistoryInv, EachOnce, Distinct
  <2> QED  BY <2>2, FS_Singleton
<1> QED  BY <1>1, <1>2 DEF HistoryComplete, HistoryInv, EachOnce, Pending

(* Checkpointer.put lists every checkpoint it stores once in its thread's  *)
(* history, unless an update raised or the run was abandoned between the   *)
(* two writes: for any number of runs, whether or not they overlap.        *)
THEOREM HistoryListsEveryCheckpoint == ThreadSpec => []HistoryComplete
<1> QED  BY ThreadInvInit, ThreadInvNext, HistoryInvInit, HistoryInvNext, HistoryInvImplies,
            PTL DEF ThreadSpec
-----------------------------------------------------------------------------
(***************************************************************************)
(* Tools.  While nothing blurs the thread there is one run at a time; it   *)
(* has loaded the manifest's latest checkpoint, and every step after that  *)
(* checkpoint's has been started as often as it was cut, but for the one   *)
(* whose tools are running or whose save is under way.                     *)
(***************************************************************************)
LatestStep(m, s) == IF m.latest = None THEN 0 ELSE s[m.latest].step
StartedAt(r, k) == r.step = k /\ (r.pc = "tools" \/ (r.pc \in Between /\ r.then = "think"))

(* What a run says of the step l of the latest checkpoint among s.         *)
AheadOf(r, l, s) ==
  /\ r.pc = "load" => r.from = None
  /\ r.pc \in {"think", "tools"} => r.step > l
  /\ r.pc \in Between => r.label >= l
  /\ r.pc \in Between /\ r.then # "off" => r.label = r.step
  /\ r.pc \in {"manifest", "fallback", "rewrite"} => s[r.id].step = r.label

(* How often the steps were started and cut.                               *)
AllCounted(r, l, b, c) ==
  \A k \in StepNos :
    /\ b[k] <= 1 + c[k]
    /\ k > l => b[k] <= c[k] \/ StartedAt(r, k)

Follows(r) ==
  /\ AheadOf(r, LatestStep(manifest, saves), saves)
  /\ AllCounted(r, LatestStep(manifest, saves), begun, cut)
Alone(p) == \A q \in Procs : q # p => ~Alive(q)

OneAhead ==
  /\ \A p, q \in Procs : Alive(p) /\ Alive(q) => p = q
  /\ \A p \in Procs : Alone(p) => Follows(run[p])
  /\ \A k \in StepNos : begun[k] <= 1 + cut[k]

Within(r) ==
  /\ r.pc \in {"think", "tools"} => r.step <= setting.steps
  /\ r.pc \in Between => r.label <= setting.steps

InSteps ==
  /\ \A i \in DOMAIN saves : saves[i].step <= setting.steps
  /\ \A p \in Procs : Within(run[p])

ToolsInv ==
  /\ begun \in [StepNos -> Nat] /\ cut \in [StepNos -> Nat]
  /\ InSteps
  /\ ~blurred => OneAhead

(* A step of the only run.                                                 *)
LEMMA ToolsStep ==
  ASSUME ThreadInv, ToolsInv, NEW p \in Procs, NEW r, run' = [run EXCEPT ![p] = r],
         setting' = setting, Within(r), \A i \in DOMAIN saves' : saves'[i].step <= setting.steps,
         begun' \in [StepNos -> Nat], cut' \in [StepNos -> Nat],
         ~blurred' => ~blurred /\ Alone(p)
                      /\ AheadOf(r, LatestStep(manifest', saves'), saves')
                      /\ AllCounted(r, LatestStep(manifest', saves'), begun', cut')
  PROVE  ToolsInv'
<1> DEFINE l == LatestStep(manifest', saves')
<1>1. \A q \in Procs : run'[q] = IF q = p THEN r ELSE run[q]
  BY DEF ThreadInv
<1>2. InSteps'
  <2>1. \A q \in Procs : (Within(run[q]) => Within(run[q])') /\ Within(r)'
    BY DEF Within
  <2>2. \A q \in Procs :
          /\ run'[q].pc \in {"think", "tools"} => run'[q].step <= setting'.steps
          /\ run'[q].pc \in Between => run'[q].label <= setting'.steps
    BY <1>1 DEF ToolsInv, InSteps, Within
  <2> QED  BY <2>2 DEF InSteps, Within
<1>3. ASSUME ~blurred' PROVE OneAhead'
  <2>1. /\ Alone(p) /\ AheadOf(r, l, saves') /\ AllCounted(r, l, begun', cut')
    BY <1>3
  <2> HIDE DEF l
  <2>2. \A q \in Procs : q # p => run'[q].pc = "off"
    BY <1>1, <2>1 DEF Alone, Alive
  <2>3. \A q, w \in Procs : run'[q].pc # "off" /\ run'[w].pc # "off" => q = w
    BY <2>2
  <2>4. ASSUME NEW q \in Procs, \A w \in Procs : w # q => run'[w].pc = "off"
        PROVE  AheadOf(run'[q], l, saves') /\ AllCounted(run'[q], l, begun', cut')
    <3>1. CASE q = p
      BY <1>1, <2>1, <3>1
    <3>2. CASE q # p
      <4>1. run'[q].pc = "off" /\ r.pc = "off"
        BY <1>1, <2>2, <2>4, <3>2
      <4>2. \A k \in StepNos : ~StartedAt(r, k)
        BY <4>1 DEF StartedAt, Between
      <4> QED  BY <2>1, <4>1, <4>2 DEF AheadOf, AllCounted, Between
    <3> QED  BY <3>1, <3>2
  <2>5. \A k \in StepNos : begun'[k] <= 1 + cut'[k]
    BY <2>1 DEF AllCounted
  <2>6. \A q, w \in Procs : Alive(q)' /\ Alive(w)' => q = w
    BY <2>3 DEF Alive
  <2>7. ASSUME NEW q \in Procs, Alone(q)' PROVE Follows(run[q])'
    <3>1. \A w \in Procs : w # q => run'[w].pc = "off"
      BY <2>7 DEF Alone, Alive
    <3> QED  BY <2>4, <3>1 DEF Follows, l
  <2> QED  BY <2>5, <2>6, <2>7 DEF OneAhead
<1> QED  BY <1>2, <1>3 DEF ToolsInv

(* What the only run knows.                                                *)
LEMMA OnlyRun ==
  ASSUME ToolsInv, ~blurred, NEW p \in Procs, Alive(p)
  PROVE  Alone(p) /\ Follows(run[p])
BY DEF ToolsInv, OneAhead, Alone

(* The latest step is a step.                                              *)
LEMMA LatestTyped ==
  ASSUME ThreadInv, ToolsInv
  PROVE  /\ LatestStep(manifest, saves) \in 0 .. setting.steps
         /\ setting.steps \in 1 .. StepLimit
<1>1. setting.steps \in 1 .. StepLimit
  BY DEF ThreadInv, SettingOK
<1>2. manifest.latest = None \/ manifest.latest \in DOMAIN saves
  BY DEF ThreadInv, Record, Known
<1>3. \A i \in DOMAIN saves : saves[i] \in Save /\ saves[i].step <= setting.steps
  BY DEF ThreadInv, ToolsInv, InSteps
<1> QED  BY <1>1, <1>2, <1>3 DEF LatestStep, Save

(* The run goes on to a step after l.                                      *)
LEMMA OnwardAhead ==
  ASSUME setting.steps \in 1 .. StepLimit, NEW n, NEW r \in RunRec(n), NEW k \in Nat,
         NEW l \in 0 .. setting.steps, l < k, NEW s
  PROVE  /\ AheadOf(Onward(r, k), l, s) /\ Within(Onward(r, k))
         /\ \A j : ~StartedAt(Onward(r, k), j)
<1> DEFINE o == Onward(r, k)
<1>1. CASE k > setting.steps
  <2>1. o.pc = "parent" /\ o.label = setting.steps /\ o.then = "off"
    BY <1>1 DEF Onward, Saving, RunRec
  <2> HIDE DEF o
  <2>2. AheadOf(o, l, s) /\ Within(o) /\ \A j : ~StartedAt(o, j)
    BY <2>1 DEF AheadOf, Within, StartedAt
  <2> QED  BY <2>2 DEF o
<1>2. CASE ~(k > setting.steps)
  <2>1. o.pc = "think" /\ o.step = k
    BY <1>2 DEF Onward, RunRec
  <2> HIDE DEF o
  <2>2. AheadOf(o, l, s) /\ Within(o) /\ \A j : ~StartedAt(o, j)
    BY <1>2, <2>1 DEF AheadOf, Within, Between, StartedAt
  <2> QED  BY <2>2 DEF o
<1> QED  BY <1>1, <1>2

(* The run after its save: the latest checkpoint is that of its label.     *)
LEMMA SavedWithin ==
  ASSUME setting.steps \in 1 .. StepLimit, NEW n, NEW r \in RunRec(n)
  PROVE  Within(Saved(r))
<1>1. CASE r.then = "off"
  BY <1>1 DEF Saved, Within, Off, Between
<1>2. CASE r.then # "off"
  <2>1. r.step + 1 \in Nat /\ 0 \in 0 .. setting.steps /\ 0 < r.step + 1
    BY DEF RunRec, Steps
  <2> QED  BY <1>2, <2>1, OnwardAhead DEF Saved
<1> QED  BY <1>1, <1>2

LEMMA SavedAhead ==
  ASSUME setting.steps \in 1 .. StepLimit, NEW n, NEW r \in RunRec(n), r.pc \in Between,
         r.label <= setting.steps,
         NEW l \in Nat, NEW s, NEW z, NEW b \in [StepNos -> Nat], NEW c \in [StepNos -> Nat],
         AheadOf(r, l, s), AllCounted(r, l, b, c)
  PROVE  AheadOf(Saved(r), r.label, z) /\ AllCounted(Saved(r), r.label, b, c)
<1>0. r.label \in 0 .. setting.steps /\ r.step \in Nat
  BY DEF RunRec, Labels, Steps
<1>1. r.label >= l /\ (r.then # "off" => r.label = r.step)
  BY DEF AheadOf
<1>2. AheadOf(Saved(r), r.label, z)
  <2>1. CASE r.then = "off"
    BY <2>1 DEF Saved, AheadOf, Off, Between
  <2>2. CASE r.then # "off"
    <3>1. r.step + 1 \in Nat /\ r.label < r.step + 1
      BY <1>0, <1>1, <2>2
    <3> QED  BY <1>0, <2>2, <3>1, OnwardAhead DEF Saved
  <2> QED  BY <2>1, <2>2
<1>3. ASSUME NEW k \in StepNos, k > r.label PROVE b[k] <= c[k]
  <2>1. k \in Nat /\ k > r.label /\ k > l
    BY <1>0, <1>1, <1>3 DEF StepNos
  <2>2. ~StartedAt(r, k)
    BY <1>0, <1>1, <2>1 DEF StartedAt, Between
  <2> QED  BY <1>3, <2>1, <2>2 DEF AllCounted
<1> QED  BY <1>2, <1>3 DEF AllCounted

LEMMA StartTools ==
  ASSUME ThreadInv, ToolsInv, NEW p \in Procs, NEW from, Start(p, from)
  PROVE  ToolsInv'
<1> DEFINE r == [Off EXCEPT !.pc = "load", !.from = from]
<1>1. run' = [run EXCEPT ![p] = r] /\ UNCHANGED <<setting, saves, manifest, begun, cut>>
  BY DEF Start
<1>2. r.pc = "load" /\ r.from = from
  BY DEF Off
<1> HIDE DEF r
<1>3. Within(r)
  BY <1>2 DEF Within, Between
<1>4. ASSUME ~blurred' PROVE ~blurred /\ Alone(p) /\ Follows(r)
  <2>1. from = None /\ Alone(p) /\ ~blurred /\ ~Alive(p)
    BY <1>4 DEF Start, Alone
  <2>2. Follows(run[p])
    BY <2>1 DEF ToolsInv, OneAhead
  <2>3. \A k \in StepNos : ~StartedAt(run[p], k)
    BY <2>1 DEF Alive, StartedAt, Between
  <2> QED  BY <1>2, <2>1, <2>2, <2>3 DEF Follows, AheadOf, AllCounted, Between
<1> QED  BY <1>1, <1>3, <1>4, ToolsStep DEF ToolsInv, InSteps, Follows

LEMMA LoadTools ==
  ASSUME ThreadInv, ToolsInv, NEW p \in Procs, NEW id \in DOMAIN saves \cup {None}, Load(p, id)
  PROVE  ToolsInv'
<1> DEFINE r == run[p]  l == LatestStep(manifest, saves)
           a == Saving([r EXCEPT !.step = 0], 0, "think")
           b == Resumed(r, saves[id])
           o == IF id = None THEN a ELSE b
<1>1. /\ run' = [run EXCEPT ![p] = o] /\ UNCHANGED <<setting, saves, manifest, begun, cut>>
      /\ r.pc = "load"
  BY DEF Load
<1>2. r \in RunRec(Len(saves)) /\ setting.steps \in 1 .. StepLimit
  BY DEF ThreadInv, Good, SettingOK
<1>3. a.pc = "parent" /\ a.label = 0 /\ a.step = 0
  BY <1>2 DEF Saving, RunRec
<1>4. ASSUME id # None
      PROVE  /\ AheadOf(b, saves[id].step, saves) /\ Within(b)
             /\ \A j : ~StartedAt(b, j)
  <2>1. saves[id] \in Save /\ saves[id].step <= setting.steps
    BY <1>4 DEF ThreadInv, ToolsInv, InSteps
  <2>2. [r EXCEPT !.talk = saves[id].talk] \in RunRec(Len(saves))
    BY <1>2, <2>1 DEF RunRec, Save
  <2> DEFINE q == [r EXCEPT !.talk = saves[id].talk]  k == saves[id].step
  <2>3. k \in 0 .. setting.steps /\ k + 1 \in Nat /\ k < k + 1
    BY <1>2, <2>1 DEF Save
  <2>4. b = Onward(q, k + 1)
    BY DEF Resumed
  <2> HIDE DEF q, k, b
  <2>5. q \in RunRec(Len(saves))
    BY <2>2 DEF q
  <2>6. AheadOf(b, k, saves) /\ Within(b) /\ \A j : ~StartedAt(b, j)
    BY <1>2, <2>3, <2>4, <2>5, OnwardAhead
  <2> QED  BY <2>6 DEF k
<1>5. Within(o)
  <2> HIDE DEF a, b
  <2> QED  BY <1>2, <1>3, <1>4 DEF Within
<1>6. ASSUME ~blurred' PROVE ~blurred /\ Alone(p) /\ Follows(o)
  <2>1. ~blurred /\ Alone(p) /\ Follows(r)
    BY <1>1, <1>6, OnlyRun DEF Load, Alive
  <2>2. id = manifest.latest
    BY <1>1, <1>6, <2>1 DEF Load, Follows, AheadOf
  <2>3. \A k \in StepNos : k > l => begun[k] <= cut[k]
    BY <1>1, <2>1 DEF Follows, AllCounted, StartedAt, Between
  <2>4. CASE id = None
    <3>1. l = 0 /\ o = a
      BY <2>2, <2>4 DEF LatestStep
    <3> HIDE DEF a, o, l
    <3>2. AheadOf(a, l, saves)
      BY <1>3, <3>1 DEF AheadOf
    <3>3. AllCounted(a, l, begun, cut)
      BY <2>1, <2>3 DEF Follows, AllCounted
    <3> QED  BY <2>1, <3>1, <3>2, <3>3 DEF Follows, l
  <2>5. CASE id # None
    <3>1. l = saves[id].step /\ o = b
      BY <2>2, <2>5 DEF LatestStep
    <3> HIDE DEF b, o, l
    <3>2. AheadOf(b, l, saves)
      BY <1>4, <2>5, <3>1
    <3>3. AllCounted(b, l, begun, cut)
      BY <2>1, <2>3 DEF Follows, AllCounted
    <3> QED  BY <2>1, <3>1, <3>2, <3>3 DEF Follows, l
  <2> QED  BY <2>4, <2>5
<1> HIDE DEF o
<1> QED  BY <1>1, <1>5, <1>6, ToolsStep DEF ToolsInv, InSteps, Follows

(* The run talks on: its record, before any save of it.                    *)
LEMMA TalkTools ==
  ASSUME ThreadInv, ToolsInv, NEW p \in Procs,
         Answer(p) \/ (\E n \in 1 .. MaxCalls : Ask(p, n)) \/ CallTool(p)
  PROVE  /\ run' = [run EXCEPT ![p] = run'[p]] /\ UNCHANGED <<setting, saves, manifest, cut, blurred>>
         /\ run[p].pc \in {"think", "tools"} /\ run[p].step \in StepNos
         /\ run'[p].step = run[p].step
         /\ \/ run[p].pc = "think" /\ run'[p].pc = "parent" /\ run'[p].then = "off"
               /\ run'[p].label = run[p].step /\ begun' = begun
            \/ run[p].pc = "think" /\ run'[p].pc = "tools"
               /\ begun' = [begun EXCEPT ![run[p].step] = @ + 1]
            \/ run[p].pc = "tools" /\ run'[p].pc = "tools" /\ begun' = begun
            \/ run[p].pc = "tools" /\ run'[p].pc = "parent" /\ run'[p].then = "think"
               /\ run'[p].label = run[p].step /\ begun' = begun
<1>1. run[p] \in RunRec(Len(saves)) /\ DOMAIN run = Procs
  BY DEF ThreadInv, Good
<1>2. ASSUME Answer(p)
      PROVE  /\ run' = [run EXCEPT ![p] = run'[p]] /\ run[p].pc = "think" /\ run'[p].pc = "parent"
             /\ run'[p].then = "off" /\ run'[p].label = run[p].step /\ begun' = begun
             /\ run'[p].step = run[p].step /\ UNCHANGED <<setting, saves, manifest, cut, blurred>>
  BY <1>1, <1>2 DEF Answer, Saving, RunRec
<1>3. ASSUME NEW n \in 1 .. MaxCalls, Ask(p, n)
      PROVE  /\ run' = [run EXCEPT ![p] = run'[p]] /\ run[p].pc = "think" /\ run'[p].pc = "tools"
             /\ begun' = [begun EXCEPT ![run[p].step] = @ + 1]
             /\ run'[p].step = run[p].step /\ UNCHANGED <<setting, saves, manifest, cut, blurred>>
  BY <1>1, <1>3 DEF Ask, RunRec
<1>4. ASSUME CallTool(p)
      PROVE  /\ run' = [run EXCEPT ![p] = run'[p]] /\ run[p].pc = "tools" /\ begun' = begun
             /\ \/ run'[p].pc = "tools"
                \/ run'[p].pc = "parent" /\ run'[p].then = "think" /\ run'[p].label = run[p].step
             /\ run'[p].step = run[p].step /\ UNCHANGED <<setting, saves, manifest, cut, blurred>>
  BY <1>1, <1>4 DEF CallTool, Saving, RunRec
<1>5. run[p].pc \in {"think", "tools"} /\ run[p].step \in StepNos
  BY <1>2, <1>3, <1>4 DEF ThreadInv, Good
<1> QED  BY <1>2, <1>3, <1>4, <1>5

LEMMA TalkKeepsTools ==
  ASSUME ThreadInv, ToolsInv, NEW p \in Procs,
         Answer(p) \/ (\E n \in 1 .. MaxCalls : Ask(p, n)) \/ CallTool(p)
  PROVE  ToolsInv'
<1> DEFINE r == run[p]  o == run'[p]  l == LatestStep(manifest, saves)
<1>1. /\ run' = [run EXCEPT ![p] = o] /\ UNCHANGED <<setting, saves, manifest, cut, blurred>>
      /\ r.pc \in {"think", "tools"} /\ r.step \in StepNos /\ o.step = r.step
      /\ \/ r.pc = "think" /\ o.pc = "parent" /\ o.then = "off" /\ o.label = r.step /\ begun' = begun
         \/ r.pc = "think" /\ o.pc = "tools" /\ begun' = [begun EXCEPT ![r.step] = @ + 1]
         \/ r.pc = "tools" /\ o.pc = "tools" /\ begun' = begun
         \/ r.pc = "tools" /\ o.pc = "parent" /\ o.then = "think" /\ o.label = r.step
            /\ begun' = begun
  BY TalkTools
<1>2. begun \in [StepNos -> Nat] /\ cut \in [StepNos -> Nat] /\ Within(r) /\ l \in Nat
  BY LatestTyped DEF ToolsInv, InSteps
<1>3. Within(o) /\ begun' \in [StepNos -> Nat]
  <2> HIDE DEF o, r
  <2> QED  BY <1>1, <1>2 DEF Within, Between
<1>4. ASSUME ~blurred' PROVE ~blurred /\ Alone(p) /\ AheadOf(o, l, saves) /\ AllCounted(o, l, begun', cut')
  <2>1. ~blurred /\ Alone(p) /\ AheadOf(r, l, saves) /\ AllCounted(r, l, begun, cut)
    BY <1>1, <1>4, OnlyRun DEF Alive, Follows
  <2> HIDE DEF r, o, l
  <2>2. r.step > l
    BY <1>1, <2>1 DEF AheadOf
  <2>3. AheadOf(o, l, saves)
    BY <1>1, <1>2, <2>2 DEF AheadOf, Between, StepNos
  <2>4. ASSUME NEW k \in StepNos
        PROVE  begun'[k] <= 1 + cut'[k] /\ (k > l => begun'[k] <= cut'[k] \/ StartedAt(o, k))
    <3>1. begun[k] <= 1 + cut[k] /\ (k > l => begun[k] <= cut[k] \/ StartedAt(r, k))
      BY <2>1 DEF AllCounted
    <3>2. CASE r.pc = "think"
      <4>1. ~StartedAt(r, k)
        BY <3>2 DEF StartedAt, Between
      <4>2. CASE k = r.step
        <5>1. begun'[k] = begun[k] \/ (begun'[k] = begun[k] + 1 /\ o.pc = "tools" /\ o.step = k)
          BY <1>1, <1>2, <4>2
        <5> QED  BY <1>1, <1>2, <2>2, <3>1, <4>1, <4>2, <5>1 DEF StartedAt
      <4>3. CASE k # r.step
        <5>1. begun'[k] = begun[k]
          BY <1>1, <1>2, <4>3
        <5> QED  BY <1>1, <3>1, <4>1, <5>1
      <4> QED  BY <4>2, <4>3
    <3>3. CASE r.pc = "tools"
      <4>1. begun' = begun /\ (StartedAt(r, k) => StartedAt(o, k))
        BY <1>1, <3>3 DEF StartedAt, Between
      <4> QED  BY <1>1, <3>1, <4>1
    <3> QED  BY <1>1, <3>2, <3>3
  <2> QED  BY <2>1, <2>3, <2>4 DEF AllCounted
<1>5. LatestStep(manifest', saves') = l /\ \A i \in DOMAIN saves' : saves'[i].step <= setting.steps
  BY <1>1 DEF ToolsInv, InSteps
<1> HIDE DEF r, o, l
<1> QED  BY <1>1, <1>2, <1>3, <1>4, <1>5, ToolsStep

(* A save goes on: nothing that matters here is changed.                   *)
LEMMA StillAhead ==
  ASSUME NEW r, NEW o, r.pc \in Between, o.pc \in Between,
         o.then = r.then, o.label = r.label, o.step = r.step
  PROVE  /\ Within(r) => Within(o)
         /\ \A k : StartedAt(r, k) <=> StartedAt(o, k)
BY DEF Within, StartedAt, Between

LEMMA SaveStepTools ==
  ASSUME ThreadInv, ToolsInv, NEW p \in Procs, NEW o, run' = [run EXCEPT ![p] = o],
         UNCHANGED <<setting, begun, cut, blurred>>,
         run[p].pc \in Between, o.pc \in Between,
         o.then = run[p].then, o.label = run[p].label, o.step = run[p].step,
         \A i \in DOMAIN saves' : saves'[i].step <= setting.steps,
         ~blurred => \/ LatestStep(manifest', saves') = LatestStep(manifest, saves)
                     \/ LatestStep(manifest', saves') = run[p].label,
         ~blurred /\ Follows(run[p]) /\ o.pc \in {"manifest", "fallback", "rewrite"} =>
           saves'[o.id].step = o.label
  PROVE  ToolsInv'
<1> DEFINE r == run[p]  l == LatestStep(manifest, saves)  m == LatestStep(manifest', saves')
<1>1. Within(o) /\ \A k : StartedAt(r, k) <=> StartedAt(o, k)
  BY StillAhead DEF ToolsInv, InSteps
<1>2. ASSUME ~blurred PROVE Alone(p) /\ AheadOf(o, m, saves') /\ AllCounted(o, m, begun, cut)
  <2>1. Alone(p) /\ Follows(r) /\ AheadOf(r, l, saves) /\ AllCounted(r, l, begun, cut)
    BY <1>2, OnlyRun DEF Alive, Follows, Between
  <2>2. r.label >= l /\ (r.then # "off" => r.label = r.step)
    BY <2>1 DEF AheadOf
  <2>3. (m = l \/ m = r.label) /\ l \in Nat /\ r.label \in Nat
    <3>1. run[p].label \in Labels
      BY DEF ThreadInv, Good, RunRec
    <3> QED  BY <1>2, <3>1, LatestTyped DEF Labels
  <2>4. o.label >= m
    BY <2>2, <2>3
  <2>5. o.pc \in {"manifest", "fallback", "rewrite"} => saves'[o.id].step = o.label
    BY <1>2, <2>1
  <2> HIDE DEF r, l, m
  <2>6. AheadOf(o, m, saves')
    <3>1. r.then = o.then /\ r.label = o.label /\ r.step = o.step
      BY DEF r
    <3> QED  BY <2>2, <2>4, <2>5, <3>1 DEF AheadOf, Between
  <2>7. \A k \in StepNos : k > m => k > l
    BY <2>2, <2>3 DEF StepNos
  <2>8. AllCounted(o, m, begun, cut)
    BY <1>1, <2>1, <2>7 DEF AllCounted
  <2> QED  BY <2>1, <2>6, <2>8
<1> HIDE DEF m
<1>3. begun' \in [StepNos -> Nat] /\ cut' \in [StepNos -> Nat]
  BY DEF ToolsInv
<1> QED  BY <1>1, <1>2, <1>3, ToolsStep DEF m

LEMMA ReadParentTools ==
  ASSUME ThreadInv, ToolsInv, NEW p \in Procs, NEW id, ReadParent(p, id)
  PROVE  ToolsInv'
<1> DEFINE r == run[p]  o == [r EXCEPT !.parent = id, !.pc = "item"]
<1>1. /\ run' = [run EXCEPT ![p] = o] /\ r.pc = "parent" /\ r \in RunRec(Len(saves))
      /\ UNCHANGED <<setting, saves, manifest, begun, cut, blurred>>
  BY DEF ReadParent, ThreadInv, Good
<1>2. o.pc = "item" /\ o.then = r.then /\ o.label = r.label /\ o.step = r.step
  BY <1>1 DEF RunRec
<1> HIDE DEF o
<1>3. \A i \in DOMAIN saves' : saves'[i].step <= setting.steps
  BY <1>1 DEF ToolsInv, InSteps
<1> QED  BY <1>1, <1>2, <1>3, SaveStepTools DEF Between

LEMMA PutItemTools ==
  ASSUME ThreadInv, ToolsInv, NEW p \in Procs, PutItem(p)
  PROVE  ToolsInv'
<1> DEFINE n == Len(saves)  r == run[p]  o == [r EXCEPT !.id = n + 1, !.pc = "manifest"]
<1>1. /\ run' = [run EXCEPT ![p] = o] /\ r.pc = "item" /\ r \in RunRec(n)
      /\ UNCHANGED <<setting, manifest, begun, cut, blurred>>
      /\ saves' = Append(saves, Checkpoint(r))
  BY DEF PutItem, ThreadInv, Good
<1>2. o.pc = "manifest" /\ o.id = n + 1 /\ o.then = r.then /\ o.label = r.label /\ o.step = r.step
  BY <1>1 DEF RunRec
<1>3. /\ n \in Nat /\ DOMAIN saves = 1 .. n /\ DOMAIN saves' = 1 .. n + 1
      /\ \A i \in 1 .. n : saves'[i] = saves[i]
      /\ saves'[n + 1].step = r.label
  BY <1>1 DEF ThreadInv, Checkpoint
<1>4. Within(r) /\ r.label <= setting.steps
  BY <1>1 DEF ToolsInv, InSteps, Within, Between
<1>5. \A i \in DOMAIN saves' : saves'[i].step <= setting.steps
  <2>1. \A i \in 1 .. n + 1 : i \in 1 .. n \/ i = n + 1
    BY <1>3
  <2> QED  BY <1>3, <1>4, <2>1 DEF ToolsInv, InSteps
<1>6. LatestStep(manifest', saves') = LatestStep(manifest, saves)
  <2>1. manifest.latest = None \/ manifest.latest \in 1 .. n
    BY DEF ThreadInv, Record, Known
  <2> QED  BY <1>1, <1>3, <2>1 DEF LatestStep
<1> HIDE DEF o
<1> QED  BY <1>1, <1>2, <1>3, <1>5, <1>6, SaveStepTools DEF Between

LEMMA UpdateRaisesTools ==
  ASSUME ThreadInv, ToolsInv, NEW p \in Procs, UpdateRaises(p)
  PROVE  ToolsInv'
<1> DEFINE r == run[p]  o == AfterRaise(r)
<1>1. /\ run' = [run EXCEPT ![p] = o] /\ r.pc = "manifest" /\ r \in RunRec(Len(saves))
      /\ UNCHANGED <<setting, saves, begun, cut, blurred>> /\ r.id \in 1 .. Len(saves)
      /\ manifest' = manifest \/ manifest' = Listed(manifest, r.id)
  BY DEF UpdateRaises, ThreadInv, Good
<1>2. /\ o.pc = "fallback" /\ o.then = r.then /\ o.label = r.label /\ o.step = r.step
      /\ o.id = r.id
  BY <1>1 DEF RunRec, AfterRaise
<1> HIDE DEF o
<1>3. \A i \in DOMAIN saves' : saves'[i].step <= setting.steps
  BY <1>1 DEF ToolsInv, InSteps
<1>4. ASSUME Follows(r) PROVE saves[r.id].step = r.label
  BY <1>1, <1>4 DEF Follows, AheadOf
<1>5. ~blurred => Follows(r)
  BY <1>1, OnlyRun DEF Alive
<1>6. r.id # None
  BY <1>1
<1>7. Follows(r) => \/ LatestStep(manifest', saves') = LatestStep(manifest, saves)
                    \/ LatestStep(manifest', saves') = r.label
  BY <1>1, <1>4, <1>6 DEF LatestStep, Listed
<1> QED  BY <1>1, <1>2, <1>3, <1>4, <1>5, <1>7, SaveStepTools DEF Between

LEMMA FallbackTools ==
  ASSUME ThreadInv, ToolsInv, NEW p \in Procs, NEW m \in Manifests, Fallback(p, m)
  PROVE  ToolsInv'
<1> DEFINE r == run[p]  o == [r EXCEPT !.read = m, !.pc = "rewrite"]
<1>1. /\ run' = [run EXCEPT ![p] = o] /\ r.pc = "fallback" /\ r \in RunRec(Len(saves))
      /\ UNCHANGED <<setting, saves, manifest, begun, cut>> /\ (~blurred' => ~blurred)
  BY DEF Fallback, ThreadInv, Good
<1>2. /\ o.pc = "rewrite" /\ o.then = r.then /\ o.label = r.label /\ o.step = r.step
      /\ o.id = r.id
  BY <1>1 DEF RunRec
<1> HIDE DEF o
<1>3. \A i \in DOMAIN saves' : saves'[i].step <= setting.steps
  BY <1>1 DEF ToolsInv, InSteps
<1>4. Within(o) /\ \A k : StartedAt(r, k) <=> StartedAt(o, k)
  BY <1>1, <1>2, StillAhead DEF ToolsInv, InSteps, Between
<1>5. ASSUME ~blurred' PROVE ~blurred /\ Alone(p) /\ Follows(o)
  <2>1. ~blurred /\ Alone(p) /\ Follows(r)
    BY <1>1, <1>5, OnlyRun DEF Alive
  <2>2. AheadOf(o, LatestStep(manifest, saves), saves)
    <3> HIDE DEF r
    <3> QED  BY <1>1, <1>2, <2>1 DEF Follows, AheadOf, Between
  <2>3. AllCounted(o, LatestStep(manifest, saves), begun, cut)
    BY <1>4, <2>1 DEF Follows, AllCounted
  <2> QED  BY <2>1, <2>2, <2>3 DEF Follows
<1> QED  BY <1>1, <1>3, <1>4, <1>5, ToolsStep DEF ToolsInv, Follows

(* The run is saved and the manifest names its checkpoint.                 *)
LEMMA SavedTools ==
  ASSUME ThreadInv, ToolsInv, NEW p \in Procs, run[p].pc \in Between,
         NEW r \in RunRec(Len(saves)), r.pc = run[p].pc, r.then = run[p].then,
         r.label = run[p].label, r.step = run[p].step, r.id = run[p].id, r.from = run[p].from,
         run' = [run EXCEPT ![p] = Saved(r)],
         UNCHANGED <<setting, begun, cut, blurred>>,
         \A i \in DOMAIN saves' : saves'[i].step <= setting.steps,
         ~blurred /\ Follows(run[p]) => LatestStep(manifest', saves') = run[p].label
  PROVE  ToolsInv'
<1> DEFINE l == LatestStep(manifest, saves)
<1>1. setting.steps \in 1 .. StepLimit /\ l \in Nat
  BY LatestTyped
<1>2. begun \in [StepNos -> Nat] /\ cut \in [StepNos -> Nat]
  BY DEF ToolsInv
<1>3. Within(run[p]) /\ r.label <= setting.steps
  BY DEF ToolsInv, InSteps, Within
<1>4. Within(Saved(r))
  BY <1>1, SavedWithin
<1>5. ASSUME ~blurred
      PROVE  /\ Alone(p) /\ AheadOf(Saved(r), LatestStep(manifest', saves'), saves')
             /\ AllCounted(Saved(r), LatestStep(manifest', saves'), begun, cut)
  <2>1. Alone(p) /\ Follows(run[p]) /\ AheadOf(run[p], l, saves) /\ AllCounted(run[p], l, begun, cut)
    BY <1>5, OnlyRun DEF Alive, Follows, Between
  <2>2. AheadOf(r, l, saves) /\ AllCounted(r, l, begun, cut)
    <3>1. AheadOf(r, l, saves)
      BY <2>1 DEF AheadOf
    <3>2. \A k : StartedAt(run[p], k) => StartedAt(r, k)
      BY DEF StartedAt
    <3> QED  BY <2>1, <3>1, <3>2 DEF AllCounted
  <2>3. AheadOf(Saved(r), r.label, saves') /\ AllCounted(Saved(r), r.label, begun, cut)
    <3> HIDE DEF l
    <3> QED  BY <1>1, <1>2, <1>3, <2>2, SavedAhead
  <2> QED  BY <1>5, <2>1, <2>3
<1> QED  BY <1>2, <1>4, <1>5, ToolsStep

LEMMA MemorySaveTools ==
  ASSUME ThreadInv, ToolsInv, NEW p \in Procs, MemorySave(p)
  PROVE  ToolsInv'
<1> DEFINE n == Len(saves)  r == run[p]
<1>1. /\ run' = [run EXCEPT ![p] = Saved(r)] /\ r.pc = "item" /\ r \in RunRec(n)
      /\ UNCHANGED <<setting, begun, cut, blurred>>
      /\ saves' = Append(saves, Checkpoint(r)) /\ manifest'.latest = n + 1
  BY DEF MemorySave, ThreadInv, Good
<1>2. /\ n \in Nat /\ DOMAIN saves = 1 .. n /\ DOMAIN saves' = 1 .. n + 1
      /\ \A i \in 1 .. n : saves'[i] = saves[i]
      /\ saves'[n + 1].step = r.label
  BY <1>1 DEF ThreadInv, Checkpoint
<1>3. Within(r) /\ r.label <= setting.steps
  BY <1>1 DEF ToolsInv, InSteps, Within, Between
<1>4. \A i \in DOMAIN saves' : saves'[i].step <= setting.steps
  <2>1. \A i \in 1 .. n + 1 : i \in 1 .. n \/ i = n + 1
    BY <1>2
  <2> QED  BY <1>2, <1>3, <2>1 DEF ToolsInv, InSteps
<1>5. LatestStep(manifest', saves') = r.label
  BY <1>1, <1>2 DEF LatestStep
<1> QED  BY <1>1, <1>4, <1>5, SavedTools DEF Between

LEMMA UpdateManifestTools ==
  ASSUME ThreadInv, ToolsInv, NEW p \in Procs, UpdateManifest(p)
  PROVE  ToolsInv'
<1> DEFINE r == run[p]
<1>1. /\ run' = [run EXCEPT ![p] = Saved(r)] /\ r.pc = "manifest" /\ r \in RunRec(Len(saves))
      /\ UNCHANGED <<setting, saves, begun, cut, blurred>>
      /\ manifest'.latest = r.id /\ r.id \in 1 .. Len(saves)
  BY DEF UpdateManifest, ThreadInv, Good, Listed
<1>2. \A i \in DOMAIN saves' : saves'[i].step <= setting.steps
  BY <1>1 DEF ToolsInv, InSteps
<1>3. Follows(r) => LatestStep(manifest', saves') = r.label
  <2>1. r.id # None
    BY <1>1
  <2> QED  BY <1>1, <2>1 DEF Follows, AheadOf, LatestStep
<1> QED  BY <1>1, <1>2, <1>3, SavedTools DEF Between

LEMMA RewriteTools ==
  ASSUME ThreadInv, ToolsInv, NEW p \in Procs, Rewrite(p)
  PROVE  ToolsInv'
<1> DEFINE r == run[p]  o == [r EXCEPT !.read = None]
<1>1. /\ run' = [run EXCEPT ![p] = Saved(o)] /\ r.pc = "rewrite" /\ r \in RunRec(Len(saves))
      /\ UNCHANGED <<setting, saves, begun, cut, blurred>>
      /\ manifest'.latest = r.id /\ r.id \in 1 .. Len(saves)
  BY DEF Rewrite, ThreadInv, Good, Listed
<1>2. /\ o \in RunRec(Len(saves)) /\ o.pc = r.pc /\ o.then = r.then /\ o.label = r.label
      /\ o.step = r.step /\ o.id = r.id /\ o.from = r.from
  BY <1>1 DEF RunRec
<1> HIDE DEF o
<1>3. \A i \in DOMAIN saves' : saves'[i].step <= setting.steps
  BY <1>1 DEF ToolsInv, InSteps
<1>4. Follows(r) => LatestStep(manifest', saves') = r.label
  <2>1. r.id # None
    BY <1>1
  <2> QED  BY <1>1, <2>1 DEF Follows, AheadOf, LatestStep
<1> QED  BY <1>1, <1>2, <1>3, <1>4, SavedTools DEF Between

LEMMA AbandonTools ==
  ASSUME ThreadInv, ToolsInv, NEW p \in Procs, Abandon(p)
  PROVE  ToolsInv'
<1> DEFINE r == run[p]  l == LatestStep(manifest, saves)
           counts == r.pc = "tools" \/ (r.pc \in Between /\ r.then = "think" /\ r.step \in StepNos)
<1>1. /\ run' = [run EXCEPT ![p] = Off] /\ Alive(p)
      /\ UNCHANGED <<setting, saves, manifest, begun>> /\ (~blurred' => ~blurred)
      /\ cut' = IF counts THEN [cut EXCEPT ![r.step] = @ + 1] ELSE cut
      /\ r.pc = "tools" => r.step \in StepNos
  BY DEF Abandon, ThreadInv, Good
<1>2. begun \in [StepNos -> Nat] /\ cut \in [StepNos -> Nat] /\ l \in Nat
  BY LatestTyped DEF ToolsInv
<1>3. cut' \in [StepNos -> Nat] /\ Within(Off)
  BY <1>1, <1>2 DEF Within, Off, Between
<1>4. ASSUME ~blurred' PROVE ~blurred /\ Alone(p) /\ AheadOf(Off, l, saves) /\ AllCounted(Off, l, begun, cut')
  <2>1. ~blurred /\ Alone(p) /\ AllCounted(r, l, begun, cut)
    BY <1>1, <1>4, OnlyRun DEF Follows
  <2>2. AheadOf(Off, l, saves)
    BY DEF AheadOf, Off, Between
  <2> HIDE DEF r, l
  <2>3. ASSUME NEW k \in StepNos
        PROVE  begun[k] <= 1 + cut'[k] /\ (k > l => begun[k] <= cut'[k])
    <3>1. begun[k] <= 1 + cut[k] /\ (k > l => begun[k] <= cut[k] \/ StartedAt(r, k))
      BY <2>1 DEF AllCounted
    <3>2. StartedAt(r, k) => counts /\ r.step = k
      BY <2>3 DEF StartedAt
    <3>3. /\ counts /\ r.step = k => cut'[k] = cut[k] + 1
          /\ cut'[k] = cut[k] \/ cut'[k] = cut[k] + 1
      BY <1>1, <1>2
    <3> HIDE DEF counts
    <3> QED  BY <1>2, <3>1, <3>2, <3>3
  <2> QED  BY <2>1, <2>2, <2>3 DEF AllCounted
<1>5. LatestStep(manifest', saves') = l /\ \A i \in DOMAIN saves' : saves'[i].step <= setting.steps
  BY <1>1 DEF ToolsInv, InSteps
<1> HIDE DEF r, l, counts
<1> QED  BY <1>1, <1>2, <1>3, <1>4, <1>5, ToolsStep

LEMMA ToolsInvInit == ThreadInit => ToolsInv
<1> SUFFICES ASSUME ThreadInit PROVE ToolsInv
  OBVIOUS
<1>1. /\ \A p \in Procs : run[p].pc = "off"
      /\ \A k \in StepNos : begun[k] = 0 /\ cut[k] = 0
      /\ begun \in [StepNos -> Nat] /\ cut \in [StepNos -> Nat]
      /\ \A i \in DOMAIN saves : FALSE
  BY DEF ThreadInit, Off
<1>2. InSteps
  BY <1>1 DEF InSteps, Within, Between
<1>3. OneAhead
  BY <1>1 DEF OneAhead, Alive, Follows, AheadOf, AllCounted, Between
<1> QED  BY <1>1, <1>2, <1>3 DEF ToolsInv

LEMMA ToolsInvNext == ThreadInv /\ ToolsInv /\ [ThreadNext]_atvars => ToolsInv'
<1> SUFFICES ASSUME ThreadInv, ToolsInv, [ThreadNext]_atvars PROVE ToolsInv'
  OBVIOUS
<1>1. CASE UNCHANGED atvars
  <2>1. UNCHANGED <<run, begun, cut, blurred, setting, saves, manifest>>
    BY <1>1 DEF atvars
  <2>2. /\ \A p \in Procs : (Within(run[p]) => Within(run[p])') /\ (Alone(p)' => Alone(p))
        /\ \A p \in Procs : Follows(run[p]) => Follows(run[p])'
    BY <2>1 DEF Within, Alone, Alive, Follows
  <2> QED  BY <2>1, <2>2 DEF ToolsInv, InSteps, OneAhead, Alive
<1>2. ASSUME NEW p \in Procs, GoesOn(p) PROVE ToolsInv'
  BY <1>2, LoadTools, ReadParentTools, TalkKeepsTools, MemorySaveTools, PutItemTools,
     UpdateManifestTools, UpdateRaisesTools, FallbackTools, RewriteTools DEF GoesOn
<1> QED  BY <1>1, <1>2, StartTools, AbandonTools DEF ThreadNext

(* While runs of a thread follow one another, each from the latest         *)
(* checkpoint, ReActAgent starts the tools of a step once, and once more   *)
(* for each run that ended between those tools and their checkpoint.       *)
THEOREM ToolsRunOncePerStep == ThreadSpec => []ToolsRepeatOnlyAfterCuts
<1>1. ToolsInv => ToolsRepeatOnlyAfterCuts
  BY DEF ToolsInv, OneAhead, ToolsRepeatOnlyAfterCuts
<1> QED  BY <1>1, ThreadInvInit, ThreadInvNext, ToolsInvInit, ToolsInvNext, PTL DEF ThreadSpec
-----------------------------------------------------------------------------
(***************************************************************************)
(* Conversations.  Those of the runs are coherent as well, but for the     *)
(* observations that the last request is still waiting for.                *)
(***************************************************************************)
Numbered(t, step) == t.steps = [i \in 1 .. Len(t.steps) |-> i] /\ Len(t.steps) = step
Observed(m) == {i \in DOMAIN m : m[i] = Observation}
Messages == {Goal, Observation} \cup {Spoken(n) : n \in 0 .. MaxCalls}

(* Every request has its observations, but for the last `left' of them.    *)
Answered(m, left) ==
  /\ m[1] = Goal
  /\ \A i \in DOMAIN m :
       /\ \A j \in 1 .. m[i].calls : i + j \in DOMAIN m => m[i + j] = Observation
       /\ i + m[i].calls <= Len(m) + left
       /\ m[i].from = "model" /\ i + m[i].calls + 1 \in DOMAIN m =>
            m[i + m[i].calls + 1] # Observation
  /\ left > 0 => \A i \in DOMAIN m : m[i].from = "model" =>
                    i + m[i].calls < Len(m) \/ i + m[i].calls = Len(m) + left

InProgress(t, step, left) ==
  /\ Numbered(t, step) /\ Len(t.messages) >= 1
  /\ Answered(t.messages, left)
  /\ t.total = Cardinality(Observed(t.messages)) + left

Telling(r) ==
  /\ r.pc = "load" => r.talk = Opening
  /\ r.pc = "think" => InProgress(r.talk, r.step - 1, 0)
  /\ r.pc = "tools" => InProgress(r.talk, r.step - 1, r.left)
  /\ r.pc \in Between => InProgress(r.talk, r.label, 0)
  /\ r.pc \in Between /\ r.then # "off" => r.label = r.step

TalkInv ==
  /\ \A i \in DOMAIN saves : InProgress(saves[i].talk, saves[i].step, 0)
  /\ \A p \in Procs : Telling(run[p])

LEMMA MessageTyped ==
  ASSUME NEW m \in Messages
  PROVE  /\ m.calls \in 0 .. MaxCalls /\ m.from \in {"user", "model", "tool"}
         /\ m = Observation => m.from = "tool" /\ m.calls = 0
BY DEF Messages, Goal, Observation, Spoken

LEMMA MessagesTyped ==
  ASSUME NEW m \in Seq(Messages)
  PROVE  /\ Len(m) \in Nat /\ DOMAIN m = 1 .. Len(m)
         /\ \A i \in 1 .. Len(m) : m[i].calls \in Nat
         /\ \A i \in 1 .. Len(m) : m[i] = Observation => m[i].from = "tool" /\ m[i].calls = 0
<1>1. Len(m) \in Nat /\ DOMAIN m = 1 .. Len(m) /\ \A i \in 1 .. Len(m) : m[i] \in Messages
  OBVIOUS
<1> QED  BY <1>1, MessageTyped

(* The messages after one more.                                            *)
LEMMA OneMore ==
  ASSUME NEW m \in Seq(Messages), NEW x \in Messages
  PROVE  /\ Append(m, x) \in Seq(Messages) /\ Len(Append(m, x)) = Len(m) + 1
         /\ \A i \in 1 .. Len(m) : Append(m, x)[i] = m[i]
         /\ Append(m, x)[Len(m) + 1] = x
         /\ \A i \in 1 .. Len(m) + 1 : i \in 1 .. Len(m) \/ i = Len(m) + 1
OBVIOUS

(* The model speaks: its request is the one that waits.                    *)
LEMMA AskedAnswered ==
  ASSUME NEW m \in Seq(Messages), Len(m) >= 1, Answered(m, 0), NEW n \in 0 .. MaxCalls
  PROVE  Answered(Append(m, Spoken(n)), n)
<1> DEFINE g == Append(m, Spoken(n))  l == Len(m)
<1>1. Spoken(n) \in Messages /\ Spoken(n).from = "model" /\ Spoken(n).calls = n
      /\ Spoken(n) # Observation
  BY DEF Messages, Spoken, Observation
<1>2. /\ l \in Nat /\ l >= 1 /\ DOMAIN m = 1 .. l /\ DOMAIN g = 1 .. l + 1 /\ Len(g) = l + 1
      /\ \A i \in 1 .. l : g[i] = m[i] /\ m[i].calls \in Nat
      /\ g[l + 1] = Spoken(n)
      /\ \A i \in 1 .. l + 1 : i \in 1 .. l \/ i = l + 1
  BY <1>1, OneMore, MessagesTyped
<1> HIDE DEF g, l
<1>3. g[1] = Goal
  BY <1>2 DEF Answered
<1>4. ASSUME NEW i \in 1 .. l
      PROVE  /\ \A j \in 1 .. g[i].calls : i + j \in DOMAIN g => g[i + j] = Observation
             /\ i + g[i].calls <= l
             /\ g[i].from = "model" /\ i + g[i].calls + 1 \in DOMAIN g =>
                  g[i + g[i].calls + 1] # Observation
  <2> DEFINE c == m[i].calls
  <2>1. /\ g[i] = m[i] /\ c \in Nat /\ i + c <= l /\ i \in Nat
        /\ \A j \in 1 .. c : i + j \in 1 .. l => m[i + j] = Observation
        /\ m[i].from = "model" /\ i + c + 1 \in 1 .. l => m[i + c + 1] # Observation
    BY <1>2 DEF Answered, l
  <2> HIDE DEF c
  <2>2. \A j \in 1 .. c : i + j \in 1 .. l
    BY <1>2, <2>1
  <2>3. i + c + 1 \in 1 .. l \/ i + c + 1 = l + 1
    BY <1>2, <2>1
  <2>4. \A j \in 1 .. c : g[i + j] = Observation
    BY <1>2, <2>1, <2>2
  <2>5. m[i].from = "model" => g[i + c + 1] # Observation
    BY <1>1, <1>2, <2>1, <2>3
  <2> QED  BY <2>1, <2>4, <2>5 DEF c
<1>5. /\ \A j \in 1 .. n : l + 1 + j \notin DOMAIN g
      /\ l + 1 + n + 1 \notin DOMAIN g
  BY <1>2
<1>6. \A i \in DOMAIN g :
        /\ \A j \in 1 .. g[i].calls : i + j \in DOMAIN g => g[i + j] = Observation
        /\ i + g[i].calls <= Len(g) + n
        /\ g[i].from = "model" /\ i + g[i].calls + 1 \in DOMAIN g =>
             g[i + g[i].calls + 1] # Observation
  <2>1. ASSUME NEW i \in 1 .. l
        PROVE  i + g[i].calls <= Len(g) + n
    BY <1>2, <1>4, <2>1
  <2>2. /\ g[l + 1].calls = n /\ l + 1 + g[l + 1].calls <= Len(g) + n
        /\ \A j \in 1 .. g[l + 1].calls : l + 1 + j \notin DOMAIN g
        /\ l + 1 + g[l + 1].calls + 1 \notin DOMAIN g
    BY <1>1, <1>2, <1>5
  <2> QED  BY <1>2, <1>4, <2>1, <2>2
<1>7. n > 0 => \A i \in DOMAIN g : g[i].from = "model" =>
                 i + g[i].calls < Len(g) \/ i + g[i].calls = Len(g) + n
  <2>1. ASSUME NEW i \in 1 .. l
        PROVE  i + g[i].calls < Len(g)
    BY <1>2, <1>4, <2>1
  <2> QED  BY <1>1, <1>2, <2>1
<1> QED  BY <1>3, <1>6, <1>7 DEF Answered, g

(* An observation: one less to wait for.                                   *)
LEMMA ObservedAnswered ==
  ASSUME NEW m \in Seq(Messages), Len(m) >= 1, NEW k \in Nat, Answered(m, k + 1)
  PROVE  Answered(Append(m, Observation), k)
<1> DEFINE g == Append(m, Observation)  l == Len(m)
<1>1. Observation \in Messages /\ Observation.from = "tool" /\ Observation.calls = 0
  BY DEF Messages, Observation
<1>2. /\ l \in Nat /\ l >= 1 /\ DOMAIN m = 1 .. l /\ DOMAIN g = 1 .. l + 1 /\ Len(g) = l + 1
      /\ \A i \in 1 .. l : g[i] = m[i] /\ m[i].calls \in Nat
      /\ g[l + 1] = Observation
      /\ \A i \in 1 .. l + 1 : i \in 1 .. l \/ i = l + 1
  BY <1>1, OneMore, MessagesTyped
<1> HIDE DEF g, l
<1>3. g[1] = Goal
  BY <1>2 DEF Answered
<1>4. ASSUME NEW i \in 1 .. l
      PROVE  /\ \A j \in 1 .. g[i].calls : i + j \in DOMAIN g => g[i + j] = Observation
             /\ i + g[i].calls <= l + 1 + k
             /\ g[i].from = "model" /\ i + g[i].calls + 1 \in DOMAIN g =>
                  g[i + g[i].calls + 1] # Observation
             /\ g[i].from = "model" => i + g[i].calls < l \/ i + g[i].calls = l + 1 + k
  <2> DEFINE c == m[i].calls
  <2>1. /\ g[i] = m[i] /\ c \in Nat /\ i + c <= l + (k + 1) /\ i \in Nat
        /\ \A j \in 1 .. c : i + j \in 1 .. l => m[i + j] = Observation
        /\ m[i].from = "model" /\ i + c + 1 \in 1 .. l => m[i + c + 1] # Observation
        /\ m[i].from = "model" => i + c < l \/ i + c = l + (k + 1)
    BY <1>2 DEF Answered, l
  <2> HIDE DEF c
  <2>2. \A j \in 1 .. c : i + j \in 1 .. l + 1 => g[i + j] = Observation
    BY <1>2, <2>1
  <2>3. m[i].from = "model" /\ i + c + 1 \in 1 .. l + 1 => i + c + 1 \in 1 .. l
    BY <1>2, <2>1
  <2>4. m[i].from = "model" /\ i + c + 1 \in 1 .. l + 1 => g[i + c + 1] # Observation
    BY <1>2, <2>1, <2>3
  <2>5. i + c <= l + 1 + k /\ (m[i].from = "model" => i + c < l \/ i + c = l + 1 + k)
    BY <1>2, <2>1
  <2> QED  BY <1>2, <2>1, <2>2, <2>4, <2>5 DEF c
<1>5. \A i \in DOMAIN g :
        /\ \A j \in 1 .. g[i].calls : i + j \in DOMAIN g => g[i + j] = Observation
        /\ i + g[i].calls <= Len(g) + k
        /\ g[i].from = "model" /\ i + g[i].calls + 1 \in DOMAIN g =>
             g[i + g[i].calls + 1] # Observation
  <2>1. ASSUME NEW i \in 1 .. l
        PROVE  i + g[i].calls <= Len(g) + k
    BY <1>2, <1>4
  <2>2. /\ g[l + 1].calls = 0 /\ g[l + 1].from # "model" /\ l + 1 + g[l + 1].calls <= Len(g) + k
        /\ \A j \in 1 .. g[l + 1].calls : FALSE
    BY <1>1, <1>2
  <2> QED  BY <1>2, <1>4, <2>1, <2>2
<1>6. k > 0 => \A i \in DOMAIN g : g[i].from = "model" =>
                 i + g[i].calls < Len(g) \/ i + g[i].calls = Len(g) + k
  <2>1. ASSUME NEW i \in 1 .. l, g[i].from = "model"
        PROVE  i + g[i].calls < Len(g) \/ i + g[i].calls = Len(g) + k
    <3>1. m[i].calls \in Nat /\ g[i] = m[i]
      BY <1>2
    <3> QED  BY <1>2, <1>4, <2>1, <3>1
  <2> QED  BY <1>1, <1>2, <2>1
<1> QED  BY <1>3, <1>5, <1>6 DEF Answered, g

(* How many observations there are.                                        *)
LEMMA ObservedCount ==
  ASSUME NEW m \in Seq(Messages)
  PROVE  /\ Cardinality(Observed(m)) \in Nat
         /\ \A n \in 0 .. MaxCalls : Observed(Append(m, Spoken(n))) = Observed(m)
         /\ Cardinality(Observed(Append(m, Observation))) = Cardinality(Observed(m)) + 1
<1> DEFINE l == Len(m)
<1>1. IsFiniteSet(Observed(m)) /\ Cardinality(Observed(m)) \in Nat
  <2>1. Observed(m) \subseteq 1 .. l /\ 1 \in Int /\ l \in Int
    BY DEF Observed
  <2>2. IsFiniteSet(1 .. l)
    BY <2>1, FS_Interval
  <2>3. IsFiniteSet(Observed(m))
    BY <2>1, <2>2, FS_Subset
  <2> QED  BY <2>3, FS_CardinalityType
<1>2. ASSUME NEW n \in 0 .. MaxCalls PROVE Observed(Append(m, Spoken(n))) = Observed(m)
  <2>1. Spoken(n) # Observation /\ Spoken(n) \in Messages
    BY DEF Spoken, Observation, Messages
  <2> QED  BY <2>1, OneMore DEF Observed
<1>3. Observed(Append(m, Observation)) = Observed(m) \cup {l + 1} /\ l + 1 \notin Observed(m)
  <2>1. Observation \in Messages
    BY DEF Messages
  <2> QED  BY <2>1, OneMore DEF Observed
<1>4. Cardinality(Observed(m) \cup {l + 1}) = Cardinality(Observed(m)) + 1
  BY <1>1, <1>3, FS_AddElement
<1> QED  BY <1>1, <1>2, <1>3, <1>4

(* A step more, numbered.                                                  *)
LEMMA NumberedNext ==
  ASSUME NEW s \in Seq(StepNos), NEW k \in StepNos,
         s = [i \in 1 .. Len(s) |-> i], Len(s) = k - 1
  PROVE  /\ Append(s, k) = [i \in 1 .. Len(Append(s, k)) |-> i]
         /\ Len(Append(s, k)) = k
<1> DEFINE g == Append(s, k)
<1>0. k \in Nat /\ k >= 1 /\ Len(s) + 1 = k
  BY DEF StepNos
<1>1. /\ Len(g) = k /\ DOMAIN g = 1 .. k /\ g = [i \in 1 .. k |-> g[i]]
      /\ \A i \in 1 .. k - 1 : g[i] = s[i]
      /\ g[k] = k
  <2>1. g \in Seq(StepNos) /\ Len(g) = k /\ \A i \in 1 .. k - 1 : g[i] = s[i]
    BY <1>0
  <2>2. g[k] = k
    BY <1>0
  <2> HIDE DEF g
  <2>3. g \in [1 .. k -> StepNos]
    BY <2>1
  <2> QED  BY <2>1, <2>2, <2>3
<1>2. \A i \in 1 .. k : i \in 1 .. k - 1 \/ i = k
  BY <1>0
<1>3. \A i \in 1 .. k - 1 : s[i] = i
  OBVIOUS
<1>4. \A i \in 1 .. k : g[i] = i
  BY <1>1, <1>2, <1>3
<1> HIDE DEF g
<1>5. g = [i \in 1 .. k |-> i]
  BY <1>1, <1>4
<1> QED  BY <1>1, <1>5 DEF g

LEMMA NumberedGrows ==
  ASSUME NEW t, NEW u, NEW k \in StepNos, t.steps \in Seq(StepNos), Numbered(t, k - 1),
         u.steps = Append(t.steps, k)
  PROVE  Numbered(u, k)
BY NumberedNext DEF Numbered

LEMMA TalkTyped ==
  ASSUME NEW t \in Conversation
  PROVE  t.messages \in Seq(Messages) /\ t.steps \in Seq(StepNos) /\ t.total \in Nat
BY DEF Conversation, Messages

LEMMA CoherentWhenAnswered ==
  ASSUME NEW t \in Conversation, NEW k, InProgress(t, k, 0)
  PROVE  Coherent(t, k)
<1> DEFINE m == t.messages  l == Len(m)
<1>1. /\ l \in Nat /\ DOMAIN m = 1 .. l /\ \A i \in 1 .. l : m[i].calls \in Nat
      /\ Cardinality(Observed(m)) \in Nat
  BY TalkTyped, MessagesTyped, ObservedCount
<1>2. /\ m[1] = Goal
      /\ \A i \in 1 .. l :
           /\ \A j \in 1 .. m[i].calls : i + j \in 1 .. l => m[i + j] = Observation
           /\ i + m[i].calls <= l + 0
           /\ m[i].from = "model" /\ i + m[i].calls + 1 \in 1 .. l =>
                m[i + m[i].calls + 1] # Observation
  BY <1>1 DEF InProgress, Answered
<1>3. \A i \in 1 .. l : \A j \in 1 .. m[i].calls : i + j \in 1 .. l
  BY <1>1, <1>2
<1>4. t.total = Cardinality({i \in DOMAIN m : m[i] = Observation})
  BY <1>1 DEF InProgress, Observed
<1>5. t.steps = [i \in 1 .. Len(t.steps) |-> i] /\ Len(t.steps) = k
  BY DEF InProgress, Numbered
<1> QED  BY <1>1, <1>2, <1>3, <1>4, <1>5 DEF Coherent

(* The run goes on to step k with a conversation of k - 1 steps.           *)
LEMMA OnwardTelling ==
  ASSUME setting.steps \in 1 .. StepLimit, NEW n, NEW r \in RunRec(n), NEW k \in 1 .. setting.steps + 1,
         InProgress(r.talk, k - 1, 0)
  PROVE  Telling(Onward(r, k))
<1>1. CASE k > setting.steps
  <2> DEFINE o == Onward(r, k)
  <2>1. o.pc = "parent" /\ o.label = setting.steps /\ o.then = "off" /\ o.talk = r.talk
    BY <1>1 DEF Onward, Saving, RunRec
  <2>2. k - 1 = setting.steps
    BY <1>1
  <2> HIDE DEF o
  <2>3. Telling(o)
    BY <2>1, <2>2 DEF Telling
  <2> QED  BY <2>3 DEF o
<1>2. CASE ~(k > setting.steps)
  <2> DEFINE o == Onward(r, k)
  <2>1. o.pc = "think" /\ o.step = k /\ o.talk = r.talk
    BY <1>2 DEF Onward, RunRec
  <2> HIDE DEF o
  <2>2. Telling(o)
    BY <2>1 DEF Telling, Between
  <2> QED  BY <2>2 DEF o
<1> QED  BY <1>1, <1>2

LEMMA OffTelling == Telling(Off)
BY DEF Telling, Off, Between

LEMMA SavedTelling ==
  ASSUME setting.steps \in 1 .. StepLimit, NEW n, NEW r \in RunRec(n), r.pc \in Between,
         r.label <= setting.steps, Telling(r)
  PROVE  Telling(Saved(r))
<1>1. CASE r.then = "off"
  BY <1>1, OffTelling DEF Saved
<1>2. CASE r.then # "off"
  <2>1. r.label = r.step /\ InProgress(r.talk, r.label, 0) /\ r.step \in Nat
    BY <1>2 DEF Telling, RunRec, Steps
  <2> DEFINE k == r.step + 1
  <2>2. k \in 1 .. setting.steps + 1 /\ k - 1 = r.step /\ Saved(r) = Onward(r, k)
    BY <1>2, <2>1 DEF Saved
  <2> HIDE DEF k
  <2>3. InProgress(r.talk, k - 1, 0)
    BY <2>1, <2>2
  <2> QED  BY <2>2, <2>3, OnwardTelling
<1> QED  BY <1>1, <1>2

LEMMA OpeningInProgress == InProgress(Opening, 0, 0)
<1> DEFINE m == <<Goal>>
<1>1. m \in Seq(Messages) /\ Len(m) = 1 /\ DOMAIN m = 1 .. 1 /\ m[1] = Goal
  BY DEF Messages
<1>2. Goal.calls = 0 /\ Goal.from = "user" /\ Goal # Observation
  BY DEF Goal, Observation
<1>3. \A i \in 1 .. 1 : i = 1
  OBVIOUS
<1> HIDE DEF m
<1>4. Observed(m) = {}
  BY <1>1, <1>2, <1>3 DEF Observed
<1>5. Answered(m, 0)
  BY <1>1, <1>2, <1>3 DEF Answered
<1>6. Opening.messages = m /\ Opening.steps = << >> /\ Opening.total = 0
  BY DEF Opening, m
<1>7. Numbered(Opening, 0)
  <2>1. << >> = [i \in 1 .. 0 |-> i] /\ Len(<< >>) = 0
    OBVIOUS
  <2> QED  BY <1>6, <2>1 DEF Numbered
<1>8. Cardinality(Observed(m)) + 0 = 0
  BY <1>4, FS_EmptySet
<1>9. Len(Opening.messages) >= 1 /\ Answered(Opening.messages, 0)
  <2>1. Len(m) >= 1
    BY <1>1
  <2>2. Opening.messages = m
    BY <1>6
  <2> QED  BY <1>5, <2>1, <2>2, Zenon
<1>10. Opening.total = Cardinality(Observed(Opening.messages)) + 0
  BY <1>6, <1>8
<1> QED  BY <1>7, <1>9, <1>10 DEF InProgress

(* A step of a run that puts no checkpoint.                                *)
LEMMA TalkStep ==
  ASSUME ThreadInv, TalkInv, NEW p \in Procs, NEW r, run' = [run EXCEPT ![p] = r],
         saves' = saves, Telling(r)
  PROVE  TalkInv'
<1>1. \A q \in Procs : run'[q] = IF q = p THEN r ELSE run[q]
  BY DEF ThreadInv
<1>2. \A q \in Procs : Telling(run'[q])
  BY <1>1 DEF TalkInv
<1>3. \A q \in Procs : Telling(run[q])'
  BY <1>2 DEF Telling
<1> QED  BY <1>3 DEF TalkInv

LEMMA LoadTalk ==
  ASSUME ThreadInv, ToolsInv, TalkInv, NEW p \in Procs, NEW id \in DOMAIN saves \cup {None}, Load(p, id)
  PROVE  TalkInv'
<1> DEFINE r == run[p]
           a == Saving([r EXCEPT !.step = 0], 0, "think")
           b == Resumed(r, saves[id])
           o == IF id = None THEN a ELSE b
<1>1. run' = [run EXCEPT ![p] = o] /\ saves' = saves /\ r.pc = "load"
  BY DEF Load
<1>2. r \in RunRec(Len(saves)) /\ setting.steps \in 1 .. StepLimit /\ Telling(r)
  BY DEF ThreadInv, Good, SettingOK, TalkInv
<1>3. Telling(a)
  <2>1. a.pc = "parent" /\ a.label = 0 /\ a.step = 0 /\ a.talk = Opening
    BY <1>1, <1>2 DEF Saving, RunRec, Telling
  <2> HIDE DEF a
  <2> QED  BY <2>1, OpeningInProgress DEF Telling
<1>4. ASSUME id # None PROVE Telling(b)
  <2> DEFINE q == [r EXCEPT !.talk = saves[id].talk]  k == saves[id].step
  <2>1. saves[id] \in Save /\ k <= setting.steps /\ InProgress(saves[id].talk, k, 0)
    BY <1>4 DEF ThreadInv, ToolsInv, InSteps, TalkInv
  <2>2. q \in RunRec(Len(saves)) /\ q.talk = saves[id].talk
    BY <1>2, <2>1 DEF RunRec, Save
  <2> DEFINE j == k + 1
  <2>3. j \in 1 .. setting.steps + 1 /\ j - 1 = k
    BY <1>2, <2>1 DEF Save
  <2>4. b = Onward(q, j)
    BY DEF Resumed
  <2>5. InProgress(saves[id].talk, j - 1, 0)
    BY <2>1, <2>3
  <2> HIDE DEF q, k, b, j
  <2>6. Telling(Onward(q, j))
    BY <1>2, <2>2, <2>3, <2>5, OnwardTelling
  <2> QED  BY <2>4, <2>6
<1>5. Telling(o)
  BY <1>3, <1>4
<1> HIDE DEF o
<1> QED  BY <1>1, <1>5, TalkStep

LEMMA AnswerTalk ==
  ASSUME ThreadInv, TalkInv, NEW p \in Procs, Answer(p)
  PROVE  TalkInv'
<1> DEFINE r == run[p]  t == r.talk  o == run'[p]
           u == [t EXCEPT !.messages = Append(@, Spoken(0)), !.steps = Append(@, r.step)]
<1>1. /\ r \in RunRec(Len(saves)) /\ r.pc = "think" /\ r.step \in StepNos /\ Telling(r)
      /\ t \in Conversation
  BY DEF Answer, ThreadInv, Good, TalkInv, RunRec
<1>2. /\ run' = [run EXCEPT ![p] = o] /\ saves' = saves
      /\ o.pc = "parent" /\ o.label = r.step /\ o.then = "off" /\ o.talk = u
  BY <1>1 DEF Answer, ThreadInv, Saving, RunRec
<1>3. InProgress(t, r.step - 1, 0) /\ t.messages \in Seq(Messages) /\ t.steps \in Seq(StepNos)
  BY <1>1, TalkTyped DEF Telling
<1>4. /\ u.messages = Append(t.messages, Spoken(0)) /\ u.steps = Append(t.steps, r.step)
      /\ u.total = t.total
  BY <1>1 DEF Conversation
<1> HIDE DEF o, u, r, t
<1>5. 0 \in 0 .. MaxCalls /\ Spoken(0) \in Messages
  BY DEF Messages
<1>6. Answered(u.messages, 0) /\ Len(u.messages) >= 1
  BY <1>3, <1>4, <1>5, AskedAnswered, OneMore DEF InProgress
<1>7. u.total = Cardinality(Observed(u.messages)) + 0
  BY <1>3, <1>4, <1>5, ObservedCount DEF InProgress
<1>8. Numbered(u, r.step)
  BY <1>1, <1>3, <1>4, NumberedGrows DEF InProgress
<1>9. InProgress(u, r.step, 0)
  BY <1>6, <1>7, <1>8 DEF InProgress
<1>10. Telling(o)
  BY <1>2, <1>9 DEF Telling
<1> QED  BY <1>2, <1>10, TalkStep

LEMMA AskTalk ==
  ASSUME ThreadInv, TalkInv, NEW p \in Procs, NEW n \in 1 .. MaxCalls, Ask(p, n)
  PROVE  TalkInv'
<1> DEFINE r == run[p]  t == r.talk  o == run'[p]
           u == [t EXCEPT !.messages = Append(@, Spoken(n)), !.total = @ + n]
<1>1. /\ r \in RunRec(Len(saves)) /\ r.pc = "think" /\ r.step \in StepNos /\ Telling(r)
      /\ t \in Conversation
  BY DEF Ask, ThreadInv, Good, TalkInv, RunRec
<1>2. /\ run' = [run EXCEPT ![p] = o] /\ saves' = saves
      /\ o.pc = "tools" /\ o.step = r.step /\ o.left = n /\ o.talk = u
  BY <1>1 DEF Ask, ThreadInv, RunRec
<1>3. InProgress(t, r.step - 1, 0) /\ t.messages \in Seq(Messages) /\ t.total \in Nat
  BY <1>1, TalkTyped DEF Telling
<1>4. /\ u.messages = Append(t.messages, Spoken(n)) /\ u.steps = t.steps
      /\ u.total = t.total + n
  BY <1>1 DEF Conversation
<1> HIDE DEF o, u, r, t
<1>5. n \in 0 .. MaxCalls /\ Spoken(n) \in Messages
  BY DEF Messages
<1>6. Answered(u.messages, n) /\ Len(u.messages) >= 1
  BY <1>3, <1>4, <1>5, AskedAnswered, OneMore DEF InProgress
<1>7. u.total = Cardinality(Observed(u.messages)) + n
  BY <1>3, <1>4, <1>5, ObservedCount DEF InProgress
<1>8. InProgress(u, r.step - 1, n)
  BY <1>3, <1>4, <1>6, <1>7 DEF InProgress, Numbered
<1>9. Telling(o)
  BY <1>2, <1>8 DEF Telling, Between
<1> QED  BY <1>2, <1>9, TalkStep

LEMMA CallToolTalk ==
  ASSUME ThreadInv, TalkInv, NEW p \in Procs, CallTool(p)
  PROVE  TalkInv'
<1> DEFINE r == run[p]  t == r.talk  o == run'[p]  k == r.left - 1
<1>1. /\ r \in RunRec(Len(saves)) /\ r.pc = "tools" /\ r.step \in StepNos /\ Telling(r)
      /\ t \in Conversation /\ k \in Nat /\ r.left = k + 1
  BY DEF CallTool, ThreadInv, Good, TalkInv, RunRec, Lefts
<1>2. /\ run' = [run EXCEPT ![p] = o] /\ saves' = saves
      /\ o.talk.messages = Append(t.messages, Observation) /\ o.talk.total = t.total
      /\ o.step = r.step
      /\ \/ o.pc = "tools" /\ o.left = k /\ o.talk.steps = t.steps
         \/ /\ o.pc = "parent" /\ o.then = "think" /\ o.label = r.step /\ k = 0
            /\ o.talk.steps = Append(t.steps, r.step)
  <2> DEFINE said == [r EXCEPT !.talk.messages = Append(@, Observation), !.left = @ - 1]
  <2>1. /\ said.talk.messages = Append(t.messages, Observation) /\ said.talk.total = t.total
        /\ said.talk.steps = t.steps /\ said.talk \in [messages: {said.talk.messages},
             steps: {t.steps}, total: {t.total}]
        /\ said.step = r.step /\ said.left = k /\ said.pc = "tools" /\ said.then = r.then
        /\ said \in [pc: {r.pc}, from: {r.from}, talk: {said.talk}, step: {r.step}, left: {k},
             then: {r.then}, label: {r.label}, parent: {r.parent}, id: {r.id}, read: {r.read}]
    BY <1>1 DEF RunRec, Conversation
  <2>2. /\ run' = [run EXCEPT ![p] = o] /\ saves' = saves
        /\ o = IF r.left > 1 THEN said
                ELSE Saving([said EXCEPT !.talk.steps = Append(@, r.step)], r.step, "think")
    BY DEF CallTool, ThreadInv
  <2>3. r.left > 1 \/ k = 0
    BY <1>1
  <2> HIDE DEF said, o, t, k, r
  <2>4. CASE r.left > 1
    BY <2>1, <2>2, <2>4
  <2>5. CASE ~(r.left > 1)
    BY <2>1, <2>2, <2>3, <2>5 DEF Saving
  <2> QED  BY <2>4, <2>5
<1>3. /\ InProgress(t, r.step - 1, k + 1) /\ t.messages \in Seq(Messages)
      /\ t.steps \in Seq(StepNos) /\ t.total \in Nat
  BY <1>1, TalkTyped DEF Telling
<1> HIDE DEF o, r, t, k
<1>4. Observation \in Messages
  BY DEF Messages
<1>5. Answered(o.talk.messages, k) /\ Len(o.talk.messages) >= 1
  BY <1>1, <1>2, <1>3, <1>4, ObservedAnswered, OneMore DEF InProgress
<1>6. o.talk.total = Cardinality(Observed(o.talk.messages)) + k
  <2>1. /\ t.total = Cardinality(Observed(t.messages)) + (k + 1)
        /\ Cardinality(Observed(t.messages)) \in Nat
        /\ Cardinality(Observed(Append(t.messages, Observation)))
             = Cardinality(Observed(t.messages)) + 1
    BY <1>3, ObservedCount DEF InProgress
  <2> QED  BY <1>1, <1>2, <2>1
<1>7. Telling(o)
  <2>1. CASE o.pc = "tools"
    <3>1. InProgress(o.talk, r.step - 1, k)
      BY <1>2, <1>3, <1>5, <1>6, <2>1 DEF InProgress, Numbered
    <3> QED  BY <1>2, <2>1, <3>1 DEF Telling, Between
  <2>2. CASE o.pc = "parent"
    <3>1. Numbered(o.talk, r.step)
      BY <1>1, <1>2, <1>3, <2>2, NumberedGrows DEF InProgress
    <3>2. InProgress(o.talk, r.step, 0)
      BY <1>2, <1>5, <1>6, <2>2, <3>1 DEF InProgress
    <3> QED  BY <1>2, <2>2, <3>2 DEF Telling
  <2> QED  BY <1>2, <2>1, <2>2
<1> QED  BY <1>2, <1>7, TalkStep

(* A save goes on with the conversation it has.                            *)
LEMMA SaveStepTalk ==
  ASSUME ThreadInv, TalkInv, NEW p \in Procs,
         \/ \E id : ReadParent(p, id)
         \/ UpdateRaises(p)
         \/ \E m \in Manifests : Fallback(p, m)
  PROVE  TalkInv'
<1> DEFINE r == run[p]  o == run'[p]
<1>1. r \in RunRec(Len(saves)) /\ Telling(r) /\ DOMAIN run = Procs
  BY DEF ThreadInv, Good, TalkInv
<1>2. /\ run' = [run EXCEPT ![p] = o] /\ saves' = saves
      /\ r.pc \in {"parent", "manifest", "fallback"} /\ o.pc \in {"item", "fallback", "rewrite"}
      /\ o.talk = r.talk /\ o.label = r.label /\ o.then = r.then /\ o.step = r.step
  <2>1. ASSUME NEW id, ReadParent(p, id) PROVE <1>2!:
    BY <1>1, <2>1 DEF ReadParent, RunRec
  <2>2. ASSUME UpdateRaises(p) PROVE <1>2!:
    BY <1>1, <2>2 DEF UpdateRaises, AfterRaise, RunRec
  <2>3. ASSUME NEW m, Fallback(p, m) PROVE <1>2!:
    BY <1>1, <2>3 DEF Fallback, RunRec
  <2> QED  BY <2>1, <2>2, <2>3
<1> HIDE DEF r, o
<1>3. Telling(o)
  BY <1>1, <1>2 DEF Telling, Between
<1> QED  BY <1>2, <1>3, TalkStep

LEMMA PutTalk ==
  ASSUME ThreadInv, ToolsInv, TalkInv, NEW p \in Procs, PutItem(p) \/ MemorySave(p)
  PROVE  TalkInv'
<1> DEFINE n == Len(saves)  r == run[p]  o == run'[p]
<1>1. /\ r \in RunRec(n) /\ Telling(r) /\ DOMAIN run = Procs /\ r.pc = "item"
      /\ setting.steps \in 1 .. StepLimit /\ r.label <= setting.steps
  BY DEF ThreadInv, Good, TalkInv, SettingOK, ToolsInv, InSteps, Within, Between, PutItem, MemorySave
<1>2. /\ run' = [run EXCEPT ![p] = o] /\ saves' = Append(saves, Checkpoint(r))
  BY <1>1 DEF PutItem, MemorySave
<1>3. Telling(o)
  <2>1. CASE PutItem(p)
    <3>1. o.pc = "manifest" /\ o.talk = r.talk /\ o.label = r.label /\ o.then = r.then /\ o.step = r.step
      BY <1>1, <2>1 DEF PutItem, RunRec
    <3> HIDE DEF r, o
    <3> QED  BY <1>1, <3>1 DEF Telling, Between
  <2>2. CASE MemorySave(p)
    <3>1. o = Saved(r)
      BY <1>1, <2>2 DEF MemorySave
    <3> HIDE DEF o
    <3> QED  BY <1>1, <3>1, SavedTelling DEF Between
  <2> QED  BY <2>1, <2>2
<1>4. \A i \in DOMAIN saves' : InProgress(saves'[i].talk, saves'[i].step, 0)
  <2>1. /\ n \in Nat /\ DOMAIN saves = 1 .. n /\ DOMAIN saves' = 1 .. n + 1
        /\ \A i \in 1 .. n : saves'[i] = saves[i]
        /\ saves'[n + 1].step = r.label /\ saves'[n + 1].talk = r.talk
        /\ \A i \in 1 .. n + 1 : i \in 1 .. n \/ i = n + 1
    BY <1>2 DEF ThreadInv, Checkpoint
  <2>2. InProgress(r.talk, r.label, 0)
    BY <1>1 DEF Telling, Between
  <2> QED  BY <2>1, <2>2 DEF TalkInv
<1>5. \A q \in Procs : run'[q] = IF q = p THEN o ELSE run[q]
  BY <1>1, <1>2
<1>6. \A q \in Procs : Telling(run'[q])
  BY <1>3, <1>5 DEF TalkInv
<1>7. \A q \in Procs : Telling(run[q])'
  BY <1>6 DEF Telling
<1>8. \A i \in DOMAIN saves' : InProgress(saves[i].talk, saves[i].step, 0)'
  BY <1>4 DEF InProgress, Numbered
<1> QED  BY <1>7, <1>8 DEF TalkInv

LEMMA SavedTalk ==
  ASSUME ThreadInv, ToolsInv, TalkInv, NEW p \in Procs, UpdateManifest(p) \/ Rewrite(p)
  PROVE  TalkInv'
<1> DEFINE r == run[p]
           o == IF UpdateManifest(p) THEN r ELSE [r EXCEPT !.read = None]
<1>1. /\ r \in RunRec(Len(saves)) /\ Telling(r) /\ r.pc \in {"manifest", "rewrite"}
      /\ setting.steps \in 1 .. StepLimit /\ r.label <= setting.steps
  BY DEF ThreadInv, Good, TalkInv, SettingOK, ToolsInv, InSteps, Within, Between, UpdateManifest, Rewrite
<1>2. /\ o \in RunRec(Len(saves)) /\ o.pc = r.pc /\ o.then = r.then /\ o.label = r.label
      /\ o.step = r.step /\ o.talk = r.talk
  BY <1>1 DEF RunRec
<1>3. run' = [run EXCEPT ![p] = Saved(o)] /\ saves' = saves
  BY DEF UpdateManifest, Rewrite
<1> HIDE DEF o, r
<1>4. Telling(o)
  BY <1>1, <1>2 DEF Telling, Between
<1>5. Telling(Saved(o))
  BY <1>1, <1>2, <1>4, SavedTelling DEF Between
<1> QED  BY <1>3, <1>5, TalkStep

LEMMA StartOrEndTalk ==
  ASSUME ThreadInv, TalkInv, NEW p \in Procs, (\E from : Start(p, from)) \/ Abandon(p)
  PROVE  TalkInv'
<1>1. ASSUME NEW from, Start(p, from) PROVE TalkInv'
  <2> DEFINE r == [Off EXCEPT !.pc = "load", !.from = from]
  <2>1. r.pc = "load" /\ r.talk = Opening
    BY DEF Off
  <2>2. run' = [run EXCEPT ![p] = r] /\ saves' = saves
    BY <1>1 DEF Start
  <2> HIDE DEF r
  <2>3. Telling(r)
    BY <2>1 DEF Telling, Between
  <2> QED  BY <2>2, <2>3, TalkStep
<1>2. ASSUME Abandon(p) PROVE TalkInv'
  BY <1>2, OffTelling, TalkStep DEF Abandon
<1> QED  BY <1>1, <1>2

LEMMA TalkInvInit == ThreadInit => TalkInv
BY OffTelling DEF ThreadInit, TalkInv

LEMMA TalkInvNext == ThreadInv /\ ToolsInv /\ TalkInv /\ [ThreadNext]_atvars => TalkInv'
<1> SUFFICES ASSUME ThreadInv, ToolsInv, TalkInv, [ThreadNext]_atvars PROVE TalkInv'
  OBVIOUS
<1>1. CASE UNCHANGED atvars
  BY <1>1 DEF atvars, TalkInv, Telling, InProgress, Numbered
<1>2. ASSUME NEW p \in Procs, GoesOn(p) PROVE TalkInv'
  BY <1>2, LoadTalk, AnswerTalk, AskTalk, CallToolTalk, SaveStepTalk, PutTalk, SavedTalk DEF GoesOn
<1> QED  BY <1>1, <1>2, StartOrEndTalk DEF ThreadNext

LEMMA TalkInvImplies == ThreadInv /\ TalkInv => SavesCoherent
<1> SUFFICES ASSUME ThreadInv, TalkInv, NEW i \in DOMAIN saves
             PROVE  Coherent(saves[i].talk, saves[i].step)
  BY DEF SavesCoherent
<1>1. saves[i] \in Save /\ InProgress(saves[i].talk, saves[i].step, 0)
  BY DEF ThreadInv, TalkInv
<1> QED  BY <1>1, CoherentWhenAnswered DEF Save

(* Every checkpoint holds a conversation that a run can go on with: each   *)
(* request of the model with the observations it asked for, the steps and  *)
(* tool calls counted right, whatever was cut, raced or resumed.           *)
THEOREM CheckpointsContinue == ThreadSpec => []SavesCoherent
<1> QED  BY ThreadInvInit, ThreadInvNext, ToolsInvInit, ToolsInvNext, TalkInvInit, TalkInvNext,
            TalkInvImplies, PTL DEF ThreadSpec

HIDE ThreadAssumption

-----------------------------------------------------------------------------
(***************************************************************************)
(* A resumed pipeline neither repeats recorded work nor passes over a      *)
(* failure, for pipelines of any size and shape, any attempts and any      *)
(* number of passes.                                                       *)
(*                                                                         *)
(* Both follow from what a pass knows of the nodes it has not reached:     *)
(* their records are those the pass began with.  What it has passed is     *)
(* settled: it is not given another status, so that what an error edge     *)
(* asked for when its target was reached is what it asks for at the end.   *)
(***************************************************************************)

USE NodeGraphAssumption

Statuses == {"none", "succeeded", "failed"}
RunState == [status: [PNodes -> Statuses], outputs: SUBSET PNodes,
             used: [PNodes -> SUBSET PNodes], failedNode: PNodes \cup {NoNode}, completed: BOOLEAN]

Typed ==
  /\ pipe \in Pipelines
  /\ cp \in RunState /\ before \in RunState
  /\ saved # NoNode => saved \in RunState
  /\ at \in 1 .. pipe.size + 1
  /\ tries \in Nat
  /\ tries > 0 => at \in PNodes /\ ~Skips(at) /\ tries < pipe.attempts[at]
  /\ handling \in [PNodes -> PNodes \cup {NoNode}]

(* What the pass has not reached is as it was when the pass began.         *)
AheadUntouched ==
  mode = "running" =>
    \A n \in PNodes : n >= at =>
      cp.status[n] = before.status[n] /\ (n \in cp.outputs <=> n \in before.outputs)

(* FailuresHandled of the nodes the pass has gone past.                    *)
Handled(e) ==
  cp.status[e[1]] = "failed" /\ e[1] < e[2] =>
    \/ Recorded(before, e[2])
    \/ pipe.attempts[e[2]] = 0
    \/ e[2] \in ran /\ handling[e[2]] # NoNode

BehindHandled ==
  /\ mode = "running" => \A e \in pipe.err : e[2] < at => Handled(e)
  /\ mode = "ended" => \A e \in pipe.err : Handled(e)

PassInv == Typed /\ AheadUntouched /\ RecordedWorkKept /\ BehindHandled

(* The pipeline is one the assumption speaks of.                           *)
LEMMA PipeFacts ==
  ASSUME Typed
  PROVE  /\ pipe.size \in Nat \ {0} /\ PNodes = 1 .. pipe.size
         /\ pipe.err \subseteq PNodes \X PNodes /\ pipe.std \subseteq PNodes \X PNodes
         /\ pipe.attempts \in [PNodes -> Nat]
         /\ \A n \in PNodes : n \in Nat /\ n # NoNode
BY DEF Typed, PipelineOK, PNodes

LEMMA InitInv == NodeGraphInit => PassInv
<1> SUFFICES ASSUME NodeGraphInit PROVE PassInv
  OBVIOUS
<1>1. pipe \in Pipelines /\ pipe.size \in Nat \ {0} /\ PNodes = 1 .. pipe.size
  BY DEF NodeGraphInit, PipelineOK, PNodes
<1>2. Fresh(pipe.size) \in RunState
  BY <1>1 DEF Fresh, RunState, Statuses
<1>3. Typed
  BY <1>1, <1>2 DEF NodeGraphInit, Typed
<1> QED  BY <1>3 DEF NodeGraphInit, PassInv, AheadUntouched, RecordedWorkKept, BehindHandled

(* A pass begins with nothing executed and nothing passed.                 *)
LEMMA BeginKeeps ==
  ASSUME PassInv, NEW c \in RunState, Begin(c)
  PROVE  PassInv'
<1>1. /\ pipe.size \in Nat \ {0} /\ PNodes' = PNodes /\ PNodes = 1 .. pipe.size
      /\ pipe.err \subseteq PNodes \X PNodes
      /\ \A n \in PNodes : n \in Nat /\ n # NoNode
  BY PipeFacts DEF PassInv, Begin, PNodes
<1>2. RunState' = RunState
  BY <1>1 DEF RunState
<1>3. Typed'
  BY <1>1, <1>2 DEF PassInv, Typed, Begin
<1>4. AheadUntouched'
  BY DEF Begin, AheadUntouched
<1>5. RecordedWorkKept'
  BY DEF Begin, RecordedWorkKept
<1>6. BehindHandled'
  BY <1>1 DEF Begin, BehindHandled
<1> QED  BY <1>3, <1>4, <1>5, <1>6 DEF PassInv

LEMMA RunKeeps ==
  ASSUME PassInv, Run
  PROVE  PassInv'
<1>1. Fresh(pipe.size) \in RunState
  BY PipeFacts DEF PassInv, Fresh, RunState, Statuses
<1> QED  BY <1>1, BeginKeeps DEF Run

LEMMA ResumeKeeps ==
  ASSUME PassInv, NEW c \in {cp, saved}, Resume(c)
  PROVE  PassInv'
<1>1. c \in RunState
  BY DEF PassInv, Typed, Resume
<1>2. [c EXCEPT !.failedNode = NoNode] \in RunState
  BY <1>1 DEF RunState
<1> QED  BY <1>2, BeginKeeps DEF Resume

LEMMA KeepKeeps ==
  ASSUME PassInv, Keep
  PROVE  PassInv'
<1>1. PNodes' = PNodes /\ RunState' = RunState
  BY DEF Keep, PNodes, RunState
<1>2. Skips(at)' <=> Skips(at)
  BY DEF Keep, Skips, Recorded
<1> QED  BY <1>1, <1>2 DEF Keep, PassInv, Typed, AheadUntouched, RecordedWorkKept, BehindHandled, Handled, Recorded

(* A node that is skipped was recorded when the pass began.                *)
LEMMA SkipKeeps ==
  ASSUME PassInv, Skip
  PROVE  PassInv'
<1>1. PNodes' = PNodes /\ RunState' = RunState
  BY DEF Skip, PNodes, RunState
<1>2. /\ pipe.size \in Nat \ {0} /\ PNodes = 1 .. pipe.size
      /\ pipe.err \subseteq PNodes \X PNodes
  BY PipeFacts DEF PassInv
<1>3. Recorded(before, at)
  <2>1. at \in PNodes /\ at >= at /\ mode = "running" /\ Recorded(cp, at)
    BY <1>2 DEF Skip, Skips
  <2> QED  BY <2>1 DEF PassInv, AheadUntouched, Recorded
<1>4. Typed'
  <2>1. tries = 0
    BY DEF Skip, PassInv, Typed
  <2> QED  BY <1>1, <1>2, <2>1 DEF Skip, PassInv, Typed
<1>5. AheadUntouched'
  BY <1>1, <1>2 DEF Skip, PassInv, AheadUntouched
<1>6. RecordedWorkKept'
  BY DEF Skip, PassInv, RecordedWorkKept, Recorded
<1>7. BehindHandled'
  <2> SUFFICES ASSUME NEW e \in pipe.err, e[2] < at + 1 PROVE Handled(e)'
    BY DEF Skip, BehindHandled
  <2>1. e[1] \in Nat /\ e[2] \in Nat /\ at \in Nat
    BY <1>2 DEF Skip
  <2>2. CASE e[2] < at
    BY <2>2 DEF Skip, PassInv, BehindHandled, Handled, Recorded
  <2>3. CASE e[2] = at
    BY <1>3, <2>3 DEF Skip, Handled, Recorded
  <2> QED  BY <1>2, <2>1, <2>2, <2>3
<1> QED  BY <1>4, <1>5, <1>6, <1>7 DEF PassInv

(* An attempt is made of a node the pass began without a record of, and    *)
(* it is given the error of a failed node if an error edge leads here.     *)
LEMMA AttemptIsNew ==
  ASSUME PassInv, Executing, Entered
  PROVE  /\ UNCHANGED before => RecordedWorkKept'
         /\ at \in ran'
         /\ handling' \in [PNodes -> PNodes \cup {NoNode}]
         /\ FailedSources(at) # {} => handling'[at] # NoNode
         /\ \A n \in PNodes : n # at => handling'[n] = handling[n]
         /\ ran \subseteq ran'
<1>1. ~Recorded(before, at)
  <2>1. at \in PNodes /\ at >= at /\ mode = "running" /\ ~Recorded(cp, at)
    BY PipeFacts DEF Executing, Skips, PassInv
  <2> QED  BY <2>1 DEF PassInv, AheadUntouched, Recorded
<1>2. FailedSources(at) \subseteq PNodes /\ \A n \in PNodes : n # NoNode
  BY PipeFacts DEF FailedSources, PassInv
<1>3. UNCHANGED before => RecordedWorkKept'
  BY <1>1 DEF Entered, RecordedWorkKept, PassInv, Recorded
<1>4. handling \in [PNodes -> PNodes \cup {NoNode}] /\ at \in PNodes
  BY DEF PassInv, Typed, Executing
<1>5. CASE FailedSources(at) = {} /\ UNCHANGED handling
  BY <1>3, <1>4, <1>5 DEF Entered, PassInv
<1>6. CASE \E s \in FailedSources(at) : handling' = [handling EXCEPT ![at] = s]
  BY <1>2, <1>3, <1>4, <1>6 DEF Entered, PassInv
<1> QED  BY <1>5, <1>6 DEF Entered

LEMMA RetryKeeps ==
  ASSUME PassInv, Retry
  PROVE  PassInv'
<1>1. PNodes' = PNodes /\ RunState' = RunState
  BY DEF Retry, PNodes, RunState
<1>2. /\ pipe.size \in Nat \ {0} /\ PNodes = 1 .. pipe.size
      /\ pipe.err \subseteq PNodes \X PNodes
      /\ pipe.attempts \in [PNodes -> Nat]
  BY PipeFacts DEF PassInv
<1>3. /\ RecordedWorkKept' /\ at \in ran' /\ ran \subseteq ran'
      /\ handling' \in [PNodes -> PNodes \cup {NoNode}]
      /\ \A n \in PNodes : n # at => handling'[n] = handling[n]
  BY AttemptIsNew DEF Retry
<1>4. Typed'
  <2>1. tries + 1 \in Nat /\ tries + 1 < pipe.attempts[at] /\ at \in PNodes /\ Skips(at)' = Skips(at) /\ ~Skips(at)
    BY DEF PassInv, Typed, Retry, Executing, Skips, Recorded
  <2> QED  BY <1>1, <1>3, <2>1 DEF PassInv, Typed, Retry
<1>5. AheadUntouched'
  BY <1>1 DEF PassInv, AheadUntouched, Retry
<1>6. BehindHandled'
  <2>1. mode = "running" /\ mode' = "running"
    BY DEF Retry, Executing
  <2> SUFFICES ASSUME NEW e \in pipe.err, e[2] < at PROVE Handled(e)'
    BY <2>1 DEF Retry, BehindHandled
  <2>2. e[2] \in PNodes /\ e[2] # at
    BY <1>2 DEF Retry, Executing
  <2>3. Handled(e)
    BY <2>1 DEF PassInv, BehindHandled
  <2> QED  BY <1>3, <2>2, <2>3 DEF Retry, Handled, Recorded
<1> QED  BY <1>3, <1>4, <1>5, <1>6 DEF PassInv

(* The record of one node changes and the pass goes on behind it.          *)
LEMMA PastNode ==
  ASSUME PassInv, Executing,
         UNCHANGED <<pipe, before>>, at' = at + 1, mode' = "running",
         ran \subseteq ran',
         \A n \in PNodes : n # at =>
           /\ cp'.status[n] = cp.status[n] /\ (n \in cp'.outputs <=> n \in cp.outputs)
           /\ handling'[n] = handling[n],
         pipe.attempts[at] = 0 \/ (FailedSources(at) # {} => at \in ran' /\ handling'[at] # NoNode)
  PROVE  AheadUntouched' /\ BehindHandled'
<1>1. /\ pipe.size \in Nat \ {0} /\ PNodes = 1 .. pipe.size /\ PNodes' = PNodes
      /\ pipe.err \subseteq PNodes \X PNodes
      /\ at \in PNodes /\ at \in Nat /\ mode = "running"
  BY PipeFacts DEF PassInv, Executing, PNodes
<1>2. AheadUntouched'
  BY <1>1 DEF PassInv, AheadUntouched
<1>3. BehindHandled'
  <2> SUFFICES ASSUME NEW e \in pipe.err, e[2] < at + 1 PROVE Handled(e)'
    BY DEF BehindHandled
  <2>1. e[1] \in PNodes /\ e[2] \in PNodes /\ e[1] \in Nat /\ e[2] \in Nat
    BY <1>1
  <2>2. CASE e[2] < at
    <3>1. Handled(e)
      BY <1>1, <2>2 DEF PassInv, BehindHandled
    <3>2. e[1] < e[2] => e[1] # at
      BY <1>1, <2>1, <2>2
    <3>3. e[2] # at
      BY <1>1, <2>1, <2>2
    <3> QED  BY <2>1, <3>1, <3>2, <3>3 DEF Handled, Recorded
  <2>3. CASE e[2] = at
    <3> SUFFICES ASSUME cp'.status[e[1]] = "failed", e[1] < e[2], pipe.attempts[at] # 0
                 PROVE  at \in ran' /\ handling'[at] # NoNode
      BY <2>3 DEF Handled
    <3>1. cp.status[e[1]] = "failed"
      BY <1>1, <2>1, <2>3
    <3>2. e[1] \in FailedSources(at)
      BY <2>3, <3>1 DEF FailedSources
    <3> QED  BY <3>2
  <2> QED  BY <1>1, <2>1, <2>2, <2>3
<1> QED  BY <1>2, <1>3

LEMMA SucceedKeeps ==
  ASSUME PassInv, NEW returns \in BOOLEAN, Succeed(returns)
  PROVE  PassInv'
<1>1. PNodes' = PNodes /\ RunState' = RunState
  BY DEF Succeed, PNodes, RunState
<1>2. /\ pipe.size \in Nat \ {0} /\ PNodes = 1 .. pipe.size /\ at \in PNodes /\ mode = "running"
  BY PipeFacts DEF PassInv, Succeed, Executing
<1>3. /\ RecordedWorkKept' /\ at \in ran' /\ ran \subseteq ran'
      /\ handling' \in [PNodes -> PNodes \cup {NoNode}]
      /\ FailedSources(at) # {} => handling'[at] # NoNode
      /\ \A n \in PNodes : n # at => handling'[n] = handling[n]
  BY AttemptIsNew DEF Succeed
<1>4. cp \in RunState
  BY DEF PassInv, Typed
<1>5. cp' \in RunState
  <2>1. Given(at) \in SUBSET PNodes
    BY <1>4 DEF Given, RunState
  <2>2. (IF returns THEN cp.outputs \cup {at} ELSE cp.outputs) \in SUBSET PNodes
    BY <1>2, <1>4 DEF RunState
  <2> QED  BY <1>2, <1>4, <2>1, <2>2 DEF Succeed, RunState, Statuses
<1>6. Typed'
  BY <1>1, <1>2, <1>3, <1>5 DEF PassInv, Typed, Succeed
<1>7. \A n \in PNodes : n # at =>
        cp'.status[n] = cp.status[n] /\ (n \in cp'.outputs <=> n \in cp.outputs)
  BY <1>2, <1>4 DEF Succeed, RunState
<1>8. AheadUntouched' /\ BehindHandled'
  BY <1>2, <1>3, <1>7, PastNode DEF Succeed
<1> QED  BY <1>3, <1>6, <1>8 DEF PassInv

LEMMA FailKeeps ==
  ASSUME PassInv, FailNode
  PROVE  PassInv'
<1>1. PNodes' = PNodes /\ RunState' = RunState
  BY DEF FailNode, PNodes, RunState
<1>2. /\ pipe.size \in Nat \ {0} /\ PNodes = 1 .. pipe.size /\ at \in PNodes /\ mode = "running"
      /\ Executing
  BY PipeFacts DEF PassInv, FailNode, Executing
<1>3. /\ RecordedWorkKept' /\ ran \subseteq ran'
      /\ handling' \in [PNodes -> PNodes \cup {NoNode}]
      /\ \A n \in PNodes : n # at => handling'[n] = handling[n]
      /\ pipe.attempts[at] = 0 \/ (FailedSources(at) # {} => at \in ran' /\ handling'[at] # NoNode)
  <2>1. CASE pipe.attempts[at] = 0
    BY <2>1 DEF FailNode, PassInv, Typed, RecordedWorkKept, Recorded
  <2>2. CASE pipe.attempts[at] # 0
    BY <1>2, <2>2, AttemptIsNew DEF FailNode
  <2> QED  BY <2>1, <2>2
<1>4. cp \in RunState
  BY DEF PassInv, Typed
<1>5. cp' \in RunState
  <2>1. (IF ErrorTargets(at) = {} THEN FALSE ELSE cp.completed) \in BOOLEAN
    BY <1>4 DEF RunState
  <2> QED  BY <1>2, <1>4, <2>1 DEF FailNode, RunState, Statuses
<1>6. Typed'
  BY <1>1, <1>2, <1>3, <1>5 DEF PassInv, Typed, FailNode
<1>7. \A n \in PNodes : n # at =>
        cp'.status[n] = cp.status[n] /\ (n \in cp'.outputs <=> n \in cp.outputs)
  BY <1>2, <1>4 DEF FailNode, RunState
<1>8. AheadUntouched' /\ BehindHandled'
  <2>1. CASE ErrorTargets(at) = {}
    BY <2>1 DEF FailNode, AheadUntouched, BehindHandled
  <2>2. CASE ErrorTargets(at) # {}
    BY <1>2, <1>3, <1>7, <2>2, PastNode DEF FailNode
  <2> QED  BY <2>1, <2>2
<1> QED  BY <1>3, <1>6, <1>8 DEF PassInv

(* At the end every node has been passed.                                  *)
LEMMA CompleteKeeps ==
  ASSUME PassInv, Complete
  PROVE  PassInv'
<1>1. PNodes' = PNodes /\ RunState' = RunState
  BY DEF Complete, PNodes, RunState
<1>2. /\ pipe.size \in Nat \ {0} /\ PNodes = 1 .. pipe.size
      /\ pipe.err \subseteq PNodes \X PNodes
  BY PipeFacts DEF PassInv
<1>3. cp \in RunState
  BY DEF PassInv, Typed
<1>4. cp' \in RunState /\ cp'.status = cp.status
  BY <1>3 DEF Complete, RunState
<1>5. Typed'
  <2>1. tries = 0
    BY <1>2 DEF PassInv, Typed, Complete
  <2> QED  BY <1>1, <1>4, <2>1 DEF PassInv, Typed, Complete
<1>6. BehindHandled'
  <2> SUFFICES ASSUME NEW e \in pipe.err PROVE Handled(e)'
    BY DEF Complete, BehindHandled
  <2>1. e[2] < at
    BY <1>2 DEF Complete
  <2>2. Handled(e)
    BY <2>1 DEF PassInv, BehindHandled, Complete
  <2> QED  BY <1>4, <2>2 DEF Complete, Handled, Recorded
<1> QED  BY <1>5, <1>6 DEF PassInv, Complete, AheadUntouched, RecordedWorkKept, Recorded

LEMMA StutterKeeps ==
  ASSUME PassInv, UNCHANGED ngvars
  PROVE  PassInv'
<1>1. PNodes' = PNodes /\ RunState' = RunState
  BY DEF ngvars, PNodes, RunState
<1>2. Skips(at)' <=> Skips(at)
  BY DEF ngvars, Skips, Recorded
<1> QED  BY <1>1, <1>2 DEF ngvars, PassInv, Typed, AheadUntouched, RecordedWorkKept, BehindHandled, Handled, Recorded

LEMMA PassInductive == PassInv /\ [NodeGraphNext]_ngvars => PassInv'
<1> SUFFICES ASSUME PassInv, [NodeGraphNext]_ngvars PROVE PassInv'
  OBVIOUS
<1>1. CASE Run  BY <1>1, RunKeeps
<1>2. CASE \E c \in {cp, saved} : Resume(c)  BY <1>2, ResumeKeeps
<1>3. CASE Keep  BY <1>3, KeepKeeps
<1>4. CASE Skip  BY <1>4, SkipKeeps
<1>5. CASE \E returns \in BOOLEAN : Succeed(returns)  BY <1>5, SucceedKeeps
<1>6. CASE Retry  BY <1>6, RetryKeeps
<1>7. CASE FailNode  BY <1>7, FailKeeps
<1>8. CASE Complete  BY <1>8, CompleteKeeps
<1>9. CASE UNCHANGED ngvars  BY <1>9, StutterKeeps
<1> QED  BY <1>1, <1>2, <1>3, <1>4, <1>5, <1>6, <1>7, <1>8, <1>9 DEF NodeGraphNext, Proceed

LEMMA PassInvHolds == NodeGraphSpec => []PassInv
<1> QED  BY InitInv, PassInductive, PTL DEF NodeGraphSpec

(* Work that a checkpoint records as done is not done again by a resume,   *)
(* whatever fails and however often the pipeline is resumed.               *)
THEOREM ResumesRepeatNothing == NodeGraphSpec => []RecordedWorkKept
<1>1. PassInv => RecordedWorkKept
  BY DEF PassInv
<1> QED  BY <1>1, PassInvHolds, PTL

(* A pass that got past a failure gave the error to every later node that  *)
(* an error edge leads to, unless that node was recorded before or is      *)
(* allowed no attempt; and the run's state stays typed.                    *)
THEOREM NoFailureIsSilent == NodeGraphSpec => []FailuresHandled
<1>1. PassInv => FailuresHandled
  <2> SUFFICES ASSUME PassInv PROVE FailuresHandled
    OBVIOUS
  <2>1. NodeGraphTypeOK
    BY DEF PassInv, Typed, RunState, Statuses, NodeGraphTypeOK
  <2> QED  BY <2>1 DEF PassInv, BehindHandled, Handled, FailuresHandled
<1> QED  BY <1>1, PassInvHolds, PTL

-----------------------------------------------------------------------------
(***************************************************************************)
(* Agent graphs, third part of what is proved of the runtimes: for any     *)
(* graphs, nodes, conditions, updates, iterations and steps.               *)
(***************************************************************************)
HIDE ThreadAssumption

EdgeRec == [source: Nat, target: Nat, when: {Always, Broken} \cup (Keys \X Values)]

(* What is assumed of a graph. *)
LEMMA GraphFacts ==
  ASSUME NEW g \in Graphs
  PROVE  /\ IsFiniteSet(g.nodes) /\ Cardinality(g.nodes) \in Nat /\ g.nodes = 1 .. Cardinality(g.nodes)
         /\ g.nodes \subseteq Nat
         /\ g.edges \in Seq(EdgeRec) /\ DOMAIN g.edges = 1 .. Len(g.edges) /\ IsFiniteSet(DOMAIN g.edges)
         /\ \A i \in DOMAIN g.edges : g.edges[i] \in EdgeRec
         /\ \A n \in g.nodes : g.does[n] \subseteq Outcome
<1>1. GraphOK(g)
  BY AgentGraphAssumption
<1>2. IsFiniteSet(g.nodes) /\ g.nodes = 1 .. Cardinality(g.nodes) /\ g.edges \in Seq(EdgeRec)
      /\ \A n \in g.nodes : g.does[n] \subseteq Outcome
  BY <1>1 DEF GraphOK, EdgeRec
<1>3. Cardinality(g.nodes) \in Nat
  BY <1>2, FS_CardinalityType
<1>4. g.nodes \subseteq Nat
  <2>1. \A c \in Nat : 1 .. c \subseteq Nat
    OBVIOUS
  <2> QED  BY <1>2, <1>3, <2>1
<1>5. DOMAIN g.edges = 1 .. Len(g.edges) /\ IsFiniteSet(DOMAIN g.edges)
      /\ \A i \in DOMAIN g.edges : g.edges[i] \in EdgeRec
  BY <1>2, Positions
<1> QED  BY <1>2, <1>3, <1>4, <1>5

(* In a graph without loose ends edges join nodes. *)
LEMMA EdgesJoin ==
  ASSUME NEW g \in Graphs, ~Dangles(g)
  PROVE  /\ g.entry \in g.nodes
         /\ \A i \in DOMAIN g.edges : g.edges[i].source \in g.nodes /\ g.edges[i].target \in g.nodes
         /\ Targets(g) \in Seq(g.nodes) /\ DOMAIN Targets(g) = DOMAIN g.edges
         /\ \A i \in DOMAIN g.edges : Targets(g)[i] = g.edges[i].target
<1>1. g.entry \in g.nodes
      /\ \A i \in DOMAIN g.edges : g.edges[i].source \in g.nodes /\ g.edges[i].target \in g.nodes
  BY DEF Dangles
<1>2. DOMAIN g.edges = 1 .. Len(g.edges) /\ Len(g.edges) \in Nat
  BY GraphFacts, Positions
<1>3. Targets(g) = [i \in 1 .. Len(g.edges) |-> g.edges[i].target]
  BY <1>2 DEF Targets
<1>4. Targets(g) \in Seq(g.nodes)
  <2> DEFINE n == Len(g.edges)
             t(i) == g.edges[i].target
  <2>1. n \in Nat /\ \A i \in 1 .. n : t(i) \in g.nodes
    BY <1>1, <1>2
  <2>2. Targets(g) = [i \in 1 .. n |-> t(i)]
    BY <1>3
  <2> HIDE DEF n, t
  <2> QED  BY <2>1, <2>2
<1> QED  BY <1>1, <1>2, <1>3, <1>4

(* Nodes are queued that do not wait, once each. *)
LEMMA QueueKeeps ==
  ASSUME NEW X, NEW queue \in Seq(X), NEW ts \in Seq(X), NEW S \in SUBSET DOMAIN ts
  PROVE  /\ Queue(queue, ts, S) \in Seq(X)
         /\ ToSet(Queue(queue, ts, S)) = ToSet(queue) \cup {ts[i] : i \in S}
         /\ Distinct(queue) => Distinct(Queue(queue, ts, S))
<1> DEFINE J == {i \in S : ts[i] \notin ToSet(queue) /\ \A j \in S : ts[j] = ts[i] => i <= j}
           new == Picked(ts, J)
           pos == Increasing(J)
           n == Cardinality(J)
           m == Len(queue)
           out == Queue(queue, ts, S)
<1>0. DOMAIN ts \subseteq Nat /\ DOMAIN queue = 1 .. m /\ m \in Nat
  BY Positions
<1>1. J \in SUBSET DOMAIN ts
  OBVIOUS
<1>2. out = queue \o new
  BY DEF Queue
<1>3. /\ Numbers(pos, n, J) /\ new \in Seq(X) /\ Len(new) = n
      /\ \A k \in 1 .. n : new[k] = ts[pos[k]]
  BY <1>1, PickedFrom
<1>3a. n \in Nat /\ (\A k \in 1 .. n : pos[k] \in J) /\ (\A j, k \in 1 .. n : pos[j] = pos[k] => j = k)
       /\ \A x \in J : \E k \in 1 .. n : pos[k] = x
  BY <1>3 DEF Numbers
<1>4. \A i \in S : ts[i] \notin ToSet(queue) => \E j \in J : ts[j] = ts[i]
  <2> SUFFICES ASSUME NEW i \in S, ts[i] \notin ToSet(queue)  PROVE \E j \in J : ts[j] = ts[i]
    OBVIOUS
  <2> DEFINE T == {j \in S : ts[j] = ts[i]}
  <2>1. T \in SUBSET Nat /\ T # {}
    BY <1>0
  <2>2. PICK j \in T : \A l \in T : j <= l
    BY <2>1, LeastNumber
  <2>3. j \in J
    BY <2>2
  <2> QED  BY <2>2, <2>3
<1>5. \A i \in J : ts[i] \notin ToSet(queue) /\ \A j \in J : ts[j] = ts[i] => i = j
  <2> SUFFICES ASSUME NEW i \in J, NEW j \in J, ts[j] = ts[i]  PROVE i = j
    OBVIOUS
  <2>1. i <= j /\ j <= i /\ i \in Nat /\ j \in Nat
    BY <1>0
  <2> QED  BY <2>1
<1> HIDE DEF J, new, pos, n
<1>6. /\ out \in Seq(X) /\ DOMAIN out = 1 .. m + n
      /\ \A k \in 1 .. m + n : out[k] = IF k <= m THEN queue[k] ELSE new[k - m]
  <2>1. queue \in Seq(X) /\ new \in Seq(X) /\ Len(queue) = m /\ Len(new) = n
    BY <1>3
  <2>2. out \in Seq(X) /\ Len(out) = m + n
    BY <1>2, <2>1, ConcatProperties
  <2>3. \A k \in 1 .. m + n : out[k] = IF k <= m THEN queue[k] ELSE new[k - m]
    BY <1>2, <2>1, ConcatProperties
  <2> QED  BY <2>2, <2>3, Positions
<1>6c. \A k \in 1 .. m + n : ~(k <= m) => out[k] = new[k - m]
  BY <1>6
<1> HIDE DEF out, m
<1>6a. (\A k \in 1 .. m : k \in 1 .. m + n /\ k <= m) /\ (\A k \in 1 .. n : k + m \in 1 .. m + n /\ ~(k + m <= m) /\ k + m - m = k)
       /\ \A k \in 1 .. m + n : k <= m => k \in 1 .. m
  BY <1>0, <1>3a
<1>6b. \A k \in 1 .. m + n : ~(k <= m) => k - m \in 1 .. n
  BY <1>0, <1>3a
<1>7. \A k \in 1 .. n : out[k + m] = ts[pos[k]] /\ pos[k] \in J
  <2> SUFFICES ASSUME NEW k \in 1 .. n  PROVE out[k + m] = ts[pos[k]] /\ pos[k] \in J
    OBVIOUS
  <2>1. pos[k] \in J
    BY <1>3a
  <2>2. k + m \in 1 .. m + n /\ ~(k + m <= m) /\ k + m - m = k
    BY <1>6a
  <2>3. out[k + m] = new[k + m - m]
    BY <1>0, <1>3a, <1>6c, <2>2
  <2> QED  BY <1>3, <2>1, <2>2, <2>3
<1>8. ToSet(out) = ToSet(queue) \cup {ts[i] : i \in S}
  <2>1. ASSUME NEW k \in 1 .. m + n  PROVE out[k] \in ToSet(queue) \cup {ts[i] : i \in S}
    <3>1. CASE k <= m
      BY <1>0, <1>6, <1>6a, <3>1 DEF ToSet
    <3>2. CASE ~(k <= m)
      <4>1. k - m \in 1 .. n
        BY <1>6b, <3>2
      <4>2. out[k] = new[k - m] /\ new[k - m] = ts[pos[k - m]] /\ pos[k - m] \in S
        <5>1. pos[k - m] \in J
          BY <1>3a, <4>1
        <5> QED  BY <1>3, <1>6, <3>2, <4>1, <5>1 DEF J
      <4> QED  BY <4>2
    <3> QED  BY <3>1, <3>2
  <2>2. ASSUME NEW k \in 1 .. m  PROVE queue[k] \in ToSet(out)
    <3>1. out[k] = queue[k] /\ k \in DOMAIN out
      BY <1>6, <1>6a
    <3> QED  BY <3>1 DEF ToSet
  <2>3. ASSUME NEW i \in J  PROVE ts[i] \in ToSet(out)
    <3>1. PICK k \in 1 .. n : pos[k] = i
      BY <1>3a
    <3>2. out[k + m] = ts[i] /\ k + m \in DOMAIN out
      BY <1>6, <1>6a, <1>7, <3>1
    <3> QED  BY <3>2 DEF ToSet
  <2>4. ToSet(queue) \subseteq ToSet(out)
    BY <1>0, <2>2 DEF ToSet
  <2>5. {ts[i] : i \in S} \subseteq ToSet(out)
    BY <1>4, <2>3, <2>4
  <2>6. ToSet(out) \subseteq ToSet(queue) \cup {ts[i] : i \in S}
    BY <1>6, <2>1 DEF ToSet
  <2> QED  BY <2>4, <2>5, <2>6
<1>9. ASSUME Distinct(queue)  PROVE Distinct(out)
  <2>1. \A i, j \in 1 .. m : queue[i] = queue[j] => i = j
    BY <1>0, <1>9 DEF Distinct
  <2>2. \A k \in 1 .. m, l \in 1 .. n : queue[k] # new[l]
    <3> SUFFICES ASSUME NEW k \in 1 .. m, NEW l \in 1 .. n  PROVE queue[k] # new[l]
      OBVIOUS
    <3>1. queue[k] \in ToSet(queue)
      BY <1>0 DEF ToSet
    <3>2. new[l] \notin ToSet(queue)
      BY <1>3, <1>3a, <1>5
    <3> QED  BY <3>1, <3>2
  <2>3. \A k, l \in 1 .. n : new[k] = new[l] => k = l
    <3> SUFFICES ASSUME NEW k \in 1 .. n, NEW l \in 1 .. n, new[k] = new[l]  PROVE k = l
      OBVIOUS
    <3>1. pos[k] \in J /\ pos[l] \in J /\ ts[pos[k]] = ts[pos[l]]
      BY <1>3, <1>3a
    <3>2. pos[k] = pos[l]
      BY <1>5, <3>1
    <3> QED  BY <1>3a, <3>2
  <2>4. ASSUME NEW k \in 1 .. m + n, NEW l \in 1 .. m + n, out[k] = out[l]  PROVE k = l
    <3>1. CASE k <= m /\ l <= m
      BY <1>6, <1>6a, <2>1, <2>4, <3>1
    <3>2. CASE k <= m /\ ~(l <= m)
      <4>1. out[k] = queue[k] /\ out[l] = new[l - m] /\ k \in 1 .. m /\ l - m \in 1 .. n
        BY <1>6, <1>6a, <1>6b, <3>2
      <4> QED  BY <2>2, <2>4, <4>1
    <3>3. CASE ~(k <= m) /\ l <= m
      <4>1. out[l] = queue[l] /\ out[k] = new[k - m] /\ l \in 1 .. m /\ k - m \in 1 .. n
        BY <1>6, <1>6a, <1>6b, <3>3
      <4> QED  BY <2>2, <2>4, <4>1
    <3>4. CASE ~(k <= m) /\ ~(l <= m)
      <4>1. out[l] = new[l - m] /\ out[k] = new[k - m] /\ l - m \in 1 .. n /\ k - m \in 1 .. n
        BY <1>6, <1>6b, <3>4
      <4>2. k - m = l - m
        BY <2>3, <2>4, <4>1
      <4> QED  BY <1>0, <1>3a, <4>2
    <3> QED  BY <3>1, <3>2, <3>3, <3>4
  <2> QED  BY <1>6, <2>4 DEF Distinct
<1> QED  BY <1>6, <1>8, <1>9 DEF out

LoopState(g) == [state: GState, queue: Seq(g.nodes), arrived: [g.nodes -> Nat],
                 failed: BOOLEAN, raised: BOOLEAN]
LoopStates(g) == {a \in LoopState(g) : Distinct(a.queue)}

LEMMA AfterTyped ==
  ASSUME NEW s \in GState, NEW n \in Nat, NEW o \in Outcome
  PROVE  /\ After(s, n, o) \in GState
         /\ \A k \in Keys : After(s, n, o).plain[k] = IF o.sets[k] = Absent THEN s.plain[k] ELSE o.sets[k]
<1>1. s.plain \in Update /\ s.log \in Seq(Nat) /\ o.sets \in Update
  BY DEF GState, Outcome
<1> DEFINE u == [plain |-> o.sets, log |-> IF o.logs THEN <<n>> ELSE <<>>]
<1>2. u.plain = o.sets /\ u.log \in Seq(Nat)
  OBVIOUS
<1>3. After(s, n, o) = Merge(s, u)
  BY DEF After
<1> HIDE DEF u
<1>4. s.log \o u.log \in Seq(Nat)
  BY <1>1, <1>2
<1>5. After(s, n, o) = [plain |-> [k \in Keys |-> IF o.sets[k] = Absent THEN s.plain[k] ELSE o.sets[k]],
                        log |-> s.log \o u.log]
  BY <1>2, <1>3 DEF Merge
<1>6. [k \in Keys |-> IF o.sets[k] = Absent THEN s.plain[k] ELSE o.sets[k]] \in Update
  BY <1>1 DEF Update
<1> QED  BY <1>4, <1>5, <1>6 DEF GState

LEMMA MergeTyped ==
  ASSUME NEW s \in GState, NEW u \in GState
  PROVE  /\ Merge(s, u) \in GState
         /\ \A k \in Keys : Merge(s, u).plain[k] = IF u.plain[k] = Absent THEN s.plain[k] ELSE u.plain[k]
<1>1. s.plain \in Update /\ s.log \in Seq(Nat) /\ u.plain \in Update /\ u.log \in Seq(Nat)
  BY DEF GState
<1>2. s.log \o u.log \in Seq(Nat)
  BY <1>1
<1>3. [k \in Keys |-> IF u.plain[k] = Absent THEN s.plain[k] ELSE u.plain[k]] \in Update
  BY <1>1 DEF Update
<1>4. Merge(s, u) = [plain |-> [k \in Keys |-> IF u.plain[k] = Absent THEN s.plain[k] ELSE u.plain[k]],
                     log |-> s.log \o u.log]
  BY DEF Merge
<1> QED  BY <1>2, <1>3, <1>4 DEF GState

(* What following a node's edges does to what the loop has in hand.        *)
LEMMA DispatchTyped ==
  ASSUME NEW g \in Graphs, ~Dangles(g), NEW a \in LoopStates(g), NEW n, NEW s
  PROVE  LET A == Active(g, n, s)
             O == Opened(g, a.arrived, A)
             b == Dispatch(g, a, n, s)
         IN /\ b \in LoopStates(g)
            /\ b.state = a.state /\ b.failed = a.failed
            /\ (\E i \in Out(g, n) : g.edges[i].when = Broken) => b.raised
            /\ ~(\E i \in Out(g, n) : g.edges[i].when = Broken) =>
                 /\ b.raised = a.raised
                 /\ ToSet(b.queue) = ToSet(a.queue) \cup {g.edges[i].target : i \in O}
                 /\ \A t \in Barriers(g) \cap g.nodes :
                      b.arrived[t] = a.arrived[t] + Cardinality(Into(g, A, t))
<1> DEFINE A == Active(g, n, s)
           O == Opened(g, a.arrived, A)
           b == Dispatch(g, a, n, s)
           broken == \E i \in Out(g, n) : g.edges[i].when = Broken
           q == Queue(a.queue, Targets(g), O)
           came == [t \in g.nodes |->
                      IF t \in Barriers(g) THEN a.arrived[t] + Cardinality(Into(g, A, t)) ELSE a.arrived[t]]
<1>1. a \in LoopState(g) /\ Distinct(a.queue)
  BY DEF LoopStates
<1>2. a.queue \in Seq(g.nodes) /\ a.arrived \in [g.nodes -> Nat] /\ a.raised \in BOOLEAN
  BY <1>1 DEF LoopState
<1>3. A \subseteq DOMAIN g.edges /\ O \subseteq A
  BY DEF Active, Out, Opened
<1>4. /\ Targets(g) \in Seq(g.nodes) /\ DOMAIN Targets(g) = DOMAIN g.edges
      /\ \A i \in DOMAIN g.edges : Targets(g)[i] = g.edges[i].target
  BY EdgesJoin
<1>5. /\ q \in Seq(g.nodes) /\ Distinct(q)
      /\ ToSet(q) = ToSet(a.queue) \cup {g.edges[i].target : i \in O}
  <2>0. O \in SUBSET DOMAIN Targets(g)
    BY <1>3, <1>4
  <2>1. /\ q \in Seq(g.nodes) /\ Distinct(q)
        /\ ToSet(q) = ToSet(a.queue) \cup {Targets(g)[i] : i \in O}
    <3> HIDE DEF O
    <3> QED  BY <1>1, <1>2, <1>4, <2>0, QueueKeeps
  <2>2. {Targets(g)[i] : i \in O} = {g.edges[i].target : i \in O}
    BY <1>3, <1>4
  <2> QED  BY <2>1, <2>2
<1>6. \A t \in g.nodes : Cardinality(Into(g, A, t)) \in Nat
  <2> SUFFICES ASSUME NEW t \in g.nodes  PROVE Cardinality(Into(g, A, t)) \in Nat
    OBVIOUS
  <2>1. Into(g, A, t) \in SUBSET DOMAIN g.edges
    BY <1>3 DEF Into
  <2> QED  BY <2>1, GraphFacts, FS_Subset, FS_CardinalityType
<1>7. came \in [g.nodes -> Nat]
  BY <1>2, <1>6
<1>8. broken => b = [a EXCEPT !.raised = TRUE]
  BY DEF Dispatch
<1>9. ~broken => b = [a EXCEPT !.queue = q, !.arrived = came]
  BY DEF Dispatch
<1>10. \A t \in Barriers(g) \cap g.nodes : came[t] = a.arrived[t] + Cardinality(Into(g, A, t))
  OBVIOUS
<1> HIDE DEF A, O, b, q, came, broken
<1>11. CASE broken
  BY <1>1, <1>8, <1>11 DEF LoopStates, LoopState, broken, b
<1>12. CASE ~broken
  <2>1. b.queue = q /\ b.arrived = came /\ b.state = a.state /\ b.failed = a.failed /\ b.raised = a.raised
    BY <1>1, <1>9, <1>12 DEF LoopState
  <2>2. b \in LoopStates(g)
    BY <1>1, <1>5, <1>7, <1>9, <1>12, <2>1 DEF LoopStates, LoopState
  <2> QED  BY <1>5, <1>10, <1>12, <2>1, <2>2 DEF broken, b, A, O
<1> QED  BY <1>11, <1>12

LEMMA TakenTyped ==
  ASSUME graph \in Graphs, ~Dangles(graph), gstate \in GState,
         NEW a \in LoopStates(graph), NEW n \in graph.nodes, NEW o \in Outcome
  PROVE  Taken(a, n, o) \in LoopStates(graph)
<1> DEFINE branch == After(gstate, n, o)
           failing == [a EXCEPT !.failed = TRUE,
                                !.state = IF Len(ready) = 1 /\ o.inPlace THEN branch ELSE @]
           moved == [a EXCEPT !.state = IF Len(ready) = 1 THEN branch ELSE Merge(@, branch)]
<1>1. n \in Nat
  BY GraphFacts
<1>2. branch \in GState
  BY <1>1, AfterTyped
<1>3. \/ Taken(a, n, o) = a
      \/ Taken(a, n, o) = failing
      \/ Taken(a, n, o) = Dispatch(graph, moved, n, branch)
  BY DEF Taken
<1> HIDE DEF branch
<1>4. a \in LoopState(graph) /\ Distinct(a.queue) /\ a.state \in GState
  BY DEF LoopStates, LoopState
<1>5. Merge(a.state, branch) \in GState
  BY <1>2, <1>4, MergeTyped
<1>6. failing \in LoopStates(graph) /\ moved \in LoopStates(graph)
  BY <1>2, <1>4, <1>5 DEF LoopStates, LoopState
<1> HIDE DEF failing, moved
<1>7. Dispatch(graph, moved, n, branch) \in LoopStates(graph)
  BY <1>6, DispatchTyped
<1> QED  BY <1>3, <1>6, <1>7

(* The batch loop, one node's result after the other. *)
Started == [state |-> gstate, queue |-> <<>>, arrived |-> arrived, failed |-> FALSE, raised |-> FALSE]
BatchRun(f, out) ==
  /\ f \in [0 .. Len(ready) -> LoopStates(graph)] /\ f[0] = Started
  /\ \A i \in 1 .. Len(ready) : f[i] = Taken(f[i - 1], ready[i], out[i])

LEMMA AbsorbedRuns ==
  ASSUME graph \in Graphs, ~Dangles(graph), gstate \in GState, ready \in Seq(graph.nodes),
         arrived \in [graph.nodes -> Nat],
         NEW out, \A i \in DOMAIN ready : out[i] \in Outcome
  PROVE  \E f : BatchRun(f, out) /\ Absorbed(out) = f[Len(ready)]
<1> DEFINE m == Len(ready)
           X == LoopStates(graph)
           step == [i \in 1 .. m |-> [s \in X |-> Taken(s, ready[i], out[i])]]
           Loop(f) == f = [i \in 0 .. Len(ready) |->
                             IF i = 0 THEN [state |-> gstate, queue |-> <<>>, arrived |-> arrived,
                                            failed |-> FALSE, raised |-> FALSE]
                             ELSE Taken(f[i - 1], ready[i], out[i])]
<1>1. m \in Nat /\ DOMAIN ready = 1 .. m /\ \A i \in 1 .. m : ready[i] \in graph.nodes
  BY Positions
<1>2. Started \in X
  <2>1. <<>> \in Seq(graph.nodes) /\ Distinct(<<>>)
    BY DEF Distinct
  <2> QED  BY <2>1 DEF Started, LoopStates, LoopState
<1>3. step \in [1 .. m -> [X -> X]]
  <2> SUFFICES ASSUME NEW s \in X, NEW i \in 1 .. m  PROVE Taken(s, ready[i], out[i]) \in X
    OBVIOUS
  <2> QED  BY <1>1, TakenTyped
<1>3a. \A s \in X, i \in 1 .. m : step[i][s] = Taken(s, ready[i], out[i])
  OBVIOUS
<1> HIDE DEF step
<1>4. PICK f : RunOf(f, X, m, Started, step)
  BY <1>1, <1>2, <1>3, LoopRuns
<1>4a. f \in [0 .. m -> X] /\ f[0] = Started /\ \A i \in 1 .. m : f[i] = step[i][f[i - 1]]
  BY <1>4 DEF RunOf
<1>5. \A i \in 1 .. m : f[i] = Taken(f[i - 1], ready[i], out[i])
  <2>1. \A i \in 1 .. m : i - 1 \in 0 .. m
    BY <1>1
  <2> QED  BY <1>3a, <1>4a, <2>1
<1>6. Loop(f)
  <2>1. \A i \in 0 .. m : i = 0 \/ i \in 1 .. m
    OBVIOUS
  <2> QED  BY <1>4a, <1>5, <2>1 DEF Started
<1> DEFINE a == CHOOSE h : Loop(h)
<1>7. Loop(a)
  BY <1>6
<1>8. Absorbed(out) = a[m]
  BY DEF Absorbed
<1> HIDE DEF a
<1>9. a = [i \in 0 .. m |-> a[i]] /\ a[0] = Started /\ \A i \in 1 .. m : a[i] = Taken(a[i - 1], ready[i], out[i])
  <2>1. a = [i \in 0 .. m |-> IF i = 0 THEN Started ELSE Taken(a[i - 1], ready[i], out[i])]
    BY <1>7 DEF Started
  <2> HIDE DEF Loop
  <2>2. \A i \in 1 .. m : i \in 0 .. m /\ i # 0
    BY <1>1
  <2>3. 0 \in 0 .. m
    BY <1>1
  <2> QED  BY <2>1, <2>2, <2>3
<1> HIDE DEF Loop
<1> DEFINE T == {i \in Nat : i <= m => a[i] = f[i]}
<1>10. 0 \in T
  BY <1>4a, <1>9
<1>11. ASSUME NEW i \in Nat, i \in T  PROVE i + 1 \in T
  <2> SUFFICES ASSUME i + 1 <= m  PROVE a[i + 1] = f[i + 1]
    OBVIOUS
  <2>1. a[i] = f[i]
    BY <1>1, <1>11
  <2>2. i + 1 \in 1 .. m /\ i + 1 - 1 = i
    BY <1>1
  <2>3. a[i + 1] = Taken(a[i], ready[i + 1], out[i + 1]) /\ f[i + 1] = Taken(f[i], ready[i + 1], out[i + 1])
    <3>1. \A j \in 1 .. m : a[j] = Taken(a[j - 1], ready[j], out[j])
      BY <1>9
    <3> QED  BY <1>5, <2>2, <3>1
  <2> QED  BY <2>1, <2>3
<1> HIDE DEF T
<1>12. a[m] = f[m]
  <2>1. Nat \subseteq T
    BY <1>10, <1>11, InductionBySet
  <2> QED  BY <1>1, <2>1 DEF T
<1> QED  BY <1>4a, <1>5, <1>8, <1>12 DEF BatchRun

(* A list that repeats nothing. *)
LEMMA DistinctCounts ==
  ASSUME NEW X, NEW s \in Seq(X), Distinct(s)
  PROVE  /\ \A x : Count(s, x) = IF x \in ToSet(s) THEN 1 ELSE 0
         /\ IsFiniteSet(X) => Len(s) <= Cardinality(X)
<1>1. Len(s) \in Nat /\ DOMAIN s = 1 .. Len(s) /\ s \in [1 .. Len(s) -> X]
  BY Positions
<1>2. ASSUME NEW x  PROVE Count(s, x) = IF x \in ToSet(s) THEN 1 ELSE 0
  <2> DEFINE I == {i \in DOMAIN s : s[i] = x}
  <2>1. CASE x \in ToSet(s)
    <3>1. PICK i \in DOMAIN s : s[i] = x
      BY <2>1 DEF ToSet
    <3>2. I = {i}
      BY <3>1 DEF Distinct
    <3>3. Cardinality(I) = 1
      BY <3>2, FS_Singleton
    <3> QED  BY <2>1, <3>3 DEF Count
  <2>2. CASE x \notin ToSet(s)
    <3>1. I = {}
      BY <2>2 DEF ToSet
    <3>2. Cardinality(I) = 0
      BY <3>1, FS_EmptySet
    <3> QED  BY <2>2, <3>2 DEF Count
  <2> QED  BY <2>1, <2>2
<1>3. ASSUME IsFiniteSet(X)  PROVE Len(s) <= Cardinality(X)
  <2>1. \A i, j \in 1 .. Len(s) : s[i] = s[j] => i = j
    BY <1>1 DEF Distinct
  <2>2. Cardinality(1 .. Len(s)) <= Cardinality(X)
    BY <1>1, <1>3, <2>1, NoLarger
  <2>3. Cardinality(1 .. Len(s)) = Len(s)
    BY <1>1, FS_Interval
  <2> QED  BY <2>2, <2>3
<1> QED  BY <1>2, <1>3

GraphInv ==
  /\ graph \in Graphs /\ gstate \in GState
  /\ ready \in Seq(graph.nodes) /\ Distinct(ready)
  /\ visits \in [graph.nodes -> 0 .. MaxIterations]
  /\ arrived \in [graph.nodes -> Nat]
  /\ steps \in Nat /\ steps <= MaxSteps + Cardinality(graph.nodes)
  /\ phase \in {"new", "running", "done", "raised"} /\ failed \in BOOLEAN
  /\ phase = "running" => ~Dangles(graph)
  /\ failed => phase \in {"done", "raised"}

LEMMA GraphInvInit == AgentGraphInit => GraphInv
<1> SUFFICES ASSUME AgentGraphInit PROVE GraphInv
  OBVIOUS
<1>1. graph \in Graphs /\ IsFiniteSet(graph.nodes) /\ Cardinality(graph.nodes) \in Nat
  BY GraphFacts DEF AgentGraphInit
<1>2. gstate \in GState
  <2>1. NoUpdate \in Update /\ <<>> \in Seq(Nat)
    BY DEF NoUpdate, Update
  <2> QED  BY <2>1 DEF AgentGraphInit, GState
<1>3. ready \in Seq(graph.nodes) /\ Distinct(ready)
  BY DEF AgentGraphInit, Distinct
<1>4. MaxIterations \in Nat /\ MaxSteps \in Nat
  BY AgentGraphAssumption
<1>5. visits \in [graph.nodes -> 0 .. MaxIterations] /\ arrived \in [graph.nodes -> Nat]
  BY <1>4 DEF AgentGraphInit
<1>6. steps \in Nat /\ steps <= MaxSteps + Cardinality(graph.nodes) /\ phase = "new" /\ failed = FALSE
  BY <1>1, <1>4 DEF AgentGraphInit
<1> QED  BY <1>1, <1>2, <1>3, <1>5, <1>6 DEF GraphInv

(* A batch, whose nodes do as they may. *)
LEMMA BatchFacts ==
  ASSUME GraphInv, NEW out, RunBatch(out)
  PROVE  /\ graph \in Graphs /\ ~Dangles(graph) /\ phase = "running" /\ ~failed
         /\ Len(ready) \in Nat \ {0} /\ DOMAIN ready = 1 .. Len(ready)
         /\ \A i \in 1 .. Len(ready) : ready[i] \in graph.nodes /\ out[i] \in Outcome
         /\ gstate' = Absorbed(out).state /\ ready' = Absorbed(out).queue /\ arrived' = Absorbed(out).arrived
         /\ failed' = Absorbed(out).failed
         /\ phase' = IF Absorbed(out).raised THEN "raised"
                     ELSE IF Absorbed(out).failed THEN "done" ELSE "running"
         /\ batch' = IF Absorbed(out).raised THEN NoBatch
                     ELSE [before |-> gstate,
                           ran |-> [i \in DOMAIN ready |-> [node |-> ready[i], did |-> out[i]]]]
         /\ visits' = Counted /\ steps' = steps + Len(ready) /\ steps < MaxSteps /\ ~TooOften
         /\ graph' = graph
         /\ \E f : BatchRun(f, out) /\ Absorbed(out) = f[Len(ready)]
<1>1. graph \in Graphs /\ ~Dangles(graph) /\ phase = "running" /\ ~failed
  BY DEF GraphInv, RunBatch
<1>2. Len(ready) \in Nat /\ DOMAIN ready = 1 .. Len(ready) /\ \A i \in 1 .. Len(ready) : ready[i] \in graph.nodes
  BY Positions DEF GraphInv
<1>3. ready # <<>> /\ steps < MaxSteps /\ ~TooOften /\ \A i \in DOMAIN ready : out[i] \in graph.does[ready[i]]
  BY DEF RunBatch
<1>4. Len(ready) # 0
  BY <1>3 DEF GraphInv
<1>5. \A i \in 1 .. Len(ready) : out[i] \in Outcome
  BY <1>1, <1>2, <1>3, GraphFacts
<1>6. \E f : BatchRun(f, out) /\ Absorbed(out) = f[Len(ready)]
  BY <1>1, <1>2, <1>5, AbsorbedRuns DEF GraphInv
<1> DEFINE r == Absorbed(out)
<1>7. /\ gstate' = r.state /\ ready' = r.queue /\ arrived' = r.arrived /\ failed' = r.failed
      /\ phase' = IF r.raised THEN "raised" ELSE IF r.failed THEN "done" ELSE "running"
      /\ batch' = IF r.raised THEN NoBatch
                  ELSE [before |-> gstate,
                        ran |-> [i \in DOMAIN ready |-> [node |-> ready[i], did |-> out[i]]]]
      /\ graph' = graph
  <2>1. Advance(out)
    BY DEF RunBatch
  <2> QED  BY <2>1, Zenon DEF Advance
<1>8. visits' = Counted /\ steps' = steps + Len(ready)
  BY DEF RunBatch
<1> HIDE DEF r
<1> QED  BY <1>1, <1>2, <1>3, <1>4, <1>5, <1>6, <1>7, <1>8 DEF r

LEMMA RunBatchKeeps ==
  ASSUME GraphInv, NEW out, RunBatch(out)
  PROVE  GraphInv'
<1> DEFINE m == Len(ready)
           r == Absorbed(out)
<1>1. /\ graph \in Graphs /\ ~Dangles(graph)
      /\ m \in Nat \ {0} /\ DOMAIN ready = 1 .. m
      /\ \A i \in 1 .. m : ready[i] \in graph.nodes
      /\ gstate' = r.state /\ ready' = r.queue /\ arrived' = r.arrived /\ failed' = r.failed
      /\ phase' = IF r.raised THEN "raised" ELSE IF r.failed THEN "done" ELSE "running"
      /\ visits' = Counted /\ steps' = steps + m /\ steps < MaxSteps /\ ~TooOften /\ graph' = graph
  BY BatchFacts
<1>2. PICK f : BatchRun(f, out) /\ r = f[m]
  BY BatchFacts
<1>3. r \in LoopStates(graph)
  <2>1. m \in 0 .. m
    BY <1>1
  <2> QED  BY <1>2, <2>1 DEF BatchRun
<1> HIDE DEF r
<1>4. r \in LoopState(graph) /\ Distinct(r.queue)
  BY <1>3 DEF LoopStates
<1>5. r.state \in GState /\ r.queue \in Seq(graph.nodes) /\ r.arrived \in [graph.nodes -> Nat]
      /\ r.failed \in BOOLEAN /\ r.raised \in BOOLEAN
  BY <1>4 DEF LoopState
<1>6. ready \in Seq(graph.nodes) /\ Distinct(ready) /\ IsFiniteSet(graph.nodes) /\ Cardinality(graph.nodes) \in Nat
  BY <1>1, GraphFacts DEF GraphInv
<1>7. steps' \in Nat /\ steps' <= MaxSteps + Cardinality(graph.nodes)
  <2>1. m <= Cardinality(graph.nodes)
    BY <1>6, DistinctCounts
  <2>2. steps \in Nat /\ MaxSteps \in Nat
    BY AgentGraphAssumption DEF GraphInv
  <2> QED  BY <1>1, <1>6, <2>1, <2>2
<1>8. visits' \in [graph.nodes -> 0 .. MaxIterations]
  <2> SUFFICES ASSUME NEW n \in graph.nodes  PROVE visits[n] + Count(ready, n) \in 0 .. MaxIterations
    BY <1>1 DEF Counted
  <2>1. visits[n] \in 0 .. MaxIterations /\ MaxIterations \in Nat
    BY AgentGraphAssumption DEF GraphInv
  <2>2. Count(ready, n) = IF n \in ToSet(ready) THEN 1 ELSE 0
    BY <1>6, DistinctCounts
  <2>3. n \in ToSet(ready) => visits[n] < MaxIterations
    BY <1>1, <2>1 DEF ToSet, TooOften
  <2> QED  BY <2>1, <2>2, <2>3
<1>10. Distinct(ready')
  BY <1>1, <1>4 DEF Distinct
<1>12. ~Dangles(graph)'
  BY <1>1 DEF Dangles
<1>13. phase' \in {"new", "running", "done", "raised"} /\ failed' \in BOOLEAN
  BY <1>1, <1>5
<1> QED  BY <1>1, <1>5, <1>7, <1>8, <1>10, <1>12, <1>13 DEF GraphInv

LEMMA OneLong == ASSUME NEW X, NEW x \in X PROVE <<x>> \in Seq(X) /\ Len(<<x>>) = 1
OBVIOUS

LEMMA OtherKeeps ==
  ASSUME GraphInv, Invoke \/ RaiseLimit \/ Finish \/ UNCHANGED agvars
  PROVE  GraphInv'
<1> USE DEF GraphInv
<1>1. CASE Invoke
  <2>1. UNCHANGED <<graph, gstate, visits, steps, arrived, failed>> /\ phase = "new"
    BY <1>1 DEF Invoke
  <2>2. ~failed
    BY <2>1
  <2>3. Dangles(graph)' <=> Dangles(graph)
    BY <2>1 DEF Dangles
  <2>4. CASE phase' = "raised" /\ ready' = ready
    BY <2>1, <2>2, <2>4 DEF Distinct
  <2>5. CASE ~Dangles(graph) /\ phase' = "running" /\ ready' = <<graph.entry>>
    <3>1. ready' \in Seq(graph.nodes) /\ Distinct(ready')
      <4>1. graph.entry \in graph.nodes
        BY <2>5, EdgesJoin
      <4>2. ready' \in Seq(graph.nodes) /\ Len(ready') = 1
        BY <2>5, <4>1, OneLong
      <4>3. DOMAIN ready' = 1 .. 1
        BY <4>2
      <4>4. Distinct(ready')
        BY <4>3 DEF Distinct
      <4> QED  BY <4>2, <4>4
    <3>2. Distinct(ready)'
      BY <3>1 DEF Distinct
    <3> QED  BY <2>1, <2>2, <2>3, <2>5, <3>1, <3>2
  <2> QED  BY <1>1, <2>4, <2>5 DEF Invoke
<1>2. CASE RaiseLimit
  BY <1>2 DEF RaiseLimit, Distinct, Dangles
<1>3. CASE Finish
  BY <1>3 DEF Finish, Distinct, Dangles
<1>4. CASE UNCHANGED agvars
  BY <1>4 DEF agvars, Distinct, Dangles
<1> QED  BY <1>1, <1>2, <1>3, <1>4

LEMMA GraphInvNext == GraphInv /\ [AgentGraphNext]_agvars => GraphInv'
<1> SUFFICES ASSUME GraphInv, [AgentGraphNext]_agvars PROVE GraphInv'
  OBVIOUS
<1>1. ASSUME NEW out \in Batches, RunBatch(out)  PROVE GraphInv'
  BY <1>1, RunBatchKeeps
<1>2. CASE Invoke \/ RaiseLimit \/ Finish \/ UNCHANGED agvars
  BY <1>2, OtherKeeps
<1> QED  BY <1>1, <1>2 DEF AgentGraphNext

(* The state, the queue and the counts of visits and steps are what they   *)
(* should be, whatever the nodes do and however the graph loops.           *)
THEOREM AgentGraphTyped == AgentGraphSpec => []AgentGraphTypeOK
<1>1. GraphInv => AgentGraphTypeOK
  BY DEF GraphInv, AgentGraphTypeOK
<1> QED  BY <1>1, GraphInvInit, GraphInvNext, PTL DEF AgentGraphSpec

-----------------------------------------------------------------------------
(***************************************************************************)
(* A key that no branch had before and that one branch set.  What the loop *)
(* keeps: before that branch's result is taken the key is still absent,    *)
(* and afterwards it has the value; the copies of its siblings, merged     *)
(* later, have no value that could replace it.                             *)
(***************************************************************************)
LEMMA TakenState ==
  ASSUME graph \in Graphs, ~Dangles(graph), gstate \in GState,
         NEW a \in LoopStates(graph), NEW n \in graph.nodes, NEW o \in Outcome,
         ~Taken(a, n, o).raised, ~Taken(a, n, o).failed
  PROVE  /\ ~a.raised /\ ~a.failed
         /\ Taken(a, n, o).state = IF Len(ready) = 1 THEN After(gstate, n, o)
                                   ELSE Merge(a.state, After(gstate, n, o))
<1> DEFINE branch == After(gstate, n, o)
           failing == [a EXCEPT !.failed = TRUE,
                                !.state = IF Len(ready) = 1 /\ o.inPlace THEN branch ELSE @]
           moved == [a EXCEPT !.state = IF Len(ready) = 1 THEN branch ELSE Merge(@, branch)]
<1>0. a \in LoopState(graph) /\ Distinct(a.queue) /\ a.state \in GState /\ n \in Nat
  BY GraphFacts DEF LoopStates, LoopState
<1>1. branch \in GState /\ Merge(a.state, branch) \in GState
  BY <1>0, AfterTyped, MergeTyped
<1>2. Taken(a, n, o) = IF a.raised \/ a.failed THEN a
                       ELSE IF o.fails THEN failing ELSE Dispatch(graph, moved, n, branch)
  BY DEF Taken
<1> HIDE DEF branch
<1>3. failing.failed /\ moved.state = (IF Len(ready) = 1 THEN branch ELSE Merge(a.state, branch))
      /\ moved \in LoopStates(graph)
  BY <1>0, <1>1 DEF LoopStates, LoopState
<1> HIDE DEF failing, moved
<1>4. Taken(a, n, o) = Dispatch(graph, moved, n, branch) /\ ~a.raised /\ ~a.failed
  BY <1>2, <1>3
<1>5. Taken(a, n, o).state = moved.state
  BY <1>3, <1>4, DispatchTyped
<1> QED  BY <1>3, <1>4, <1>5 DEF branch

LEMMA FreshKeysBatch ==
  ASSUME GraphInv, NEW out, RunBatch(out)
  PROVE  FreshKeysKept'
<1> DEFINE m == Len(ready)
           r == Absorbed(out)
<1>1. /\ graph \in Graphs /\ ~Dangles(graph) /\ gstate \in GState
      /\ m \in Nat \ {0} /\ DOMAIN ready = 1 .. m
      /\ \A i \in 1 .. m : ready[i] \in graph.nodes /\ out[i] \in Outcome
      /\ gstate' = r.state /\ failed' = r.failed
      /\ batch' = IF r.raised THEN NoBatch
                  ELSE [before |-> gstate,
                        ran |-> [i \in DOMAIN ready |-> [node |-> ready[i], did |-> out[i]]]]
  BY BatchFacts DEF GraphInv
<1>2. PICK f : BatchRun(f, out) /\ r = f[m]
  BY BatchFacts
<1>2a. f \in [0 .. m -> LoopStates(graph)] /\ f[0] = Started
       /\ \A i \in 1 .. m : f[i] = Taken(f[i - 1], ready[i], out[i])
  BY <1>2 DEF BatchRun
<1> HIDE DEF r
<1> SUFFICES ASSUME ~failed', NEW k \in Keys, NEW j \in Setters(k)',
                    Sole(k, j)', batch'.before.plain[k] = Absent
             PROVE  gstate'.plain[k] = batch'.ran[j].did.sets[k]
  BY DEF FreshKeysKept
<1>3. ~r.raised
  BY <1>1 DEF Setters, NoBatch
<1>4. batch'.before = gstate /\ batch'.ran = [i \in 1 .. m |-> [node |-> ready[i], did |-> out[i]]]
  BY <1>1, <1>3
<1>5. Setters(k)' = {i \in 1 .. m : out[i].sets[k] # Absent}
  BY <1>4 DEF Setters
<1>6. j \in 1 .. m /\ out[j].sets[k] # Absent /\ \A i \in 1 .. m : i # j => out[i].sets[k] = Absent
  BY <1>5 DEF Sole
<1>7. gstate.plain[k] = Absent
  BY <1>4
<1> DEFINE Carried(i) == \/ f[i].raised \/ f[i].failed
                       \/ (i < j /\ f[i].state.plain[k] = Absent)
                       \/ (i >= j /\ f[i].state.plain[k] = out[j].sets[k])
           T == {i \in Nat : i <= m => Carried(i)}
<1>8. 0 \in T
  <2>1. f[0].state = gstate
    BY <1>2a DEF Started
  <2>2. 0 < j
    BY <1>6
  <2> QED  BY <1>7, <2>1, <2>2
<1>9. ASSUME NEW l \in Nat, l \in T  PROVE l + 1 \in T
  <2> SUFFICES ASSUME l + 1 <= m  PROVE Carried(l + 1)
    OBVIOUS
  <2> DEFINE i == l + 1
  <2>1. Carried(l)
    BY <1>1, <1>9
  <2>2. i \in 1 .. m /\ i - 1 = l /\ l \in 0 .. m
    BY <1>1
  <2> HIDE DEF i
  <2>3. f[l] \in LoopStates(graph) /\ f[i] = Taken(f[l], ready[i], out[i])
        /\ ready[i] \in graph.nodes /\ out[i] \in Outcome
    BY <1>1, <1>2a, <2>2
  <2> SUFFICES ASSUME ~f[i].raised, ~f[i].failed
               PROVE  IF i < j THEN f[i].state.plain[k] = Absent
                      ELSE f[i].state.plain[k] = out[j].sets[k]
    BY <1>6, <2>2 DEF i
  <2> DEFINE branch == After(gstate, ready[i], out[i])
  <2>4. ~f[l].raised /\ ~f[l].failed
        /\ f[i].state = IF m = 1 THEN branch ELSE Merge(f[l].state, branch)
    BY <1>1, <2>3, TakenState
  <2>5. branch \in GState
        /\ branch.plain[k] = IF out[i].sets[k] = Absent THEN gstate.plain[k] ELSE out[i].sets[k]
    <3>1. ready[i] \in Nat
      BY <1>1, <2>3, GraphFacts
    <3> QED  BY <1>1, <2>3, <3>1, AfterTyped
  <2>6. f[l].state \in GState
    BY <2>3 DEF LoopStates, LoopState
  <2> HIDE DEF branch
  <2>7. CASE m = 1
    <3>1. i = 1 /\ j = 1
      BY <1>6, <2>2, <2>7
    <3> QED  BY <1>6, <2>4, <2>5, <2>7, <3>1
  <2>8. CASE m # 1
    <3>1. f[i].state.plain[k] = IF branch.plain[k] = Absent THEN f[l].state.plain[k] ELSE branch.plain[k]
      BY <2>4, <2>5, <2>6, <2>8, MergeTyped
    <3>2. CASE i = j
      <4>1. branch.plain[k] = out[j].sets[k] /\ ~(i < j)
        BY <1>6, <2>2, <2>5, <3>2
      <4> QED  BY <1>6, <3>1, <4>1
    <3>3. CASE i # j
      <4>1. branch.plain[k] = Absent
        BY <1>6, <1>7, <2>2, <2>5, <3>3
      <4>2. f[i].state.plain[k] = f[l].state.plain[k]
        BY <3>1, <4>1
      <4>3. (i < j => l < j) /\ (~(i < j) => l >= j)
        BY <1>6, <2>2, <3>3 DEF i
      <4>4. j \in Nat /\ ~(l < j /\ l >= j)
        BY <1>6
      <4> QED  BY <2>1, <2>4, <4>2, <4>3, <4>4
    <3> QED  BY <3>2, <3>3
  <2> QED  BY <2>7, <2>8
<1> HIDE DEF T
<1>10. Carried(m)
  <2>1. Nat \subseteq T
    BY <1>8, <1>9, InductionBySet
  <2> QED  BY <1>1, <2>1 DEF T
<1>11. ~r.failed /\ ~(m < j)
  BY <1>1, <1>6
<1>12. gstate'.plain[k] = out[j].sets[k]
  BY <1>1, <1>2, <1>3, <1>10, <1>11
<1> QED  BY <1>4, <1>6, <1>12

(* One branch's value for a key the state did not have is in the state     *)
(* that the batch leaves, however many branches there are.                 *)
THEOREM NewKeysSurviveMerges == AgentGraphSpec => []FreshKeysKept
<1>1. AgentGraphInit => FreshKeysKept
  BY DEF AgentGraphInit, FreshKeysKept, Setters, NoBatch
<1>2. GraphInv /\ FreshKeysKept /\ [AgentGraphNext]_agvars => FreshKeysKept'
  <2> SUFFICES ASSUME GraphInv, FreshKeysKept, [AgentGraphNext]_agvars  PROVE FreshKeysKept'
    OBVIOUS
  <2>1. ASSUME NEW out \in Batches, RunBatch(out)  PROVE FreshKeysKept'
    BY <2>1, FreshKeysBatch
  <2>2. CASE Invoke \/ RaiseLimit \/ Finish \/ UNCHANGED agvars
    <3>1. UNCHANGED <<gstate, failed, batch>>
      BY <2>2 DEF Invoke, RaiseLimit, Finish, agvars
    <3> QED  BY <3>1 DEF FreshKeysKept, Setters, Sole
  <2> QED  BY <2>1, <2>2 DEF AgentGraphNext
<1> QED  BY <1>1, <1>2, GraphInvInit, GraphInvNext, PTL DEF AgentGraphSpec

-----------------------------------------------------------------------------
(***************************************************************************)
(* Joins.  In a connected graph without conditions whose branches have     *)
(* equal lengths, the batches are the layers: the nodes at one distance    *)
(* from the entry.                                                         *)
(***************************************************************************)
Evenly(g) == ~Dangles(g) /\ Plainly(g) /\ Layered(g) /\ Connected(g)
Before(g, d) == UNION {Layers(g)[c] : c \in 0 .. d - 1}
Arrivals(g, t, M) == {i \in DOMAIN g.edges : g.edges[i].target = t /\ g.edges[i].source \in M}

LEMMA LayersRun ==
  ASSUME NEW g \in Graphs, ~Dangles(g)
  PROVE  /\ Layers(g) \in [0 .. Cardinality(g.nodes) -> SUBSET g.nodes]
         /\ Layers(g)[0] = {g.entry}
         /\ \A d \in 1 .. Cardinality(g.nodes) : Layers(g)[d] = Succ(g, Layers(g)[d - 1])
<1> DEFINE N == Cardinality(g.nodes)
           X == SUBSET g.nodes
           step == [i \in 1 .. N |-> [S \in X |-> Succ(g, S)]]
           Loop(f) == f = [d \in 0 .. N |-> IF d = 0 THEN {g.entry} ELSE Succ(g, f[d - 1])]
<1>1. N \in Nat
  BY GraphFacts
<1>2. {g.entry} \in X
  BY EdgesJoin
<1>3. \A S : Succ(g, S) \in X
  BY EdgesJoin DEF Succ
<1>4. step \in [1 .. N -> [X -> X]] /\ \A S \in X, i \in 1 .. N : step[i][S] = Succ(g, S)
  BY <1>3
<1> DEFINE first == {g.entry}
<1> HIDE DEF step, N, X, first
<1>5. PICK f : RunOf(f, X, N, first, step)
  BY <1>1, <1>2, <1>4, LoopRuns DEF first
<1>6. f \in [0 .. N -> X] /\ f[0] = first /\ \A i \in 1 .. N : f[i] = step[i][f[i - 1]]
  BY <1>5 DEF RunOf
<1>7. \A i \in 1 .. N : f[i] = Succ(g, f[i - 1])
  <2>1. \A i \in 1 .. N : i - 1 \in 0 .. N
    BY <1>1
  <2> QED  BY <1>4, <1>6, <2>1
<1>8. Loop(f)
  <2>1. \A i \in 0 .. N : i = 0 \/ i \in 1 .. N
    BY <1>1
  <2> QED  BY <1>6, <1>7, <2>1 DEF first
<1> DEFINE a == CHOOSE h : Loop(h)
<1>9. Loop(a)
  BY <1>8
<1>10. Layers(g) = a
  BY DEF Layers, N
<1> HIDE DEF a
<1>11. a = [d \in 0 .. N |-> a[d]] /\ a[0] = first /\ \A d \in 1 .. N : a[d] = Succ(g, a[d - 1])
  <2>1. a = [d \in 0 .. N |-> IF d = 0 THEN first ELSE Succ(g, a[d - 1])]
    BY <1>9 DEF first
  <2> HIDE DEF Loop
  <2>2. \A i \in 1 .. N : i \in 0 .. N /\ i # 0
    BY <1>1
  <2>3. 0 \in 0 .. N
    BY <1>1
  <2> QED  BY <2>1, <2>2, <2>3
<1>12. a \in [0 .. N -> X]
  <2>1. \A d \in 0 .. N : a[d] \in X
    <3> SUFFICES ASSUME NEW d \in 0 .. N  PROVE a[d] \in X
      OBVIOUS
    <3>1. d = 0 \/ d \in 1 .. N
      BY <1>1
    <3> QED  BY <1>2, <1>3, <1>11, <3>1 DEF first
  <2> QED  BY <1>11, <2>1
<1> QED  BY <1>10, <1>11, <1>12 DEF N, X, first

(* Behind an empty layer there are only empty ones; the last is empty, as  *)
(* there are more layers than nodes; an edge leads from a layer to the     *)
(* next.                                                                   *)
LEMMA LayerFacts ==
  ASSUME NEW g \in Graphs, Evenly(g)
  PROVE  LET N == Cardinality(g.nodes)
             L == Layers(g)
         IN /\ \A d \in 0 .. N : \A c \in d .. N : L[d] = {} => L[c] = {}
            /\ L[N] = {}
            /\ \A c, d \in 0 .. N : c # d => L[c] \cap L[d] = {}
            /\ \A n \in g.nodes : \E d \in 0 .. N : n \in L[d]
            /\ \A i \in DOMAIN g.edges, d \in 0 .. N - 1 :
                 g.edges[i].source \in L[d] <=> g.edges[i].target \in L[d + 1]
<1> DEFINE N == Cardinality(g.nodes)
           L == Layers(g)
<1>1. N \in Nat /\ IsFiniteSet(g.nodes)
  BY GraphFacts
<1>2. /\ L \in [0 .. N -> SUBSET g.nodes]
      /\ \A d \in 1 .. N : L[d] = Succ(g, L[d - 1])
  BY LayersRun DEF Evenly
<1>3. \A c, d \in 0 .. N : c # d => L[c] \cap L[d] = {}
  BY <1>2 DEF Evenly, Layered
<1>4. \A n \in g.nodes : \E d \in 0 .. N : n \in L[d]
  <2>1. g.nodes = UNION {L[d] : d \in 0 .. N}
    BY <1>2 DEF Evenly, Connected
  <2> QED  BY <2>1
<1>5. \A i \in DOMAIN g.edges : g.edges[i].source \in g.nodes
  BY EdgesJoin DEF Evenly
<1> HIDE DEF N, L
<1>6. \A d \in 0 .. N - 1 : d \in 0 .. N /\ d + 1 \in 1 .. N /\ d + 1 \in 0 .. N /\ d + 1 - 1 = d
  BY <1>1
<1>7. ASSUME NEW d \in 0 .. N - 1  PROVE L[d + 1] = Succ(g, L[d])
  BY <1>2, <1>6
<1>8. ASSUME NEW d \in 0 .. N - 1, L[d] = {}  PROVE L[d + 1] = {}
  BY <1>7, <1>8 DEF Succ
<1>9. ASSUME NEW d \in 0 .. N, L[d] = {}  PROVE \A c \in d .. N : L[c] = {}
  <2> DEFINE T == {c \in Nat : c \in d .. N => L[c] = {}}
  <2>1. 0 \in T
    <3>1. 0 \in d .. N => d = 0
      BY <1>1
    <3> QED  BY <1>9, <3>1
  <2>2. ASSUME NEW c \in Nat, c \in T  PROVE c + 1 \in T
    <3> SUFFICES ASSUME c + 1 \in d .. N  PROVE L[c + 1] = {}
      OBVIOUS
    <3>1. CASE c + 1 = d
      BY <1>9, <3>1
    <3>2. CASE c + 1 # d
      <4>1. c \in d .. N /\ c \in 0 .. N - 1
        BY <1>1, <3>2
      <4>2. L[c] = {}
        BY <2>2, <4>1
      <4> QED  BY <1>8, <4>1, <4>2
    <3> QED  BY <3>1, <3>2
  <2> HIDE DEF T
  <2>3. Nat \subseteq T
    BY <2>1, <2>2, InductionBySet
  <2>4. d .. N \subseteq Nat
    BY <1>1
  <2> QED  BY <2>3, <2>4 DEF T
<1>10. L[N] = {}
  <2> SUFFICES ASSUME L[N] # {}  PROVE FALSE
    OBVIOUS
  <2>1. \A d \in 0 .. N : L[d] # {}
    <3>1. \A d \in 0 .. N : N \in d .. N
      BY <1>1
    <3> QED  BY <1>9, <3>1
  <2> DEFINE h == [d \in 0 .. N |-> CHOOSE n \in L[d] : TRUE]
  <2>2. \A d \in 0 .. N : h[d] \in L[d]
    BY <2>1
  <2>3. h \in [0 .. N -> g.nodes]
    BY <1>2, <2>2
  <2> HIDE DEF h
  <2>4. \A c, d \in 0 .. N : h[c] = h[d] => c = d
    BY <1>3, <2>2
  <2>5. Cardinality(0 .. N) <= N
    BY <1>1, <2>3, <2>4, NoLarger DEF N
  <2>6. Cardinality(0 .. N) = N + 1
    <3>1. ~(0 > N) /\ N - 0 + 1 = N + 1 /\ 0 \in Int /\ N \in Int
      BY <1>1
    <3> QED  BY <3>1, FS_Interval
  <2> QED  BY <1>1, <2>5, <2>6
<1>11. ASSUME NEW i \in DOMAIN g.edges, NEW d \in 0 .. N, g.edges[i].source \in L[d]
       PROVE  d \in 0 .. N - 1 /\ g.edges[i].target \in L[d + 1]
  <2>1. d # N
    BY <1>10, <1>11
  <2>2. d \in 0 .. N - 1
    BY <1>1, <2>1
  <2> QED  BY <1>7, <1>11, <2>2 DEF Succ
<1>12. ASSUME NEW i \in DOMAIN g.edges, NEW d \in 0 .. N - 1, g.edges[i].target \in L[d + 1]
       PROVE  g.edges[i].source \in L[d]
  <2>1. PICK b \in 0 .. N : g.edges[i].source \in L[b]
    BY <1>4, <1>5
  <2>2. b \in 0 .. N - 1 /\ g.edges[i].target \in L[b + 1]
    BY <1>11, <2>1
  <2>3. b + 1 = d + 1
    BY <1>3, <1>6, <1>12, <2>2
  <2>4. b = d
    BY <1>1, <2>3
  <2> QED  BY <2>1, <2>4
<1> QED  BY <1>3, <1>4, <1>6, <1>9, <1>10, <1>11, <1>12 DEF N, L

LEMMA LargestNumber ==
  ASSUME NEW T \in SUBSET Nat, T # {}, NEW u \in Nat, \A x \in T : x <= u
  PROVE  \E n \in T : \A m \in T : m <= n
<1> DEFINE U == {v \in Nat : \A x \in T : x <= v}
<1>1. PICK v \in U : \A w \in U : v <= w
  BY LeastNumber
<1>2. v \in T
  <2> SUFFICES ASSUME v \notin T  PROVE FALSE
    OBVIOUS
  <2>1. PICK x \in T : TRUE
    OBVIOUS
  <2>2. v \in Nat /\ v # 0 /\ v - 1 \in Nat
    BY <2>1
  <2>3. \A y \in T : y <= v - 1
    BY <2>2
  <2>4. v <= v - 1
    BY <1>1, <2>2, <2>3
  <2> QED  BY <2>2, <2>4
<1> QED  BY <1>2

(* Edges into t from the nodes M, and from one more node.                  *)
LEMMA ArrivalsAdd ==
  ASSUME NEW g \in Graphs, NEW t, NEW M, NEW n, n \notin M
  PROVE  /\ Cardinality(Arrivals(g, t, M)) \in Nat
         /\ Cardinality(Arrivals(g, t, M \cup {n})) =
              Cardinality(Arrivals(g, t, M)) + Cardinality(Into(g, Out(g, n), t))
<1> DEFINE A == Arrivals(g, t, M)
           B == Into(g, Out(g, n), t)
<1>1. A \in SUBSET DOMAIN g.edges /\ B \in SUBSET DOMAIN g.edges
  BY DEF Arrivals, Into, Out
<1>2. Arrivals(g, t, M \cup {n}) = A \cup B /\ A \cap B = {}
  BY DEF Arrivals, Into, Out
<1> HIDE DEF A, B
<1>3. IsFiniteSet(A) /\ IsFiniteSet(B)
  BY <1>1, GraphFacts, FS_Subset
<1>4. Cardinality(A) \in Nat /\ Cardinality(B) \in Nat /\ Cardinality({}) = 0
  BY <1>3, FS_CardinalityType, FS_EmptySet
<1>5. Cardinality(A \cup B) = Cardinality(A) + Cardinality(B) - Cardinality(A \cap B)
  BY <1>3, FS_Union
<1>6. Cardinality(A \cup B) = Cardinality(A) + Cardinality(B)
  <2>1. A \cap B = {}
    BY <1>2
  <2>2. Cardinality(A \cap B) = 0
    BY <1>4, <2>1, Zenon
  <2> QED  BY <1>4, <1>5, <2>2
<1> QED  BY <1>2, <1>4, <1>6 DEF A, B

(* One node's edges followed: what is counted, and what is queued.         *)
Followed(g, n, a, b) ==
  /\ \A t \in Barriers(g) \cap g.nodes :
       b.arrived[t] = a.arrived[t] + Cardinality(Into(g, Out(g, n), t))
  /\ ToSet(a.queue) \subseteq ToSet(b.queue)
  /\ ToSet(b.queue) \subseteq ToSet(a.queue) \cup Succ(g, {n})
  /\ \A t \in Succ(g, {n}) :
       t \notin Barriers(g) \/ b.arrived[t] >= Inbound(g, t) => t \in ToSet(b.queue)

LEMMA FollowedOpens ==
  ASSUME NEW g \in Graphs, Evenly(g), NEW a \in LoopStates(g), NEW n \in g.nodes, NEW s
  PROVE  Followed(g, n, a, Dispatch(g, a, n, s))
<1> DEFINE b == Dispatch(g, a, n, s)
           A == Out(g, n)
           O == Opened(g, a.arrived, A)
<1>0. ~Dangles(g) /\ Plainly(g)
  BY DEF Evenly
<1>1. \A i \in A : g.edges[i].when = Always
  BY <1>0 DEF Out, Plainly
<1>2. Active(g, n, s) = A
  BY <1>1 DEF Active, Holds
<1>3. ~\E i \in A : g.edges[i].when = Broken
  BY <1>1, AgentGraphAssumption
<1>4. /\ b.failed = a.failed /\ b.raised = a.raised
      /\ ToSet(b.queue) = ToSet(a.queue) \cup {g.edges[i].target : i \in O}
      /\ \A t \in Barriers(g) \cap g.nodes : b.arrived[t] = a.arrived[t] + Cardinality(Into(g, A, t))
  <2> DEFINE A1 == Active(g, n, s)
             O1 == Opened(g, a.arrived, A1)
  <2>1. /\ b.failed = a.failed /\ b.raised = a.raised
        /\ ToSet(b.queue) = ToSet(a.queue) \cup {g.edges[i].target : i \in O1}
        /\ \A t \in Barriers(g) \cap g.nodes : b.arrived[t] = a.arrived[t] + Cardinality(Into(g, A1, t))
    BY <1>0, <1>3, DispatchTyped
  <2>2. A1 = A /\ O1 = O
    BY <1>2
  <2> HIDE DEF b, A, O, A1, O1
  <2> QED  BY <2>1, <2>2
<1> HIDE DEF b
<1>5. O \subseteq A /\ A \subseteq DOMAIN g.edges
  BY DEF Opened, Out
<1>6. {g.edges[i].target : i \in O} \subseteq Succ(g, {n})
  BY <1>5 DEF Succ, Out
<1>7. ASSUME NEW t \in Succ(g, {n}), t \notin Barriers(g) \/ b.arrived[t] >= Inbound(g, t)
      PROVE  t \in ToSet(b.queue)
  <2> DEFINE I == Into(g, A, t)
  <2>0. t \in g.nodes
    BY <1>0, EdgesJoin DEF Succ
  <2>1. PICK i0 \in A : g.edges[i0].target = t
    BY DEF Succ, Out
  <2>2. I \in SUBSET DOMAIN g.edges /\ I # {}
    BY <1>5, <2>1 DEF Into
  <2>3. CASE t \notin Barriers(g)
    <3>1. i0 \in O
      BY <2>1, <2>3 DEF Opened
    <3> QED  BY <1>4, <2>1, <3>1
  <2>4. CASE t \in Barriers(g)
    <3>1. Len(g.edges) \in Nat /\ DOMAIN g.edges = 1 .. Len(g.edges)
      BY GraphFacts, Positions
    <3>2. I \in SUBSET Nat /\ \A x \in I : x <= Len(g.edges)
      BY <2>2, <3>1
    <3> HIDE DEF I
    <3>3. PICK i \in I : \A j \in I : j <= i
      BY <2>2, <3>1, <3>2, LargestNumber
    <3>4. {j \in I : j <= i} = I
      BY <3>3
    <3>5. i \in A /\ g.edges[i].target = t
      BY <3>3 DEF I, Into
    <3>6. b.arrived[t] = a.arrived[t] + Cardinality(I)
      BY <1>4, <2>0, <2>4 DEF I
    <3>7. a.arrived[t] + Cardinality({j \in I : j <= i}) >= Inbound(g, t)
      BY <1>7, <2>4, <3>4, <3>6
    <3>8. i \in O
      BY <3>5, <3>7 DEF Opened, I
    <3> QED  BY <1>4, <3>5, <3>8
  <2> QED  BY <2>3, <2>4
<1> QED  BY <1>4, <1>6, <1>7 DEF b, A, Followed

LEMMA TakenFollows ==
  ASSUME graph \in Graphs, Evenly(graph), gstate \in GState,
         NEW a \in LoopStates(graph), NEW n \in graph.nodes, NEW o \in Outcome,
         ~Taken(a, n, o).raised, ~Taken(a, n, o).failed
  PROVE  ~a.raised /\ ~a.failed /\ Followed(graph, n, a, Taken(a, n, o))
<1> DEFINE branch == After(gstate, n, o)
           failing == [a EXCEPT !.failed = TRUE,
                                !.state = IF Len(ready) = 1 /\ o.inPlace THEN branch ELSE @]
           moved == [a EXCEPT !.state = IF Len(ready) = 1 THEN branch ELSE Merge(@, branch)]
           b == Taken(a, n, o)
<1>0. a \in LoopState(graph) /\ Distinct(a.queue) /\ a.state \in GState /\ n \in Nat
  BY GraphFacts DEF LoopStates, LoopState
<1>1. branch \in GState /\ Merge(a.state, branch) \in GState
  BY <1>0, AfterTyped, MergeTyped
<1>2. b = IF a.raised \/ a.failed THEN a
          ELSE IF o.fails THEN failing ELSE Dispatch(graph, moved, n, branch)
  BY DEF Taken
<1> HIDE DEF branch
<1>3. failing.failed /\ moved.queue = a.queue /\ moved.arrived = a.arrived /\ moved \in LoopStates(graph)
  BY <1>0, <1>1 DEF LoopStates, LoopState
<1> HIDE DEF failing, moved, b
<1>4. ~b.raised /\ ~b.failed
  BY DEF b
<1>5. b = Dispatch(graph, moved, n, branch) /\ ~a.raised /\ ~a.failed
  BY <1>2, <1>3, <1>4
<1>6. Followed(graph, n, moved, b)
  BY <1>3, <1>5, FollowedOpens
<1>7. Followed(graph, n, a, b)
  BY <1>3, <1>6 DEF Followed
<1> QED  BY <1>5, <1>7 DEF b

LEMMA BeforeNext ==
  ASSUME NEW g, NEW d \in Nat
  PROVE  Before(g, d + 1) = Before(g, d) \cup Layers(g)[d]
<1>1. 0 .. d + 1 - 1 = (0 .. d - 1) \cup {d}
  OBVIOUS
<1> QED  BY <1>1 DEF Before

(* After d batches the nodes of the layers before d have run once, and the *)
(* edges out of them have been counted; those of layer d are ready.        *)
Placed(d) ==
  /\ visits = [n \in graph.nodes |-> IF n \in Before(graph, d) THEN 1 ELSE 0]
  /\ phase = "new" => d = 0
  /\ phase # "new" /\ ~failed => ToSet(ready) = Layers(graph)[d]
  /\ phase # "done" => \A t \in Barriers(graph) \cap graph.nodes :
                         arrived[t] = Cardinality(Arrivals(graph, t, Before(graph, d)))
JoinInv ==
  phase # "raised" /\ Evenly(graph) => \E d \in 0 .. Cardinality(graph.nodes) : Placed(d)

(* The targets of a batch are counted and queued.                          *)
LEMMA BatchQueues ==
  ASSUME GraphInv, Evenly(graph), NEW d \in 0 .. Cardinality(graph.nodes), Placed(d),
         NEW out, RunBatch(out), ~Absorbed(out).raised, ~Absorbed(out).failed
  PROVE  LET r == Absorbed(out)
             M == Before(graph, d) \cup ToSet(ready)
         IN /\ \A t \in Barriers(graph) \cap graph.nodes :
                 r.arrived[t] = Cardinality(Arrivals(graph, t, M))
            /\ ToSet(r.queue) \subseteq Succ(graph, ToSet(ready))
            /\ \A t \in Succ(graph, ToSet(ready)) :
                 t \notin Barriers(graph) \/ Cardinality(Arrivals(graph, t, M)) >= Inbound(graph, t)
                   => t \in ToSet(r.queue)
<1> DEFINE m == Len(ready)
           r == Absorbed(out)
           B == Before(graph, d)
           R(i) == {ready[j] : j \in 1 .. i}
           M(i) == B \cup R(i)
           S(i) == Succ(graph, R(i))
           came(i, t) == Cardinality(Arrivals(graph, t, M(i)))
<1>1. /\ graph \in Graphs /\ ~Dangles(graph) /\ phase = "running" /\ ~failed
      /\ m \in Nat \ {0} /\ DOMAIN ready = 1 .. m
      /\ \A i \in 1 .. m : ready[i] \in graph.nodes /\ out[i] \in Outcome
  BY BatchFacts
<1>1a. gstate \in GState /\ Distinct(ready)
  BY DEF GraphInv
<1>2. PICK f : BatchRun(f, out) /\ r = f[m]
  BY BatchFacts
<1>3. f \in [0 .. m -> LoopStates(graph)] /\ f[0] = Started
      /\ \A i \in 1 .. m : f[i] = Taken(f[i - 1], ready[i], out[i])
  BY <1>2 DEF BatchRun
<1>3a. ~r.raised /\ ~r.failed
  OBVIOUS
<1> HIDE DEF r
<1>4. ToSet(ready) = R(m)
  BY <1>1 DEF ToSet
<1>5. ToSet(ready) \cap B = {}
  <2>1. ToSet(ready) = Layers(graph)[d]
    BY <1>1 DEF Placed
  <2>2. Cardinality(graph.nodes) \in Nat
    BY <1>1, GraphFacts
  <2>3. \A c \in 0 .. d - 1 : c \in 0 .. Cardinality(graph.nodes) /\ c # d
    BY <2>2
  <2>4. \A c \in 0 .. d - 1 : Layers(graph)[c] \cap Layers(graph)[d] = {}
    BY <1>1, <2>3, LayerFacts
  <2> QED  BY <2>1, <2>4 DEF Before
<1>6. \A t \in Barriers(graph) \cap graph.nodes : arrived[t] = Cardinality(Arrivals(graph, t, B))
  BY <1>1 DEF Placed
<1> DEFINE Bar == Barriers(graph) \cap graph.nodes
           Met(i) == /\ \A t \in Bar : f[i].arrived[t] = came(i, t)
                     /\ ToSet(f[i].queue) \subseteq S(i)
                     /\ \A t \in S(i) : t \notin Barriers(graph) \/ came(i, t) >= Inbound(graph, t)
                                          => t \in ToSet(f[i].queue)
           Q(i) == f[i].raised \/ f[i].failed \/ Met(i)
           T == {i \in Nat : i <= m => Q(i)}
<1>7. 0 \in T
  <2>1. R(0) = {}
    OBVIOUS
  <2>2. M(0) = B /\ S(0) = {}
    BY <2>1 DEF Succ
  <2>3. f[0].arrived = arrived /\ ToSet(f[0].queue) = {}
    BY <1>3 DEF Started, ToSet
  <2>4. Met(0)
    BY <1>6, <2>2, <2>3
  <2> QED  BY <2>4
<1> HIDE DEF Q
<1>8. ASSUME NEW l \in Nat, l \in T  PROVE l + 1 \in T
  <2> SUFFICES ASSUME l + 1 <= m  PROVE Q(l + 1)
    OBVIOUS
  <2> DEFINE i == l + 1
             n == ready[i]
             b == f[i]
             a == f[l]
  <2>1. Q(l)
    BY <1>1, <1>8
  <2>2. i \in 1 .. m /\ i - 1 = l /\ l \in 0 .. m
    BY <1>1
  <2>3. 1 .. i = (1 .. l) \cup {i} /\ \A j \in 1 .. l : j \in 1 .. m /\ j # i
    BY <1>1
  <2>4. R(i) = R(l) \cup {n} /\ M(i) = M(l) \cup {n}
    BY <2>3
  <2>5. n \notin M(l)
    <3>1. n \notin R(l)
      BY <1>1, <1>1a, <2>2, <2>3 DEF Distinct
    <3>2. n \in ToSet(ready)
      BY <1>1, <2>2 DEF ToSet
    <3> QED  BY <1>5, <3>1, <3>2
  <2>6. S(i) = S(l) \cup Succ(graph, {n})
    BY <2>4 DEF Succ
  <2>7. a \in LoopStates(graph) /\ b = Taken(a, n, out[i]) /\ n \in graph.nodes /\ out[i] \in Outcome
    BY <1>1, <1>3, <2>2
  <2> HIDE DEF T
  <2> SUFFICES ASSUME ~b.raised, ~b.failed  PROVE Met(i)
    BY DEF Q
  <2> HIDE DEF i, a, b, n
  <2>8. /\ ~a.raised /\ ~a.failed
        /\ \A t \in Bar : b.arrived[t] = a.arrived[t] + Cardinality(Into(graph, Out(graph, n), t))
        /\ ToSet(a.queue) \subseteq ToSet(b.queue)
        /\ ToSet(b.queue) \subseteq ToSet(a.queue) \cup Succ(graph, {n})
        /\ \A t \in Succ(graph, {n}) :
             t \notin Barriers(graph) \/ b.arrived[t] >= Inbound(graph, t) => t \in ToSet(b.queue)
    <3>1. ~a.raised /\ ~a.failed /\ Followed(graph, n, a, b)
      BY <1>1, <1>1a, <2>7, TakenFollows
    <3> QED  BY <3>1 DEF Followed
  <2>9. Met(l)
    BY <2>1, <2>8 DEF a, Q
  <2>10. \A t : came(l, t) \in Nat /\ came(i, t) = came(l, t) + Cardinality(Into(graph, Out(graph, n), t))
    <3> SUFFICES ASSUME NEW t
                 PROVE  came(l, t) \in Nat /\ came(i, t) = came(l, t) + Cardinality(Into(graph, Out(graph, n), t))
      OBVIOUS
    <3> DEFINE K == M(l)
    <3>1. n \notin K /\ M(i) = K \cup {n}
      BY <2>4, <2>5
    <3> HIDE DEF K
    <3>2. /\ Cardinality(Arrivals(graph, t, K)) \in Nat
          /\ Cardinality(Arrivals(graph, t, K \cup {n})) =
               Cardinality(Arrivals(graph, t, K)) + Cardinality(Into(graph, Out(graph, n), t))
      BY <1>1, <3>1, ArrivalsAdd
    <3> QED  BY <3>1, <3>2 DEF K
  <2>11. \A t \in Bar : b.arrived[t] = came(i, t)
    BY <2>8, <2>9, <2>10 DEF a
  <2>12. ToSet(b.queue) \subseteq S(i)
    BY <2>6, <2>8, <2>9 DEF a
  <2>13. ASSUME NEW t \in S(i), t \notin Barriers(graph) \/ came(i, t) >= Inbound(graph, t)
         PROVE  t \in ToSet(b.queue)
    <3>1. t \in graph.nodes
      BY <1>1, EdgesJoin DEF Succ
    <3>2. CASE t \in Succ(graph, {n})
      <4>1. t \notin Barriers(graph) \/ b.arrived[t] >= Inbound(graph, t)
        BY <2>11, <2>13, <3>1
      <4> QED  BY <2>8, <3>2, <4>1
    <3>3. CASE t \notin Succ(graph, {n})
      <4>1. t \in S(l)
        BY <2>6, <2>13, <3>3
      <4>2. Into(graph, Out(graph, n), t) = {}
        BY <3>3 DEF Into, Out, Succ
      <4>3. Cardinality(Into(graph, Out(graph, n), t)) = 0
        BY <4>2, FS_EmptySet
      <4>4. came(i, t) = came(l, t)
        <5> HIDE DEF came
        <5> QED  BY <2>10, <4>3
      <4>5. t \in ToSet(a.queue)
        <5>1. t \notin Barriers(graph) \/ came(l, t) >= Inbound(graph, t)
          BY <2>13, <4>4
        <5> QED  BY <2>9, <4>1, <5>1 DEF a
      <4> QED  BY <2>8, <4>5
    <3> QED  BY <3>2, <3>3
  <2> QED  BY <2>11, <2>12, <2>13 DEF b
<1> HIDE DEF T
<1>9. Q(m)
  <2>1. Nat \subseteq T
    BY <1>7, <1>8, InductionBySet
  <2> QED  BY <1>1, <2>1 DEF T
<1>10. Met(m)
  BY <1>2, <1>3a, <1>9 DEF Q
<1> QED  BY <1>2, <1>4, <1>10 DEF r

LEMMA BatchPlaces ==
  ASSUME GraphInv, Evenly(graph), NEW d \in 0 .. Cardinality(graph.nodes), Placed(d),
         NEW out, RunBatch(out), phase' # "raised"
  PROVE  d + 1 \in 0 .. Cardinality(graph.nodes) /\ Placed(d + 1)'
<1> DEFINE N == Cardinality(graph.nodes)
           L == Layers(graph)
           r == Absorbed(out)
           M == Before(graph, d) \cup ToSet(ready)
<1>1. /\ graph \in Graphs /\ ~Dangles(graph) /\ phase = "running" /\ ~failed
      /\ Len(ready) \in Nat \ {0} /\ DOMAIN ready = 1 .. Len(ready)
      /\ \A i \in 1 .. Len(ready) : ready[i] \in graph.nodes
      /\ ready' = r.queue /\ arrived' = r.arrived /\ failed' = r.failed
      /\ phase' = IF r.raised THEN "raised" ELSE IF r.failed THEN "done" ELSE "running"
      /\ visits' = Counted /\ graph' = graph
  BY BatchFacts
<1>2. N \in Nat
  BY <1>1, GraphFacts
<1>3. ToSet(ready) = L[d]
  BY <1>1 DEF Placed
<1> HIDE DEF N, r
<1>4. d + 1 \in 0 .. N /\ d \in 0 .. N - 1 /\ d \in Nat
  <2>1. ToSet(ready) # {}
    <3>1. 1 \in DOMAIN ready
      BY <1>1
    <3> QED  BY <3>1 DEF ToSet
  <2>2. L[N] = {}
    BY <1>1, LayerFacts DEF N
  <2>3. d # N
    BY <1>3, <2>1, <2>2
  <2>4. d \in 0 .. N
    BY DEF N
  <2> QED  BY <1>2, <2>3, <2>4
<1>5. Before(graph, d + 1) = M
  BY <1>3, <1>4, BeforeNext
<1>6. visits' = [n \in graph.nodes |-> IF n \in M THEN 1 ELSE 0]
  <2>1. ready \in Seq(graph.nodes) /\ Distinct(ready)
    BY DEF GraphInv
  <2>2. \A n : Count(ready, n) = IF n \in ToSet(ready) THEN 1 ELSE 0
    BY <2>1, DistinctCounts
  <2>3. visits = [n \in graph.nodes |-> IF n \in Before(graph, d) THEN 1 ELSE 0]
    BY DEF Placed
  <2>4. Before(graph, d) \cap L[d] = {}
    <3>1. \A c \in 0 .. d - 1 : c \in 0 .. N /\ c # d
      BY <1>2, <1>4
    <3>2. \A c \in 0 .. d - 1 : L[c] \cap L[d] = {}
      BY <1>1, <1>4, <3>1, LayerFacts DEF N
    <3> QED  BY <3>2 DEF Before
  <2>5. ASSUME NEW n \in graph.nodes  PROVE visits[n] + Count(ready, n) = IF n \in M THEN 1 ELSE 0
    <3>1. visits[n] = IF n \in Before(graph, d) THEN 1 ELSE 0
      BY <2>3
    <3>2. ~(n \in Before(graph, d) /\ n \in ToSet(ready))
      BY <1>3, <2>4
    <3> QED  BY <2>2, <3>1, <3>2
  <2> HIDE DEF M
  <2> QED  BY <1>1, <2>5 DEF Counted
<1>7. CASE r.failed
  <2>1. phase' = "done" /\ failed'
    BY <1>1, <1>7
  <2>2. Placed(d + 1)'
    BY <1>1, <1>5, <1>6, <2>1 DEF Placed
  <2> QED  BY <1>4, <2>2 DEF N
<1>8. CASE ~r.failed
  <2>1. phase' = "running" /\ ~failed' /\ ~r.raised
    BY <1>1, <1>8
  <2>2. /\ \A t \in Barriers(graph) \cap graph.nodes : r.arrived[t] = Cardinality(Arrivals(graph, t, M))
        /\ ToSet(r.queue) \subseteq Succ(graph, ToSet(ready))
        /\ \A t \in Succ(graph, ToSet(ready)) :
             t \notin Barriers(graph) \/ Cardinality(Arrivals(graph, t, M)) >= Inbound(graph, t)
               => t \in ToSet(r.queue)
    BY <1>8, <2>1, BatchQueues DEF r
  <2>3. L[d + 1] = Succ(graph, L[d])
    <3>1. d + 1 \in 1 .. N /\ d + 1 - 1 = d
      BY <1>2, <1>4
    <3> QED  BY <1>1, <3>1, LayersRun DEF N
  <2>4. ASSUME NEW t \in Succ(graph, L[d])  PROVE Cardinality(Arrivals(graph, t, M)) >= Inbound(graph, t)
    <3>1. \A i \in DOMAIN graph.edges : graph.edges[i].target = t => graph.edges[i].source \in L[d]
      <4>1. \A i \in DOMAIN graph.edges :
              graph.edges[i].source \in L[d] <=> graph.edges[i].target \in L[d + 1]
        BY <1>1, <1>4, LayerFacts DEF N
      <4> QED  BY <2>3, <2>4, <4>1
    <3>2. Arrivals(graph, t, M) = {i \in DOMAIN graph.edges : graph.edges[i].target = t}
      BY <1>3, <3>1 DEF Arrivals
    <3>3. Cardinality(Arrivals(graph, t, M)) = Inbound(graph, t)
      BY <3>2 DEF Inbound
    <3>4. Inbound(graph, t) \in Nat
      <4>1. {i \in DOMAIN graph.edges : graph.edges[i].target = t} \in SUBSET DOMAIN graph.edges
        OBVIOUS
      <4> QED  BY <1>1, <4>1, GraphFacts, FS_Subset, FS_CardinalityType DEF Inbound
    <3> QED  BY <3>3, <3>4
  <2>5. ToSet(ready') = L[d + 1]
    <3>1. ToSet(r.queue) = Succ(graph, L[d])
      BY <1>3, <2>2, <2>4
    <3> QED  BY <1>1, <2>3, <3>1
  <2>6. Placed(d + 1)'
    <3> HIDE DEF M
    <3>1. visits' = [n \in graph'.nodes |-> IF n \in Before(graph', d + 1) THEN 1 ELSE 0]
      BY <1>1, <1>5, <1>6
    <3>2. \A t \in Barriers(graph') \cap graph'.nodes :
            arrived'[t] = Cardinality(Arrivals(graph', t, Before(graph', d + 1)))
      BY <1>1, <1>5, <2>2
    <3>3. ToSet(ready)' = Layers(graph')[d + 1]
      <4>1. ToSet(ready)' = ToSet(ready')
        BY DEF ToSet
      <4> QED  BY <1>1, <2>5, <4>1
    <3> QED  BY <2>1, <3>1, <3>2, <3>3 DEF Placed
  <2> QED  BY <1>4, <2>6 DEF N
<1> QED  BY <1>7, <1>8

LEMMA EvenlyStays ==
  ASSUME graph' = graph
  PROVE  /\ Evenly(graph)' <=> Evenly(graph)
         /\ \A t : Barriers(graph)' = Barriers(graph)
         /\ Layers(graph)' = Layers(graph)
         /\ \A d : Before(graph, d)' = Before(graph, d)
         /\ \A d, t : Arrivals(graph, t, Before(graph, d))' = Arrivals(graph, t, Before(graph, d))
BY Zenon

LEMMA JoinInvInit == AgentGraphInit => JoinInv
<1> SUFFICES ASSUME AgentGraphInit, Evenly(graph)  PROVE \E d \in 0 .. Cardinality(graph.nodes) : Placed(d)
  BY DEF JoinInv
<1>1. graph \in Graphs
  BY DEF AgentGraphInit
<1>2. 0 \in 0 .. Cardinality(graph.nodes)
  BY <1>1, GraphFacts
<1>3. Before(graph, 0) = {}
  <2>1. 0 .. 0 - 1 = {}
    OBVIOUS
  <2> QED  BY <2>1 DEF Before
<1>4. \A t : Cardinality(Arrivals(graph, t, {})) = 0
  <2>1. \A t : Arrivals(graph, t, {}) = {}
    BY DEF Arrivals
  <2> QED  BY <2>1, FS_EmptySet
<1>5. Placed(0)
  BY <1>3, <1>4 DEF Placed, AgentGraphInit
<1> QED  BY <1>2, <1>5

LEMMA JoinInvNext == GraphInv /\ JoinInv /\ [AgentGraphNext]_agvars => JoinInv'
<1> SUFFICES ASSUME GraphInv, JoinInv, [AgentGraphNext]_agvars,
                    phase' # "raised", Evenly(graph)'
             PROVE  (\E d \in 0 .. Cardinality(graph.nodes) : Placed(d))'
  BY DEF JoinInv
<1>1. graph' = graph
  BY DEF AgentGraphNext, Invoke, RaiseLimit, RunBatch, Advance, Finish, agvars
<1>2. Evenly(graph) /\ graph \in Graphs
  BY <1>1, EvenlyStays DEF GraphInv
<1>3. ASSUME NEW out \in Batches, RunBatch(out)
      PROVE  (\E d \in 0 .. Cardinality(graph.nodes) : Placed(d))'
  <2>1. phase # "raised"
    BY <1>3 DEF RunBatch
  <2>2. PICK d \in 0 .. Cardinality(graph.nodes) : Placed(d)
    BY <1>2, <2>1 DEF JoinInv
  <2>3. d + 1 \in 0 .. Cardinality(graph.nodes) /\ Placed(d + 1)'
    BY <1>2, <1>3, <2>2, BatchPlaces
  <2> QED  BY <1>1, <2>3
<1>4. CASE Invoke
  <2>1. phase = "new" /\ phase' = "running" /\ ready' = <<graph.entry>> /\ UNCHANGED <<visits, arrived, failed>>
    BY <1>4 DEF Invoke
  <2>2. PICK d \in 0 .. Cardinality(graph.nodes) : Placed(d)
    BY <1>2, <2>1 DEF JoinInv
  <2>3. d = 0
    BY <2>1, <2>2 DEF Placed
  <2>4. ToSet(<<graph.entry>>) = {graph.entry} /\ Layers(graph)[0] = {graph.entry}
    <3>1. graph.entry \in graph.nodes
      BY <1>2, EdgesJoin DEF Evenly
    <3>2. <<graph.entry>> \in Seq(graph.nodes) /\ Len(<<graph.entry>>) = 1
      BY <3>1, OneLong
    <3>3. DOMAIN <<graph.entry>> = 1 .. 1
      BY <3>2, Positions
    <3>4. ToSet(<<graph.entry>>) = {graph.entry}
      BY <3>3 DEF ToSet
    <3> QED  BY <1>2, <3>4, LayersRun DEF Evenly
  <2>5. Placed(0)'
    <3>1. ToSet(ready)' = Layers(graph')[0]
      <4>1. ToSet(ready)' = ToSet(ready')
        BY DEF ToSet
      <4> QED  BY <1>1, <2>1, <2>4, <4>1
    <3>2. visits' = [n \in graph'.nodes |-> IF n \in Before(graph', 0) THEN 1 ELSE 0]
      BY <1>1, <2>1, <2>2, <2>3 DEF Placed
    <3>3. \A t \in Barriers(graph') \cap graph'.nodes :
            arrived'[t] = Cardinality(Arrivals(graph', t, Before(graph', 0)))
      BY <1>1, <2>1, <2>2, <2>3 DEF Placed
    <3> QED  BY <2>1, <3>1, <3>2, <3>3 DEF Placed
  <2> QED  BY <1>1, <2>2, <2>3, <2>5
<1>5. CASE RaiseLimit
  BY <1>5 DEF RaiseLimit
<1>6. CASE Finish \/ UNCHANGED agvars
  <2>1. UNCHANGED <<ready, visits, arrived, failed>> /\ phase # "raised"
    BY <1>6 DEF Finish, agvars
  <2>1a. (phase' = phase) \/ (phase = "running" /\ phase' = "done")
    BY <1>6 DEF Finish, agvars
  <2>2. PICK d \in 0 .. Cardinality(graph.nodes) : Placed(d)
    BY <1>2, <2>1 DEF JoinInv
  <2>3. Placed(d)'
    <3>1. visits' = [n \in graph'.nodes |-> IF n \in Before(graph', d) THEN 1 ELSE 0]
      BY <1>1, <2>1, <2>2 DEF Placed
    <3>2. phase' # "done" => \A t \in Barriers(graph') \cap graph'.nodes :
            arrived'[t] = Cardinality(Arrivals(graph', t, Before(graph', d)))
      BY <1>1, <2>1, <2>1a, <2>2 DEF Placed
    <3>3. ToSet(ready)' = ToSet(ready)
      BY <2>1 DEF ToSet
    <3>4. phase' # "new" /\ ~failed' => ToSet(ready)' = Layers(graph')[d]
      BY <1>1, <2>1, <2>1a, <2>2, <3>3 DEF Placed
    <3> QED  BY <2>1a, <2>2, <3>1, <3>2, <3>4 DEF Placed
  <2> QED  BY <1>1, <2>2, <2>3
<1> QED  BY <1>3, <1>4, <1>5, <1>6 DEF AgentGraphNext

LEMMA JoinInvImplies == GraphInv /\ JoinInv => JoinsOnce
<1> SUFFICES ASSUME GraphInv, JoinInv  PROVE JoinsOnce
  OBVIOUS
<1>1. AgentGraphTypeOK
  BY DEF GraphInv, AgentGraphTypeOK
<1>2. ASSUME phase # "raised", Evenly(graph)
      PROVE  /\ \A n \in graph.nodes : visits[n] <= 1
             /\ \A n \in graph.nodes : visits[n] = 1 =>
                  \A m \in graph.nodes : n \in Succ(graph, {m}) => visits[m] = 1
             /\ phase = "done" /\ ~failed /\ ready = <<>> => \A n \in graph.nodes : visits[n] = 1
  <2> DEFINE N == Cardinality(graph.nodes)
             L == Layers(graph)
  <2>0. graph \in Graphs /\ N \in Nat
    BY GraphFacts DEF GraphInv
  <2>1. PICK d \in 0 .. N : Placed(d)
    BY <1>2 DEF JoinInv
  <2> HIDE DEF N, L
  <2>2. \A n \in graph.nodes : visits[n] = IF n \in Before(graph, d) THEN 1 ELSE 0
    BY <2>1 DEF Placed
  <2>3. ASSUME NEW n \in graph.nodes, visits[n] = 1, NEW m \in graph.nodes, n \in Succ(graph, {m})
        PROVE  visits[m] = 1
    <3>1. PICK c \in 0 .. d - 1 : n \in L[c]
      BY <2>2, <2>3 DEF Before, L
    <3>2. PICK b \in 0 .. N : m \in L[b]
      BY <1>2, <2>0, LayerFacts DEF N, L
    <3>3. PICK i \in DOMAIN graph.edges : graph.edges[i].source = m /\ graph.edges[i].target = n
      BY <2>3 DEF Succ
    <3>4. b # N
      BY <1>2, <2>0, <3>2, LayerFacts DEF N, L
    <3>5. b \in 0 .. N - 1 /\ b + 1 \in 0 .. N /\ c \in 0 .. N /\ d \in Nat
      BY <2>0, <3>4
    <3>6. n \in L[b + 1]
      BY <1>2, <2>0, <3>2, <3>3, <3>5, LayerFacts DEF N, L
    <3>7. b + 1 = c
      BY <1>2, <2>0, <3>1, <3>5, <3>6, LayerFacts DEF N, L
    <3>8. b \in 0 .. d - 1
      BY <3>1, <3>2, <3>5, <3>7
    <3>9. m \in Before(graph, d)
      BY <3>2, <3>8 DEF Before, L
    <3> QED  BY <2>2, <3>9
  <2>4. ASSUME phase = "done", ~failed, ready = <<>>, NEW n \in graph.nodes  PROVE visits[n] = 1
    <3>1. ToSet(ready) = L[d]
      BY <2>1, <2>4 DEF Placed, L
    <3>2. L[d] = {}
      BY <2>4, <3>1 DEF ToSet
    <3>3. PICK b \in 0 .. N : n \in L[b]
      BY <1>2, <2>0, LayerFacts DEF N, L
    <3>4. ~(b \in d .. N)
      BY <1>2, <2>0, <3>2, <3>3, LayerFacts DEF N, L
    <3>5. b \in 0 .. d - 1
      BY <2>0, <3>4
    <3>6. n \in Before(graph, d)
      BY <3>3, <3>5 DEF Before, L
    <3> QED  BY <2>2, <3>6
  <2>5. \A n \in graph.nodes : visits[n] <= 1
    BY <2>2
  <2> QED  BY <2>3, <2>4, <2>5
<1> QED  BY <1>1, <1>2 DEF JoinsOnce, Evenly

(* Every join waits for all the branches into it, and runs once, however   *)
(* wide and deep the graph is and in whatever order a batch is listed; a   *)
(* run that nothing cuts short has run every node.                         *)
THEOREM JoinsWaitForBranches == AgentGraphSpec => []JoinsOnce
<1> QED  BY GraphInvInit, GraphInvNext, JoinInvInit, JoinInvNext, JoinInvImplies, PTL DEF AgentGraphSpec
=============================================================================
