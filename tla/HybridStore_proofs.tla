------------------------ MODULE HybridStore_proofs -------------------------
(***************************************************************************)
(* Proofs about the client's write path, for any number of clients,        *)
(* documents, calls and failures.                                          *)
(***************************************************************************)
EXTENDS HybridStore, TLAPS

USE DEF Ids, AllOps, UpdatePcs

(* A step of client c that replaces its record by one of the right type    *)
(* keeps the table of calls well-typed.                                    *)
LEMMA CallUpdate ==
  ASSUME call \in [Clients -> Call], NEW c \in Clients, NEW r \in Call,
         call' = [call EXCEPT ![c] = r]
  PROVE  call' \in [Clients -> Call]
  OBVIOUS

LEMMA IdleType == Idle \in Call
  BY BoundsAssumption DEF Idle, Call

LEMMA BatchCallType ==
  ASSUME NEW op \in AllOps, NEW D \in SUBSET Docs
  PROVE  BatchCall(op, D) \in Call /\ BatchCall(op, D).pc = "await"
  BY IdleType DEF BatchCall, Call

LEMMA UpdateCallType ==
  ASSUME NEW d \in Docs
  PROVE  UpdateCall(d) \in Call /\ UpdateCall(d).doc = d
  BY IdleType DEF UpdateCall, Call

LEMMA VersionType ==
  ASSUME NEW i \in Item \cup {None}
  PROVE  Version(i) \in Nat
  BY NoneAssumption DEF Version, Item

LEMMA DocKnownUpdate ==
  ASSUME call \in [Clients -> Call], DocKnown, NEW c \in Clients, NEW r \in Call,
         call' = [call EXCEPT ![c] = r], r.pc \in UpdatePcs => r.doc \in Docs
  PROVE  DocKnown'
  BY DEF DocKnown

(* The record of a call that starts. *)
LEMMA EnterFacts ==
  ASSUME NEW c, NEW new, Enter(c, new)
  PROVE  /\ started < MaxCalls
         /\ started' = started + 1
         /\ call' = [x \in Clients |->
                       IF x = c
                       THEN [new EXCEPT !.id = started + 1,
                                        !.solo = {d \in new.docs : ~Busy(d)}]
                       ELSE [call[x] EXCEPT !.solo = @ \ new.docs]]
  BY Zenon DEF Enter

(* Entering a call is well-typed. *)
LEMMA EnterType ==
  ASSUME TypeOK, NEW c \in Clients, NEW new \in Call, Enter(c, new),
         new.pc \in UpdatePcs => new.doc \in Docs
  PROVE  /\ call' \in [Clients -> Call] /\ DocKnown'
         /\ started' \in Ids /\ started + 1 \in Ids
<1>. DEFINE Solo == {d \in new.docs : ~Busy(d)}
            Own == [new EXCEPT !.id = started + 1, !.solo = Solo]
            Other(x) == [call[x] EXCEPT !.solo = @ \ new.docs]
<1>1. started' \in Ids /\ started + 1 \in Ids
  <2>1. started < MaxCalls /\ started' = started + 1
    BY EnterFacts
  <2>2. started \in Ids
    BY DEF TypeOK
  <2>. QED BY <2>1, <2>2, BoundsAssumption
<1>2. call' = [x \in Clients |-> IF x = c THEN Own ELSE Other(x)]
  BY Zenon DEF Enter
<1>3. ASSUME NEW x \in Clients
      PROVE  Other(x) \in Call /\ Other(x).pc = call[x].pc /\ Other(x).doc = call[x].doc
  <2>1. call[x] \in Call
    BY DEF TypeOK
  <2>. QED BY <2>1 DEF Call
<1>4. Own \in Call /\ Own.pc = new.pc /\ Own.doc = new.doc
  <2>1. Solo \in SUBSET Docs
    BY DEF Call
  <2>. HIDE DEF Solo
  <2>. QED BY <1>1, <2>1 DEF Call
<1>. HIDE DEF Own, Other
<1>5. call' \in [Clients -> Call]
  BY <1>2, <1>3, <1>4
<1>6. DocKnown'
  <2>1. DocKnown
    BY DEF TypeOK
  <2>. QED BY <1>2, <1>3, <1>4, <2>1 DEF DocKnown
<1>. QED BY <1>1, <1>5, <1>6

(* Leaving a call is well-typed. *)
LEMMA LeaveType ==
  ASSUME TypeOK, NEW c \in Clients, Leave(c)
  PROVE  call' \in [Clients -> Call] /\ DocKnown'
<1>1. Idle.pc \notin UpdatePcs
  BY DEF Idle
<1>. QED BY <1>1, IdleType, DocKnownUpdate DEF Leave, TypeOK

(* The tasks upsert and delete submit are tasks. *)
LEMMA PutTasksType ==
  ASSUME NEW id \in Ids, NEW b \in Seq(SUBSET Docs), NEW ttl \in BOOLEAN
  PROVE  PutTasks(id, b, ttl) \subseteq Task
<1>1. Len(b) \in Nat /\ \A n \in 1 .. Len(b) : b[n] \subseteq Docs
  OBVIOUS
<1>. QED BY <1>1 DEF PutTasks, Task

LEMMA DelTasksType ==
  ASSUME NEW id \in Ids, NEW D \in SUBSET Docs
  PROVE  DelTasks(id, D) \subseteq Task
  BY DEF DelTasks, Task

LEMMA BatchDocsType ==
  ASSUME NEW b \in Seq(SUBSET Docs)
  PROVE  BatchDocs(b) \subseteq Docs
<1>1. \A n \in 1 .. Len(b) : b[n] \subseteq Docs
  OBVIOUS
<1>. QED BY <1>1 DEF BatchDocs

(* What a task writes to a store is well-typed. *)
LEMMA StoreWriteType ==
  ASSUME TypeOK, NEW t \in tasks, NEW d \in t.docs, StoreWrite(t, d)
  PROVE  /\ s3' \in [Docs -> Entry \cup {None}]
         /\ ddb' \in [Docs -> Item \cup {None}]
         /\ epoch' \in [Docs -> Nat]
<1>1. t \in Task /\ d \in Docs
  BY DEF TypeOK, Task
<1>2. [vec |-> t.call, rev |-> t.call] \in Entry
  BY <1>1 DEF Task, Entry
<1>3. [text |-> t.call, rev |-> t.call, version |-> 0, ttl |-> t.ttl] \in Item
  BY <1>1 DEF Task, Item
<1>. QED BY <1>1, <1>2, <1>3 DEF StoreWrite, TypeOK

LEMMA EndedType ==
  ASSUME TypeOK, NEW t \in tasks, NEW s \in {"ok", "err"}
  PROVE  Ended(t, s) \subseteq Task
<1>1. t \in Task
  BY DEF TypeOK
<1>2. [t EXCEPT !.docs = {}, !.status = s] \in Task
  BY <1>1 DEF Task
<1>. QED BY <1>2 DEF Ended, TypeOK

(* The item and the entry an update writes are well-typed. *)
LEMMA NewItemType ==
  ASSUME TypeOK, NEW c \in Clients, NEW ttl \in TTLs
  PROVE  NewItem(c, ttl) \in Item
<1>1. call[c] \in Call /\ ttl \in BOOLEAN
  BY TTLsAssumption DEF TypeOK
<1>2. Version(call[c].read) \in Nat
  BY <1>1, VersionType DEF Call
<1>3. (ttl \/ (call[c].read # None /\ call[c].read.ttl)) \in BOOLEAN
  OBVIOUS
<1>. QED BY <1>1, <1>2, <1>3 DEF NewItem, Call, Item

LEMMA NewEntryType ==
  ASSUME TypeOK, NEW c \in Clients
  PROVE  [vec |-> call[c].vec, rev |-> call[c].id] \in Entry
  BY DEF TypeOK, Call, Entry

----------------------------------------------------------------------------
(* Type correctness, one step per action. *)

(* What is due of a document, after a call that succeeds or raises.        *)
LEMMA UnsettleType ==
  ASSUME settled \in [Docs -> Content \cup {None, Unsettled}], NEW D
  PROVE  Unsettle(D) \in [Docs -> Content \cup {None, Unsettled}]
  BY DEF Unsettle

LEMMA SucceededType ==
  ASSUME TypeOK, NEW c \in Clients
  PROVE  Succeeded(c) \in [Docs -> Content \cup {None, Unsettled}]
<1>. DEFINE id == call[c].id
            done == IF call[c].op = "upsert" THEN [text |-> id, vec |-> id, rev |-> id] ELSE None
<1>1. done \in Content \cup {None, Unsettled}
  BY DEF TypeOK, Call, Content
<1>2. Unsettle(call[c].docs) \in [Docs -> Content \cup {None, Unsettled}]
  BY UnsettleType DEF TypeOK
<1>3. Succeeded(c) = [d \in Docs |-> IF d \in call[c].solo THEN done ELSE Unsettle(call[c].docs)[d]]
  BY DEF Succeeded
<1>. HIDE DEF done
<1>. QED BY <1>1, <1>2, <1>3

LEMMA AmendedType ==
  ASSUME NEW c, call[c].id \in Ids, NEW w \in Content \cup {None, Unsettled}
  PROVE  /\ Amended(c, w) \in Content \cup {None, Unsettled}
         /\ Amended(c, w) # Unsettled => Amended(c, w) # None /\ Amended(c, w).rev = call[c].id
<1>. DEFINE id == call[c].id
            old == IF w = None THEN [text |-> 0, vec |-> 0] ELSE w
            part == [text |-> IF "text" \in call[c].sets THEN id ELSE old.text,
                     vec |-> IF "vec" \in call[c].sets THEN id ELSE old.vec,
                     rev |-> id]
            whole == [text |-> id, vec |-> id, rev |-> id]
<1>1. whole \in Content /\ whole.rev = id
  BY DEF Content
<1>2. w # Unsettled => old.text \in Ids /\ old.vec \in Ids
  <2>1. CASE w = None
    BY <2>1, BoundsAssumption
  <2>2. CASE w \in Content
    BY <2>2, UnsettledAssumption DEF Content
  <2>. QED BY <2>1, <2>2
<1>3. w # Unsettled => part \in Content /\ part.rev = id
  <2>. HIDE DEF old
  <2>. QED BY <1>2 DEF Content
<1>4. Amended(c, w) = IF call[c].sets = {"text", "vec"} THEN whole ELSE IF w = Unsettled THEN Unsettled ELSE part
  BY DEF Amended
<1>. HIDE DEF whole, part
<1>. QED BY <1>1, <1>3, <1>4, UnsettledAssumption

(* The text of an update is its own, or the one it read.                   *)
LEMMA TextForType ==
  ASSUME NEW c, call[c] \in Call, NEW new
  PROVE  TextFor(c, new) \in Ids
<1>1. call[c].id \in Ids /\ call[c].read \in Item \cup {None}
  BY DEF Call
<1>. QED BY <1>1, BoundsAssumption DEF TextFor, Item

LEMMA TypeInit == Init => TypeOK
<1>. SUFFICES ASSUME Init PROVE TypeOK
  OBVIOUS
<1>1. call \in [Clients -> Call] /\ DocKnown
  <2>1. Idle.pc \notin UpdatePcs
    BY DEF Idle
  <2>. QED BY <2>1, IdleType DEF Init, DocKnown
<1>. QED BY <1>1, BoundsAssumption DEF Init, TypeOK

LEMMA TypeNext == TypeOK /\ [Next]_vars => TypeOK'
<1>. SUFFICES ASSUME TypeOK, [Next]_vars PROVE TypeOK'
  OBVIOUS
<1>1. CASE UNCHANGED vars
  BY <1>1 DEF vars, TypeOK, DocKnown
<1>2. ASSUME NEW c \in Clients, Upsert(c) PROVE TypeOK'
  <2>1. PICK b \in Batches, ttl \in TTLs :
          /\ Enter(c, BatchCall("upsert", BatchDocs(b)))
          /\ tasks' = tasks \cup PutTasks(started + 1, b, ttl)
    BY <1>2 DEF Upsert
  <2>2. BatchDocs(b) \subseteq Docs
    BY BatchesAssumption, BatchDocsType
  <2>3. /\ call' \in [Clients -> Call] /\ DocKnown'
        /\ started' \in Ids /\ started + 1 \in Ids
    BY <2>1, <2>2, BatchCallType, EnterType
  <2>4. PutTasks(started + 1, b, ttl) \subseteq Task
    BY <2>3, PutTasksType, BatchesAssumption, TTLsAssumption
  <2>. QED BY <1>2, <2>1, <2>3, <2>4 DEF Upsert, TypeOK
<1>3. ASSUME NEW c \in Clients, Delete(c) PROVE TypeOK'
  <2>1. PICK b \in Batches :
          /\ Enter(c, BatchCall("delete", BatchDocs(b)))
          /\ tasks' = tasks \cup DelTasks(started + 1, BatchDocs(b))
    BY <1>3 DEF Delete
  <2>2. BatchDocs(b) \subseteq Docs
    BY BatchesAssumption, BatchDocsType
  <2>3. /\ call' \in [Clients -> Call] /\ DocKnown'
        /\ started' \in Ids /\ started + 1 \in Ids
    BY <2>1, <2>2, BatchCallType, EnterType
  <2>4. DelTasks(started + 1, BatchDocs(b)) \subseteq Task
    BY <2>2, <2>3, DelTasksType
  <2>. QED BY <1>3, <2>1, <2>3, <2>4 DEF Delete, TypeOK
<1>4. ASSUME NEW c \in Clients, AwaitOk(c) \/ AwaitRaise(c) PROVE TypeOK'
  <2>1. call' \in [Clients -> Call] /\ DocKnown'
    BY <1>4, LeaveType DEF AwaitOk, AwaitRaise
  <2>2. settled' \in [Docs -> Content \cup {None, Unsettled}]
    BY <1>4, SucceededType, UnsettleType DEF AwaitOk, AwaitRaise, TypeOK
  <2>. QED BY <1>4, <2>1, <2>2 DEF AwaitOk, AwaitRaise, TypeOK
<1>5. ASSUME NEW c \in Clients, Update(c) PROVE TypeOK'
  <2>1. PICK d \in Docs : Enter(c, UpdateCall(d))
    BY <1>5 DEF Update
  <2>2. call' \in [Clients -> Call] /\ DocKnown' /\ started' \in Ids
    BY <2>1, UpdateCallType, EnterType
  <2>. QED BY <1>5, <2>2 DEF Update, TypeOK
<1>6. ASSUME NEW c \in Clients, Reject(c) PROVE TypeOK'
  <2>1. call' \in [Clients -> Call] /\ DocKnown'
    BY <1>6, LeaveType DEF Reject
  <2>2. call[c].id \in Ids
    BY DEF TypeOK, Call
  <2>. QED BY <1>6, <2>1, <2>2 DEF Reject, TypeOK
<1>7. ASSUME NEW c \in Clients, UpdateRead(c), ~Reject(c) PROVE TypeOK'
  <2>. DEFINE d == call[c].doc
              r == [call[c] EXCEPT !.pc = "vector", !.read = ddb[d], !.seen = epoch[d]]
  <2>1. /\ call' = [call EXCEPT ![c] = r]
        /\ UNCHANGED <<s3, ddb, tasks, started, faults, epoch, rejected, settled>>
    BY <1>7 DEF UpdateRead
  <2>2. call[c] \in Call /\ d \in Docs
    BY <1>7 DEF TypeOK, DocKnown, UpdateRead
  <2>3. r \in Call /\ r.doc = d
    BY <2>2 DEF TypeOK, Call
  <2>4. call' \in [Clients -> Call] /\ DocKnown'
    BY <2>1, <2>2, <2>3, CallUpdate, DocKnownUpdate DEF TypeOK
  <2>. QED BY <2>1, <2>4 DEF TypeOK
<1>8. ASSUME NEW c \in Clients, UpdateEmbed(c) PROVE TypeOK'
  <2>0. PICK new \in {{"vec"}, {"text", "vec"}} :
          call' = [call EXCEPT ![c].pc = "commit", ![c].text = TextFor(c, new),
                               ![c].vec = call[c].id, ![c].sets = new]
    BY <1>8 DEF UpdateEmbed
  <2>. DEFINE text == TextFor(c, new)
              r == [call[c] EXCEPT !.pc = "commit", !.text = text, !.vec = call[c].id, !.sets = new]
  <2>1. /\ call' = [call EXCEPT ![c] = r]
        /\ UNCHANGED <<s3, ddb, tasks, started, faults, epoch, rejected, settled>>
    BY <1>8, <2>0 DEF UpdateEmbed
  <2>2. call[c] \in Call /\ call[c].doc \in Docs
    BY <1>8 DEF TypeOK, DocKnown, UpdateEmbed
  <2>3. r \in Call /\ r.doc = call[c].doc
    <3>1. text \in Ids
      BY <2>2, TextForType
    <3>. HIDE DEF text
    <3>. QED BY <2>2, <3>1 DEF Call
  <2>4. call' \in [Clients -> Call] /\ DocKnown'
    BY <2>1, <2>2, <2>3, CallUpdate, DocKnownUpdate DEF TypeOK
  <2>. QED BY <2>1, <2>4 DEF TypeOK
<1>9. ASSUME NEW c \in Clients, UpdateFetch(c), ~Reject(c) PROVE TypeOK'
  <2>. DEFINE d == call[c].doc
  <2>a. /\ s3[d] # None
        /\ UNCHANGED <<s3, ddb, tasks, started, faults, epoch, rejected, settled>>
        /\ \E new \in {{}, {"text"}} :
             call' = [call EXCEPT ![c].pc = "commit", ![c].text = TextFor(c, new),
                                  ![c].vec = s3[d].vec, ![c].sets = new]
    BY <1>9, ZenonT(30) DEF UpdateFetch
  <2>0. PICK new \in {{}, {"text"}} :
          call' = [call EXCEPT ![c].pc = "commit", ![c].text = TextFor(c, new),
                               ![c].vec = s3[d].vec, ![c].sets = new]
    BY <2>a
  <2>. DEFINE text == TextFor(c, new)
              r == [call[c] EXCEPT !.pc = "commit", !.text = text, !.vec = s3[d].vec, !.sets = new]
  <2>1. /\ call' = [call EXCEPT ![c] = r]
        /\ s3[d] # None
        /\ UNCHANGED <<s3, ddb, tasks, started, faults, epoch, rejected, settled>>
    BY <2>a, <2>0
  <2>2. call[c] \in Call /\ d \in Docs
    BY <1>9 DEF TypeOK, DocKnown, UpdateFetch
  <2>3. s3[d].vec \in Ids
    BY <2>1, <2>2 DEF TypeOK, Entry
  <2>4. text \in Ids
    BY <2>2, TextForType
  <2>. HIDE DEF text
  <2>5. r \in Call /\ r.doc = d
    BY <2>2, <2>3, <2>4 DEF Call
  <2>6. call' \in [Clients -> Call] /\ DocKnown'
    BY <2>1, <2>2, <2>5, CallUpdate, DocKnownUpdate DEF TypeOK
  <2>. QED BY <2>1, <2>6 DEF TypeOK
<1>10. ASSUME NEW c \in Clients, UpdateCommit(c), ~Reject(c) PROVE TypeOK'
  <2>. DEFINE d == call[c].doc
              r == [call[c] EXCEPT !.pc = "put"]
  <2>1. /\ \E ttl \in TTLs : ddb' = [ddb EXCEPT ![d] = NewItem(c, ttl)]
        /\ call' = [call EXCEPT ![c] = r]
        /\ UNCHANGED <<s3, tasks, started, faults, epoch, rejected, settled>>
    BY <1>10 DEF UpdateCommit
  <2>2. call[c] \in Call /\ d \in Docs
    BY <1>10 DEF TypeOK, DocKnown, UpdateCommit
  <2>3. r \in Call /\ r.doc = d
    BY <2>2 DEF Call
  <2>4. call' \in [Clients -> Call] /\ DocKnown'
    BY <2>1, <2>2, <2>3, CallUpdate, DocKnownUpdate DEF TypeOK
  <2>5. ddb' \in [Docs -> Item \cup {None}]
    <3>1. PICK ttl \in TTLs : ddb' = [ddb EXCEPT ![d] = NewItem(c, ttl)]
      BY <2>1
    <3>2. NewItem(c, ttl) \in Item
      BY NewItemType
    <3>. QED BY <3>1, <3>2 DEF TypeOK
  <2>. QED BY <2>1, <2>4, <2>5 DEF TypeOK
<1>11. ASSUME NEW c \in Clients, UpdatePut(c) PROVE TypeOK'
  <2>1. call' \in [Clients -> Call] /\ DocKnown'
    BY <1>11, LeaveType DEF UpdatePut
  <2>2. s3' \in [Docs -> Entry \cup {None}]
    BY <1>11, NewEntryType DEF UpdatePut, TypeOK
  <2>3. call[c].doc \in Docs /\ call[c].id \in Ids
    BY <1>11 DEF UpdatePut, TypeOK, DocKnown, Call
  <2>4. settled' \in [Docs -> Content \cup {None, Unsettled}]
    <3>. DEFINE w == settled[call[c].doc]
    <3>1. w \in Content \cup {None, Unsettled}
      BY <2>3 DEF TypeOK
    <3>2. Amended(c, w) \in Content \cup {None, Unsettled}
      BY <2>3, <3>1, AmendedType
    <3>. QED BY <1>11, <2>3, <3>2 DEF UpdatePut, TypeOK
  <2>. QED BY <1>11, <2>1, <2>2, <2>4 DEF UpdatePut, TypeOK
<1>12. ASSUME NEW c \in Clients, UpdateFault(c) PROVE TypeOK'
  <2>1. call' \in [Clients -> Call] /\ DocKnown'
    BY <1>12, LeaveType DEF UpdateFault
  <2>2. /\ s3' \in [Docs -> Entry \cup {None}]
        /\ ddb' \in [Docs -> Item \cup {None}]
    BY <1>12, NewEntryType, NewItemType DEF UpdateFault, TypeOK
  <2>3. settled' \in [Docs -> Content \cup {None, Unsettled}]
    BY <1>12, UnsettleType DEF UpdateFault, TypeOK
  <2>4. faults' \in 0 .. MaxFaults
    BY <1>12, BoundsAssumption DEF UpdateFault, TypeOK
  <2>. QED BY <1>12, <2>1, <2>2, <2>3, <2>4 DEF UpdateFault, TypeOK
<1>13. ASSUME NEW t \in tasks, TaskApply(t) PROVE TypeOK'
  <2>1. PICK d \in t.docs :
          /\ StoreWrite(t, d)
          /\ tasks' = IF t.docs = {d} THEN Ended(t, "ok")
                      ELSE (tasks \ {t}) \cup {[t EXCEPT !.docs = @ \ {d}]}
    BY <1>13 DEF TaskApply
  <2>2. t \in Task
    BY DEF TypeOK
  <2>3. [t EXCEPT !.docs = @ \ {d}] \in Task
    BY <2>2 DEF Task
  <2>4. tasks' \subseteq Task
    BY <2>1, <2>3, EndedType DEF TypeOK
  <2>5. UNCHANGED <<call, started, faults, rejected, settled>>
    BY <1>13 DEF TaskApply
  <2>. QED BY <2>1, <2>4, <2>5, StoreWriteType DEF TypeOK, DocKnown
<1>14. ASSUME NEW t \in tasks, TaskFail(t) PROVE TypeOK'
  <2>1. tasks' \subseteq Task
    BY <1>14, EndedType DEF TaskFail
  <2>2. /\ s3' \in [Docs -> Entry \cup {None}]
        /\ ddb' \in [Docs -> Item \cup {None}]
        /\ epoch' \in [Docs -> Nat]
    BY <1>14, StoreWriteType DEF TaskFail, TypeOK
  <2>3. faults' \in 0 .. MaxFaults
    BY <1>14, BoundsAssumption DEF TaskFail, TypeOK
  <2>4. UNCHANGED <<call, started, rejected, settled>>
    BY <1>14 DEF TaskFail
  <2>. QED BY <2>1, <2>2, <2>3, <2>4 DEF TypeOK, DocKnown
<1>15. ASSUME NEW d \in Docs, Expire(d) PROVE TypeOK'
  <2>1. ASSUME NEW c \in Clients
        PROVE  LET r == [call[c] EXCEPT !.solo = @ \ {d}]
               IN r \in Call /\ r.pc = call[c].pc /\ r.doc = call[c].doc
    <3>1. call[c] \in Call
      BY DEF TypeOK
    <3>. QED BY <3>1 DEF Call
  <2>2. call' = [c \in Clients |-> [call[c] EXCEPT !.solo = @ \ {d}]]
    BY <1>15, Zenon DEF Expire
  <2>3. call' \in [Clients -> Call] /\ DocKnown'
    BY <2>1, <2>2 DEF TypeOK, DocKnown
  <2>4. /\ ddb' = [ddb EXCEPT ![d] = None]
        /\ epoch' = [epoch EXCEPT ![d] = @ + 1]
        /\ settled' = Unsettle({d})
        /\ UNCHANGED <<s3, tasks, started, faults, rejected>>
    BY <1>15, Zenon DEF Expire
  <2>. QED BY <2>3, <2>4, UnsettleType DEF TypeOK
<1>. QED
  BY <1>1, <1>2, <1>3, <1>4, <1>5, <1>6, <1>7, <1>8, <1>9, <1>10, <1>11, <1>12,
     <1>13, <1>14, <1>15
  DEF Next, ClientStep, TaskStep

(* Type correctness of the write path, for all values of the constants. *)
THEOREM TypeCorrect == Spec => []TypeOK
  BY TypeInit, TypeNext, PTL DEF Spec

----------------------------------------------------------------------------
(* No lost update.  The strengthening speaks of the calls that have read   *)
(* but not yet written: as long as the epoch of the document stands, its   *)
(* stored version can only have grown since the read, and has grown if     *)
(* anything was written.  Equal versions then mean the very same item,     *)
(* which is what put_versioned's condition relies on.                      *)

Reading(c) == call[c].pc \in {"vector", "commit"}

ReadTracked(c) ==
  LET d == call[c].doc
  IN /\ call[c].seen <= epoch[d]
     /\ call[c].seen = epoch[d] =>
          /\ Version(call[c].read) <= Version(ddb[d])
          /\ Version(call[c].read) = Version(ddb[d]) => call[c].read = ddb[d]

OccInv == \A c \in Clients : Reading(c) => ReadTracked(c)

(* A call whose record kept its read and whose document kept its item and  *)
(* epoch stays tracked.                                                    *)
LEMMA TrackedStutter ==
  ASSUME TypeOK, NEW c \in Clients, Reading(c), ReadTracked(c),
         call'[c].doc = call[c].doc, call'[c].read = call[c].read,
         call'[c].seen = call[c].seen,
         ddb'[call[c].doc] = ddb[call[c].doc], epoch'[call[c].doc] = epoch[call[c].doc]
  PROVE  ReadTracked(c)'
  BY DEF ReadTracked, Version

(* An unversioned change ends the epoch. *)
LEMMA TrackedNewEpoch ==
  ASSUME TypeOK, NEW c \in Clients, Reading(c), ReadTracked(c),
         call'[c].doc = call[c].doc, call'[c].seen = call[c].seen,
         epoch'[call[c].doc] = epoch[call[c].doc] + 1
  PROVE  ReadTracked(c)'
<1>1. call[c] \in Call /\ call[c].doc \in Docs
  BY DEF TypeOK, DocKnown, Reading
<1>2. call[c].seen \in Nat /\ epoch[call[c].doc] \in Nat
  BY <1>1 DEF TypeOK, Call
<1>. QED BY <1>2 DEF ReadTracked

(* A conditional write by another call raises the version. *)
LEMMA TrackedCommit ==
  ASSUME TypeOK, NEW c \in Clients, Reading(c), ReadTracked(c),
         call'[c].doc = call[c].doc, call'[c].read = call[c].read,
         call'[c].seen = call[c].seen, epoch' = epoch,
         Version(ddb'[call[c].doc]) = Version(ddb[call[c].doc]) + 1
  PROVE  ReadTracked(c)'
<1>1. call[c] \in Call /\ call[c].doc \in Docs
  BY DEF TypeOK, DocKnown, Reading
<1>2. Version(call[c].read) \in Nat /\ Version(ddb[call[c].doc]) \in Nat
  BY <1>1, VersionType DEF TypeOK, Call
<1>3. Version(call'[c].read) = Version(call[c].read)
  OBVIOUS
<1>. QED BY <1>2, <1>3 DEF ReadTracked

(* What the conditional write stores. *)
LEMMA NewItemVersion ==
  ASSUME TypeOK, NEW c \in Clients, NEW ttl \in TTLs, Condition(c)
  PROVE  Version(NewItem(c, ttl)) = Version(ddb[call[c].doc]) + 1
<1>1. NewItem(c, ttl) # None
  BY NewItemType, NoneAssumption
<1>2. NewItem(c, ttl).version = Version(call[c].read) + 1
  BY DEF NewItem
<1>. QED BY <1>1, <1>2 DEF Version, Condition

LEMMA OccInit == Init => OccInv
  BY DEF Init, OccInv, Reading, Idle

(* A call that starts leaves the reads of the others alone. *)
LEMMA EnterKeepsReads ==
  ASSUME TypeOK, NEW x \in Clients, NEW new \in Call, Enter(x, new),
         new.pc \notin {"vector", "commit"}, NEW c \in Clients, Reading(c)'
  PROVE  /\ Reading(c)
         /\ call'[c].doc = call[c].doc /\ call'[c].read = call[c].read
         /\ call'[c].seen = call[c].seen
<1>. DEFINE Solo == {d \in new.docs : ~Busy(d)}
            Own == [new EXCEPT !.id = started + 1, !.solo = Solo]
            Other(y) == [call[y] EXCEPT !.solo = @ \ new.docs]
<1>1. call' = [y \in Clients |-> IF y = x THEN Own ELSE Other(y)]
  BY Zenon DEF Enter
<1>2. call[c] \in Call
  BY DEF TypeOK
<1>. HIDE DEF Solo
<1>3. Own.pc = new.pc
  BY DEF Call
<1>4. /\ Other(c).pc = call[c].pc /\ Other(c).doc = call[c].doc
      /\ Other(c).read = call[c].read /\ Other(c).seen = call[c].seen
  BY <1>2 DEF Call
<1>. HIDE DEF Own, Other
<1>5. c # x
  BY <1>1, <1>3 DEF Reading
<1>6. call'[c] = Other(c)
  BY <1>1, <1>5
<1>. QED BY <1>4, <1>6 DEF Reading

(* A call that ends is no longer reading, and the others keep their record.*)
LEMMA LeaveKeepsReads ==
  ASSUME TypeOK, NEW x \in Clients, Leave(x), NEW c \in Clients, Reading(c)'
  PROVE  c # x /\ call'[c] = call[c] /\ Reading(c)
<1>1. Idle.pc \notin {"vector", "commit"}
  BY DEF Idle
<1>. QED BY <1>1 DEF Leave, Reading, TypeOK

(* What a task does to DynamoDB ends the epoch of the document it reaches. *)
LEMMA StoreWriteTracked ==
  ASSUME TypeOK, NEW t \in tasks, NEW e \in t.docs, StoreWrite(t, e), UNCHANGED call,
         NEW c \in Clients, Reading(c), ReadTracked(c)
  PROVE  ReadTracked(c)'
<1>1. call[c].doc \in Docs
  BY DEF TypeOK, DocKnown, Reading
<1>2. CASE UNCHANGED <<ddb, epoch>>
  BY <1>2, TrackedStutter
<1>3. CASE /\ epoch' = [epoch EXCEPT ![e] = @ + 1]
           /\ \A d \in Docs : d # e => ddb'[d] = ddb[d]
  <2>1. CASE call[c].doc = e
    BY <1>1, <1>3, <2>1, TrackedNewEpoch DEF TypeOK
  <2>2. CASE call[c].doc # e
    BY <1>1, <1>3, <2>2, TrackedStutter DEF TypeOK
  <2>. QED BY <2>1, <2>2
<1>. QED BY <1>2, <1>3 DEF StoreWrite, TypeOK

(* A conditional write by another call keeps every reader tracked. *)
LEMMA CommitTracked ==
  ASSUME TypeOK, NEW x \in Clients, Condition(x), call[x].doc \in Docs, NEW ttl \in TTLs,
         ddb' = [ddb EXCEPT ![call[x].doc] = NewItem(x, ttl)], UNCHANGED epoch,
         NEW c \in Clients, Reading(c), ReadTracked(c), call'[c] = call[c]
  PROVE  ReadTracked(c)'
<1>1. call[c].doc \in Docs
  BY DEF TypeOK, DocKnown, Reading
<1>2. CASE call[c].doc = call[x].doc
  <2>1. ddb'[call[c].doc] = NewItem(x, ttl)
    BY <1>1, <1>2 DEF TypeOK
  <2>2. Version(ddb'[call[c].doc]) = Version(ddb[call[c].doc]) + 1
    BY <1>2, <2>1, NewItemVersion
  <2>. QED BY <2>2, TrackedCommit
<1>3. CASE call[c].doc # call[x].doc
  BY <1>1, <1>3, TrackedStutter DEF TypeOK
<1>. QED BY <1>2, <1>3

LEMMA OccNext == TypeOK /\ OccInv /\ [Next]_vars => OccInv'
<1>. SUFFICES ASSUME TypeOK, OccInv, [Next]_vars, NEW c \in Clients, Reading(c)'
              PROVE  ReadTracked(c)'
  BY DEF OccInv
<1>. DEFINE Kept == /\ Reading(c)
                    /\ call'[c].doc = call[c].doc /\ call'[c].read = call[c].read
                    /\ call'[c].seen = call[c].seen
<1>0. ASSUME Kept, UNCHANGED <<ddb, epoch>> PROVE ReadTracked(c)'
  BY <1>0, TrackedStutter DEF OccInv
<1>1. CASE UNCHANGED vars
  BY <1>0, <1>1 DEF vars, Reading
<1>2. ASSUME NEW x \in Clients, Upsert(x) PROVE ReadTracked(c)'
  <2>1. PICK b \in Batches : Enter(x, BatchCall("upsert", BatchDocs(b)))
    BY <1>2 DEF Upsert
  <2>2. Kept
    BY <2>1, BatchesAssumption, BatchDocsType, BatchCallType, EnterKeepsReads
  <2>. QED BY <1>0, <1>2, <2>2 DEF Upsert
<1>3. ASSUME NEW x \in Clients, Delete(x) PROVE ReadTracked(c)'
  <2>1. PICK b \in Batches : Enter(x, BatchCall("delete", BatchDocs(b)))
    BY <1>3 DEF Delete
  <2>2. Kept
    BY <2>1, BatchesAssumption, BatchDocsType, BatchCallType, EnterKeepsReads
  <2>. QED BY <1>0, <1>3, <2>2 DEF Delete
<1>4. ASSUME NEW x \in Clients, Update(x) PROVE ReadTracked(c)'
  <2>1. PICK d \in Docs : Enter(x, UpdateCall(d))
    BY <1>4 DEF Update
  <2>2. UpdateCall(d).pc = "read"
    BY DEF UpdateCall, Idle
  <2>3. Kept
    BY <2>1, <2>2, UpdateCallType, EnterKeepsReads
  <2>. QED BY <1>0, <1>4, <2>3 DEF Update
<1>5. ASSUME NEW x \in Clients, AwaitOk(x) \/ AwaitRaise(x) \/ Reject(x) \/ UpdatePut(x)
      PROVE  ReadTracked(c)'
  BY <1>0, <1>5, LeaveKeepsReads DEF AwaitOk, AwaitRaise, Reject, UpdatePut
<1>6. ASSUME NEW x \in Clients, UpdateRead(x), ~Reject(x) PROVE ReadTracked(c)'
  <2>. DEFINE d == call[x].doc
              r == [call[x] EXCEPT !.pc = "vector", !.read = ddb[d], !.seen = epoch[d]]
  <2>1. /\ call' = [call EXCEPT ![x] = r]
        /\ UNCHANGED <<ddb, epoch>>
    BY <1>6 DEF UpdateRead
  <2>2. call[x] \in Call /\ d \in Docs
    BY <1>6 DEF TypeOK, DocKnown, UpdateRead
  <2>3. CASE c = x
    <3>1. r.doc = d /\ r.read = ddb[d] /\ r.seen = epoch[d]
      BY <2>2 DEF Call
    <3>2. call'[c] = r
      BY <2>1, <2>3 DEF TypeOK
    <3>3. call'[c].doc = d /\ call'[c].read = ddb'[d] /\ call'[c].seen = epoch'[d]
      BY <2>1, <3>1, <3>2
    <3>4. Version(ddb[d]) \in Nat /\ epoch[d] \in Nat
      BY <2>2, VersionType DEF TypeOK
    <3>. QED BY <2>1, <3>3, <3>4 DEF ReadTracked, Version
  <2>4. CASE c # x
    BY <1>0, <2>1, <2>4 DEF TypeOK, Reading
  <2>. QED BY <2>3, <2>4
<1>7. ASSUME NEW x \in Clients, UpdateEmbed(x) \/ (UpdateFetch(x) /\ ~Reject(x))
      PROVE  ReadTracked(c)'
  <2>1. call[x] \in Call
    BY DEF TypeOK
  <2>2. \E r : /\ call' = [call EXCEPT ![x] = r]
              /\ r.doc = call[x].doc /\ r.read = call[x].read /\ r.seen = call[x].seen
    <3>1. CASE UpdateEmbed(x)
      <4>1. PICK new \in {{"vec"}, {"text", "vec"}} :
              call' = [call EXCEPT ![x].pc = "commit", ![x].text = TextFor(x, new),
                                   ![x].vec = call[x].id, ![x].sets = new]
        BY <3>1 DEF UpdateEmbed
      <4>. DEFINE text == TextFor(x, new)
                  r == [call[x] EXCEPT !.pc = "commit", !.text = text,
                                       !.vec = call[x].id, !.sets = new]
      <4>2. call' = [call EXCEPT ![x] = r]
        BY <4>1
      <4>. HIDE DEF text
      <4>3. r.doc = call[x].doc /\ r.read = call[x].read /\ r.seen = call[x].seen
        BY <2>1 DEF Call
      <4>. QED BY <4>2, <4>3
    <3>2. CASE UpdateFetch(x) /\ ~Reject(x)
      <4>0. \E new \in {{}, {"text"}} :
              call' = [call EXCEPT ![x].pc = "commit", ![x].text = TextFor(x, new),
                                   ![x].vec = s3[call[x].doc].vec, ![x].sets = new]
        BY <3>2, ZenonT(30) DEF UpdateFetch
      <4>1. PICK new \in {{}, {"text"}} :
              call' = [call EXCEPT ![x].pc = "commit", ![x].text = TextFor(x, new),
                                   ![x].vec = s3[call[x].doc].vec, ![x].sets = new]
        BY <4>0
      <4>. DEFINE text == TextFor(x, new)
                  vec == s3[call[x].doc].vec
                  r == [call[x] EXCEPT !.pc = "commit", !.text = text,
                                       !.vec = vec, !.sets = new]
      <4>2. call' = [call EXCEPT ![x] = r]
        BY <4>1
      <4>. HIDE DEF text, vec
      <4>3. r.doc = call[x].doc /\ r.read = call[x].read /\ r.seen = call[x].seen
        BY <2>1 DEF Call
      <4>. QED BY <4>2, <4>3
    <3>. QED BY <1>7, <3>1, <3>2
  <2>3. call[x].pc = "vector" /\ UNCHANGED <<ddb, epoch>>
    BY <1>7 DEF UpdateEmbed, UpdateFetch, Reject
  <2>4. Kept
    BY <2>2, <2>3 DEF TypeOK, Reading
  <2>. QED BY <1>0, <2>3, <2>4
<1>8. ASSUME NEW x \in Clients, UpdateCommit(x), ~Reject(x) PROVE ReadTracked(c)'
  <2>1. /\ Condition(x)
        /\ \E ttl \in TTLs : ddb' = [ddb EXCEPT ![call[x].doc] = NewItem(x, ttl)]
        /\ call' = [call EXCEPT ![x] = [call[x] EXCEPT !.pc = "put"]]
        /\ UNCHANGED epoch
    BY <1>8 DEF UpdateCommit
  <2>2. call[x] \in Call /\ call[x].doc \in Docs
    BY <1>8 DEF TypeOK, DocKnown, UpdateCommit
  <2>3. c # x
    BY <2>1, <2>2 DEF TypeOK, Call, Reading
  <2>4. call'[c] = call[c] /\ Reading(c)
    BY <2>1, <2>3 DEF TypeOK, Reading
  <2>. QED BY <2>1, <2>2, <2>4, CommitTracked DEF OccInv
<1>9. ASSUME NEW x \in Clients, UpdateFault(x) PROVE ReadTracked(c)'
  <2>1. call'[c] = call[c] /\ Reading(c)
    BY <1>9, LeaveKeepsReads DEF UpdateFault
  <2>2. UNCHANGED epoch /\ call[x].doc \in Docs
    BY <1>9 DEF UpdateFault, TypeOK, DocKnown
  <2>3. CASE UNCHANGED ddb
    BY <1>0, <2>1, <2>2, <2>3
  <2>4. CASE /\ Condition(x)
             /\ \E ttl \in TTLs : ddb' = [ddb EXCEPT ![call[x].doc] = NewItem(x, ttl)]
    BY <2>1, <2>2, <2>4, CommitTracked DEF OccInv
  <2>. QED BY <1>9, <2>3, <2>4 DEF UpdateFault
<1>10. ASSUME NEW t \in tasks, TaskApply(t) \/ TaskFail(t) PROVE ReadTracked(c)'
  <2>1. UNCHANGED call
    BY <1>10 DEF TaskApply, TaskFail
  <2>2. Kept
    BY <2>1 DEF Reading
  <2>3. CASE UNCHANGED <<ddb, epoch>>
    BY <1>0, <2>2, <2>3
  <2>4. CASE \E e \in t.docs : StoreWrite(t, e)
    BY <2>1, <2>2, <2>4, StoreWriteTracked DEF OccInv
  <2>. QED BY <1>10, <2>3, <2>4 DEF TaskApply, TaskFail
<1>11. ASSUME NEW e \in Docs, Expire(e) PROVE ReadTracked(c)'
  <2>1. /\ ddb' = [ddb EXCEPT ![e] = None]
        /\ epoch' = [epoch EXCEPT ![e] = @ + 1]
        /\ call' = [x \in Clients |-> [call[x] EXCEPT !.solo = @ \ {e}]]
    BY <1>11, Zenon DEF Expire
  <2>2. Kept
    <3>1. call'[c] = [call[c] EXCEPT !.solo = @ \ {e}]
      BY <2>1
    <3>2. call[c] \in Call
      BY DEF TypeOK
    <3>. QED BY <3>1, <3>2 DEF Call, Reading
  <2>3. call[c].doc \in Docs
    BY <2>2 DEF TypeOK, DocKnown, Reading
  <2>4. CASE call[c].doc = e
    BY <2>1, <2>2, <2>3, <2>4, TrackedNewEpoch DEF TypeOK, OccInv
  <2>5. CASE call[c].doc # e
    BY <2>1, <2>2, <2>3, <2>5, TrackedStutter DEF TypeOK, OccInv
  <2>. QED BY <2>4, <2>5
<1>. QED
  BY <1>1, <1>2, <1>3, <1>4, <1>5, <1>6, <1>7, <1>8, <1>9, <1>10, <1>11
  DEF Next, ClientStep, TaskStep

(* A conditional write that succeeds is a step of its own call, taken with *)
(* the condition true.                                                     *)
LEMMA CommitsUnderCondition ==
  ASSUME TypeOK, [Next]_vars, NEW c \in Clients, Commits(c)
  PROVE  Condition(c)
<1>. USE DEF Commits
<1>1. call[c].pc = "commit" /\ call[c] \in Call /\ call[c].doc \in Docs
  BY DEF TypeOK, DocKnown
<1>2. ASSUME NEW x \in Clients, ClientStep(x), ~Reject(x),
             ~Upsert(x), ~Delete(x), ~Update(x)
      PROVE  Condition(c)
  <2>1. CASE x = c
    BY <1>1, <1>2, <2>1 DEF ClientStep, AwaitOk, AwaitRaise, UpdateRead, UpdateEmbed,
                           UpdateFetch, UpdateCommit, UpdatePut, UpdateFault
  <2>2. CASE x # c
    <3>1. call'[c] = call[c]
      BY <1>2, <2>2 DEF ClientStep, AwaitOk, AwaitRaise, UpdateRead, UpdateEmbed,
                        UpdateFetch, UpdateCommit, UpdatePut, UpdateFault, Leave, TypeOK
    <3>. QED BY <3>1
  <2>. QED BY <2>1, <2>2
<1>3. ASSUME NEW x \in Clients, Reject(x) \/ Upsert(x) \/ Delete(x) \/ Update(x)
      PROVE  FALSE
  BY <1>3, <1>1 DEF Reject, Upsert, Delete, Update
<1>4. ASSUME NEW t \in tasks, TaskStep(t) PROVE FALSE
  BY <1>4 DEF TaskStep, TaskApply, TaskFail
<1>5. ASSUME NEW e \in Docs, Expire(e) PROVE FALSE
  <2>1. call'[c] = [call[c] EXCEPT !.solo = @ \ {e}]
    BY <1>5, Zenon DEF Expire
  <2>. QED BY <1>1, <2>1 DEF Call
<1>6. CASE UNCHANGED vars
  BY <1>6 DEF vars
<1>. QED BY <1>2, <1>3, <1>4, <1>5, <1>6 DEF Next

LEMMA OccStep ==
  ASSUME TypeOK, OccInv, [Next]_vars, NEW c \in Clients, Commits(c)
  PROVE  \/ ddb[call[c].doc] = call[c].read
         \/ epoch[call[c].doc] # call[c].seen
<1>1. Condition(c) /\ Reading(c)
  BY CommitsUnderCondition DEF Commits, Reading
<1>. QED BY <1>1 DEF OccInv, ReadTracked, Condition

(* update() never loses another update: in every behaviour, whatever the   *)
(* clients, failures and expiries, a conditional write replaces the very   *)
(* item its call read, unless an unversioned change came between.          *)
THEOREM UpdatesAreNotLost == Spec => NoLostUpdate
<1>. DEFINE Step == \A c \in Clients :
                      Commits(c) => \/ ddb[call[c].doc] = call[c].read
                                    \/ epoch[call[c].doc] # call[c].seen
<1>1. TypeOK /\ OccInv /\ [Next]_vars => [Step]_vars
  BY OccStep
<1>2. Init => TypeOK /\ OccInv
  BY TypeInit, OccInit
<1>3. TypeOK /\ OccInv /\ [Next]_vars => TypeOK' /\ OccInv'
  BY TypeNext, OccNext
<1>. QED BY <1>1, <1>2, <1>3, PTL DEF Spec, NoLostUpdate

----------------------------------------------------------------------------
(* A rejected update writes nothing.  A call that has not committed is in  *)
(* the same position as one that has not begun and one that was rejected:  *)
(* its identifier is free, and a free identifier is nowhere in the stores, *)
(* in no task, and in no call but its own.                                 *)

Pending(c) == call[c].pc \in {"read", "vector", "commit"}

Free(i) == \/ i > started
           \/ i \in rejected
           \/ \E c \in Clients : Pending(c) /\ call[c].id = i

InNoStore(i) ==
  \A d \in Docs : /\ s3[d] # None => s3[d].rev # i /\ s3[d].vec # i
                  /\ ddb[d] # None => ddb[d].rev # i /\ ddb[d].text # i

InNoTask(i) == \A t \in tasks : t.call # i

InNoOther(i) ==
  \A c \in Clients : /\ call[c].read # None => call[c].read.text # i
                     /\ call[c].id # i => call[c].text # i /\ call[c].vec # i

FreeUnused == \A i \in Ids : Free(i) => InNoStore(i) /\ InNoTask(i) /\ InNoOther(i)

(* Identifiers begin at 1, and no two calls have the same.                 *)
IdsOwned ==
  /\ \A c \in Clients : call[c].pc # "idle" => call[c].id \in 1 .. started /\ call[c].id \notin rejected
  /\ \A c, d \in Clients : c # d /\ call[c].pc # "idle" /\ call[d].pc # "idle" => call[c].id # call[d].id
  /\ rejected \subseteq 1 .. started

RejectInv == TypeOK /\ IdsOwned /\ FreeUnused

LEMMA IdleFacts ==
  /\ Idle.pc = "idle" /\ Idle.id = 0 /\ Idle.read = None /\ Idle.text = 0 /\ Idle.vec = 0
  BY DEF Idle

LEMMA RejectInit == Init => RejectInv
<1>. SUFFICES ASSUME Init PROVE RejectInv
  OBVIOUS
<1>1. \A c \in Clients : call[c] = Idle
  BY DEF Init
<1>2. TypeOK
  BY TypeInit
<1>3. IdsOwned
  BY <1>1, IdleFacts DEF Init, IdsOwned
<1>4. FreeUnused
  <2>. SUFFICES ASSUME NEW i \in Ids, Free(i) PROVE InNoStore(i) /\ InNoTask(i) /\ InNoOther(i)
    BY DEF FreeUnused
  <2>1. i # 0
    BY <1>1, IdleFacts DEF Init, Free, Pending
  <2>. QED BY <1>1, <2>1, IdleFacts DEF Init, InNoStore, InNoTask, InNoOther
<1>. QED BY <1>2, <1>3, <1>4 DEF RejectInv

(* The step of a call that starts, but for the tasks it submits.           *)
LEMMA EnterKeepsFree ==
  ASSUME RejectInv, NEW c \in Clients, NEW new \in Call, Enter(c, new),
         new.pc \in {"await", "read"}, new.read = None, new.text = 0, new.vec = 0,
         UNCHANGED <<s3, ddb, rejected>>
  PROVE  /\ IdsOwned'
         /\ \A i \in Ids : Free(i)' =>
              /\ Free(i) /\ InNoStore(i)' /\ InNoOther(i)'
              /\ i = started + 1 => new.pc = "read"
<1>. DEFINE Solo == {d \in new.docs : ~Busy(d)}
            Own == [new EXCEPT !.id = started + 1, !.solo = Solo]
            Other(y) == [call[y] EXCEPT !.solo = @ \ new.docs]
<1>1. call' = [y \in Clients |-> IF y = c THEN Own ELSE Other(y)]
  BY Zenon DEF Enter
<1>. HIDE DEF Solo
<1>2. Own.pc = new.pc /\ Own.id = started + 1 /\ Own.read = None /\ Own.text = 0 /\ Own.vec = 0
  BY DEF Call
<1>3. ASSUME NEW y \in Clients
      PROVE  /\ Other(y).pc = call[y].pc /\ Other(y).id = call[y].id /\ Other(y).read = call[y].read
             /\ Other(y).text = call[y].text /\ Other(y).vec = call[y].vec
  <2>1. call[y] \in Call
    BY DEF RejectInv, TypeOK
  <2>. QED BY <2>1 DEF Call
<1>. HIDE DEF Own, Other
<1>4. /\ call'[c].pc = new.pc /\ call'[c].id = started + 1 /\ call'[c].read = None
      /\ call'[c].text = 0 /\ call'[c].vec = 0
  BY <1>1, <1>2
<1>5. \A y \in Clients : y # c =>
        /\ call'[y].pc = call[y].pc /\ call'[y].id = call[y].id /\ call'[y].read = call[y].read
        /\ call'[y].text = call[y].text /\ call'[y].vec = call[y].vec
  BY <1>1, <1>3
<1>6. started' = started + 1 /\ started \in Nat
  <2>1. started' = started + 1
    BY EnterFacts
  <2>2. started \in Nat
    BY BoundsAssumption DEF RejectInv, TypeOK
  <2>. QED BY <2>1, <2>2
<1>7. IdsOwned'
  BY <1>4, <1>5, <1>6 DEF RejectInv, IdsOwned
<1>8. ASSUME NEW i \in Ids, Free(i)'
      PROVE  /\ Free(i) /\ InNoStore(i)' /\ InNoOther(i)'
             /\ i = started + 1 => new.pc = "read"
  <2>1. Free(i) /\ i # 0
    BY <1>4, <1>5, <1>6, <1>8, BoundsAssumption DEF RejectInv, IdsOwned, Free, Pending
  <2>2. i = started + 1 => new.pc = "read"
    <3>. SUFFICES ASSUME i = started + 1, new.pc # "read" PROVE FALSE
      OBVIOUS
    <3>1. ~(i > started') /\ i \notin rejected'
      BY <1>6 DEF RejectInv, IdsOwned
    <3>2. PICK y \in Clients : Pending(y)' /\ call'[y].id = i
      BY <1>8, <3>1 DEF Free
    <3>3. y # c => call[y].id \in 1 .. started
      BY <1>5, <3>2 DEF Pending, RejectInv, IdsOwned
    <3>4. y = c
      BY <1>5, <1>6, <3>2, <3>3
    <3>. QED BY <1>4, <3>2, <3>4 DEF Pending
  <2>3. InNoStore(i) /\ InNoOther(i)
    BY <2>1 DEF RejectInv, FreeUnused
  <2>. QED BY <1>4, <1>5, <2>1, <2>2, <2>3 DEF InNoStore, InNoOther
<1>. QED BY <1>7, <1>8

LEMMA UpsertKeepsFree ==
  ASSUME RejectInv, NEW c \in Clients, Upsert(c) \/ Delete(c) \/ Update(c)
  PROVE  IdsOwned' /\ FreeUnused'
<1>. DEFINE Starts(new) == Enter(c, new) /\ UNCHANGED <<s3, ddb, rejected>>
<1>1. ASSUME NEW D \in SUBSET Docs, NEW op \in AllOps, Starts(BatchCall(op, D)),
             \A t \in tasks' : t \in tasks \/ t.call = started + 1
      PROVE  IdsOwned' /\ FreeUnused'
  <2>1. /\ BatchCall(op, D) \in Call /\ BatchCall(op, D).pc = "await" /\ BatchCall(op, D).read = None
        /\ BatchCall(op, D).text = 0 /\ BatchCall(op, D).vec = 0
    BY BatchCallType DEF BatchCall, Idle
  <2>2. /\ IdsOwned'
        /\ \A i \in Ids : Free(i)' =>
             Free(i) /\ InNoStore(i)' /\ InNoOther(i)' /\ i # started + 1
    BY <1>1, <2>1, EnterKeepsFree
  <2>3. \A i \in Ids : Free(i)' => InNoTask(i)'
    BY <1>1, <2>2 DEF RejectInv, FreeUnused, InNoTask
  <2>. QED BY <2>2, <2>3 DEF FreeUnused
<1>2. CASE Upsert(c)
  <2>1. PICK b \in Batches, ttl \in TTLs :
          Enter(c, BatchCall("upsert", BatchDocs(b))) /\ tasks' = tasks \cup PutTasks(started + 1, b, ttl)
    BY <1>2 DEF Upsert
  <2>2. BatchDocs(b) \in SUBSET Docs
    BY BatchesAssumption, BatchDocsType
  <2>3. \A t \in PutTasks(started + 1, b, ttl) : t.call = started + 1
    BY DEF PutTasks
  <2>4. UNCHANGED <<s3, ddb, rejected>>
    BY <1>2 DEF Upsert
  <2>. QED BY <1>1, <2>1, <2>2, <2>3, <2>4
<1>3. CASE Delete(c)
  <2>1. PICK b \in Batches :
          Enter(c, BatchCall("delete", BatchDocs(b))) /\ tasks' = tasks \cup DelTasks(started + 1, BatchDocs(b))
    BY <1>3 DEF Delete
  <2>2. BatchDocs(b) \in SUBSET Docs
    BY BatchesAssumption, BatchDocsType
  <2>3. \A t \in DelTasks(started + 1, BatchDocs(b)) : t.call = started + 1
    BY DEF DelTasks
  <2>4. UNCHANGED <<s3, ddb, rejected>>
    BY <1>3 DEF Delete
  <2>. QED BY <1>1, <2>1, <2>2, <2>3, <2>4
<1>4. CASE Update(c)
  <2>1. PICK d \in Docs : Enter(c, UpdateCall(d))
    BY <1>4 DEF Update
  <2>2. /\ UpdateCall(d) \in Call /\ UpdateCall(d).pc = "read" /\ UpdateCall(d).read = None
        /\ UpdateCall(d).text = 0 /\ UpdateCall(d).vec = 0
    BY UpdateCallType DEF UpdateCall, Idle
  <2>3. UNCHANGED <<s3, ddb, tasks, rejected>>
    BY <1>4 DEF Update
  <2>4. IdsOwned' /\ \A i \in Ids : Free(i)' => Free(i) /\ InNoStore(i)' /\ InNoOther(i)'
    BY <2>1, <2>2, <2>3, EnterKeepsFree
  <2>5. \A i \in Ids : Free(i)' => InNoTask(i)'
    BY <2>3, <2>4 DEF RejectInv, FreeUnused, InNoTask
  <2>. QED BY <2>4, <2>5 DEF FreeUnused
<1>. QED BY <1>2, <1>3, <1>4

(* A call that ends, having been rejected or not, frees no identifier      *)
(* that was not free.                                                      *)
LEMMA LeaveKeepsFree ==
  ASSUME RejectInv, NEW c \in Clients, Leave(c), started' = started,
         \/ rejected' = rejected
         \/ Pending(c) /\ rejected' = rejected \cup {call[c].id}
  PROVE  /\ IdsOwned'
         /\ \A i \in Ids : Free(i)' => Free(i) /\ InNoOther(i)'
<1>1. call'[c] = Idle /\ \A d \in Clients : d # c => call'[d] = call[d]
  BY DEF Leave, RejectInv, TypeOK
<1>2. IdsOwned'
  BY <1>1, IdleFacts DEF RejectInv, IdsOwned, Pending
<1>3. ASSUME NEW i \in Ids, Free(i)' PROVE Free(i) /\ InNoOther(i)'
  <2>1. Free(i)
    BY <1>1, <1>3, IdleFacts DEF Free, Pending
  <2>2. i # 0
    BY <2>1, BoundsAssumption DEF RejectInv, TypeOK, IdsOwned, Free, Pending
  <2>3. InNoOther(i)
    BY <2>1 DEF RejectInv, FreeUnused
  <2>. QED BY <1>1, <2>1, <2>2, <2>3, IdleFacts DEF InNoOther
<1>. QED BY <1>2, <1>3

LEMMA EndKeepsFree ==
  ASSUME RejectInv, NEW c \in Clients, Leave(c), UNCHANGED <<s3, ddb, started>>, tasks' \subseteq tasks,
         \/ rejected' = rejected
         \/ Pending(c) /\ rejected' = rejected \cup {call[c].id}
  PROVE  IdsOwned' /\ FreeUnused'
<1>1. IdsOwned' /\ \A i \in Ids : Free(i)' => Free(i) /\ InNoOther(i)'
  BY LeaveKeepsFree
<1>. QED BY <1>1 DEF RejectInv, FreeUnused, InNoStore, InNoTask

(* What an update writes to the stores is not free: not its identifier,    *)
(* unless it is still pending, nor a text or a vector it took over.        *)
LEMMA WrittenNotFree ==
  ASSUME RejectInv, NEW c \in Clients, call[c].pc # "idle", NEW i \in Ids, Free(i),
         Pending(c) => i # call[c].id
  PROVE  i # call[c].id /\ i # call[c].text /\ i # call[c].vec
<1>1. i # call[c].id
  <2>1. call[c].id \in 1 .. started /\ call[c].id \notin rejected /\ started \in Nat
    BY BoundsAssumption DEF RejectInv, TypeOK, IdsOwned
  <2>2. ~(call[c].id > started)
    BY <2>1
  <2>3. \A d \in Clients : Pending(d) /\ d # c => call[d].id # call[c].id
    BY DEF RejectInv, IdsOwned, Pending
  <2>. QED BY <2>1, <2>2, <2>3 DEF Free
<1>2. InNoOther(i)
  BY DEF RejectInv, FreeUnused
<1>. QED BY <1>1, <1>2 DEF InNoOther

LEMMA PutKeepsFree ==
  ASSUME RejectInv, NEW c \in Clients, call[c].pc = "put", Leave(c),
         s3' = [s3 EXCEPT ![call[c].doc] = [vec |-> call[c].vec, rev |-> call[c].id]],
         UNCHANGED <<ddb, tasks, started, rejected>>
  PROVE  IdsOwned' /\ FreeUnused'
<1>1. IdsOwned' /\ \A i \in Ids : Free(i)' => Free(i) /\ InNoOther(i)'
  BY LeaveKeepsFree
<1>2. ASSUME NEW i \in Ids, Free(i) PROVE i # call[c].id /\ i # call[c].vec
  BY <1>2, WrittenNotFree DEF Pending
<1>3. ASSUME NEW i \in Ids, Free(i)' PROVE InNoStore(i)' /\ InNoTask(i)'
  <2>1. Free(i) /\ InNoStore(i) /\ InNoTask(i)
    BY <1>1, <1>3 DEF RejectInv, FreeUnused
  <2>2. DOMAIN s3 = Docs
    BY DEF RejectInv, TypeOK
  <2>3. \A d \in Docs : s3'[d] # None => s3'[d].rev # i /\ s3'[d].vec # i
    <3>1. i # call[c].id /\ i # call[c].vec
      BY <1>2, <2>1
    <3>2. \A d \in Docs : \/ s3'[d] = s3[d]
                          \/ s3'[d].rev = call[c].id /\ s3'[d].vec = call[c].vec
      BY <2>2
    <3>. QED BY <2>1, <3>1, <3>2 DEF InNoStore
  <2>. QED BY <2>1, <2>3 DEF InNoStore, InNoTask
<1>. QED BY <1>1, <1>3 DEF FreeUnused

(* The conditional write, whether its call goes on or raises: only now is  *)
(* its identifier in use.                                                  *)
LEMMA CommitKeepsFree ==
  ASSUME RejectInv, NEW c \in Clients, call[c].pc = "commit", NEW ttl,
         ddb' = [ddb EXCEPT ![call[c].doc] = NewItem(c, ttl)],
         UNCHANGED <<s3, tasks, started, rejected>>,
         Leave(c) \/ call' = [call EXCEPT ![c].pc = "put"]
  PROVE  IdsOwned' /\ FreeUnused'
<1>1. /\ \A d \in Clients : d # c => call'[d] = call[d]
      /\ \/ call'[c] = Idle
         \/ /\ call'[c].pc = "put" /\ call'[c].id = call[c].id /\ call'[c].read = call[c].read
            /\ call'[c].text = call[c].text /\ call'[c].vec = call[c].vec
  BY DEF Leave, RejectInv, TypeOK, Call
<1>2. IdsOwned'
  BY <1>1, IdleFacts DEF RejectInv, IdsOwned
<1>3. ASSUME NEW i \in Ids, Free(i)'
      PROVE  InNoStore(i)' /\ InNoTask(i)' /\ InNoOther(i)'
  <2>1. Free(i)
    BY <1>1, <1>3, IdleFacts DEF Free, Pending
  <2>2. i # call[c].id
    <3>1. call[c].id \in 1 .. started /\ call[c].id \notin rejected /\ started \in Nat
      BY BoundsAssumption DEF RejectInv, TypeOK, IdsOwned
    <3>2. ~(call[c].id > started)
      BY <3>1
    <3>3. \A d \in Clients : Pending(d)' => d # c /\ call'[d].id # call[c].id
      BY <1>1, IdleFacts DEF RejectInv, IdsOwned, Pending
    <3>. QED BY <1>3, <3>1, <3>2, <3>3 DEF Free
  <2>3. i # 0
    BY <2>1, BoundsAssumption DEF RejectInv, TypeOK, IdsOwned, Free, Pending
  <2>4. i # call[c].text /\ i # call[c].vec
    BY <2>1, <2>2, WrittenNotFree
  <2>5. InNoStore(i) /\ InNoTask(i) /\ InNoOther(i)
    BY <2>1 DEF RejectInv, FreeUnused
  <2>6. NewItem(c, ttl).text = call[c].text /\ NewItem(c, ttl).rev = call[c].id
    BY DEF NewItem
  <2>7. InNoStore(i)'
    <3>1. \A d \in Docs : \/ ddb'[d] = ddb[d]
                          \/ ddb'[d] = NewItem(c, ttl)
      BY DEF RejectInv, TypeOK
    <3>2. \A d \in Docs : ddb'[d] # None => ddb'[d].rev # i /\ ddb'[d].text # i
      BY <2>2, <2>4, <2>5, <2>6, <3>1 DEF InNoStore
    <3>. QED BY <2>5, <3>2 DEF InNoStore
  <2>8. InNoOther(i)'
    BY <1>1, <2>3, <2>5, IdleFacts DEF InNoOther
  <2>. QED BY <2>5, <2>7, <2>8 DEF InNoTask
<1>. QED BY <1>2, <1>3 DEF FreeUnused

(* A call that goes on before it commits takes over only what is in use.   *)
LEMMA AdvanceKeepsFree ==
  ASSUME RejectInv, NEW c \in Clients, Pending(c), Pending(c)',
         UNCHANGED <<s3, ddb, tasks, started, rejected>>,
         \A d \in Clients : d # c => call'[d] = call[d],
         call'[c].id = call[c].id,
         \A i \in Ids : Free(i) =>
           /\ call'[c].read # None => call'[c].read.text # i
           /\ call[c].id # i => call'[c].text # i /\ call'[c].vec # i
  PROVE  IdsOwned' /\ FreeUnused'
<1>1. IdsOwned'
  BY DEF RejectInv, IdsOwned, Pending
<1>2. ASSUME NEW i \in Ids, Free(i)'
      PROVE  InNoStore(i)' /\ InNoTask(i)' /\ InNoOther(i)'
  <2>1. Free(i)
    BY <1>2 DEF Free, Pending
  <2>2. InNoStore(i) /\ InNoTask(i) /\ InNoOther(i)
    BY <2>1 DEF RejectInv, FreeUnused
  <2>. QED BY <2>1, <2>2 DEF InNoStore, InNoTask, InNoOther
<1>. QED BY <1>1, <1>2 DEF FreeUnused

LEMMA UpdateKeepsFree ==
  ASSUME RejectInv, NEW c \in Clients,
         \/ UpdateRead(c) \/ UpdateEmbed(c) \/ UpdateFetch(c)
         \/ UpdateCommit(c) \/ UpdatePut(c) \/ UpdateFault(c)
  PROVE  IdsOwned' /\ FreeUnused'
<1>1. call[c] \in Call /\ call \in [Clients -> Call]
  BY DEF RejectInv, TypeOK
<1>2. ASSUME Reject(c), Pending(c) PROVE IdsOwned' /\ FreeUnused'
  BY <1>2, EndKeepsFree DEF Reject
<1>3. \A i \in Ids : Free(i) => InNoStore(i) /\ InNoOther(i)
  BY DEF RejectInv, FreeUnused
<1>4. \A i \in Ids : Free(i) => i # 0
  BY BoundsAssumption DEF RejectInv, TypeOK, IdsOwned, Free, Pending
<1>5. call[c].pc \in UpdatePcs => call[c].doc \in Docs
  BY DEF RejectInv, TypeOK, DocKnown
<1>12. \A new : \A i \in Ids : Free(i) /\ call[c].id # i => TextFor(c, new) # i
  BY <1>3, <1>4 DEF TextFor, InNoOther
<1>6. CASE UpdateRead(c)
  <2>1. CASE Reject(c)
    BY <1>2, <1>6, <2>1 DEF UpdateRead, Pending
  <2>2. CASE ~Reject(c)
    <3> DEFINE d == call[c].doc
    <3>1. /\ call[c].pc = "read"
          /\ call' = [call EXCEPT ![c].pc = "vector", ![c].read = ddb[d], ![c].seen = epoch[d]]
          /\ UNCHANGED <<s3, ddb, tasks, started, faults, epoch, rejected, settled>>
      BY <1>6, <2>2 DEF UpdateRead
    <3>2. /\ call'[c].pc = "vector" /\ call'[c].id = call[c].id /\ call'[c].read = ddb[d]
          /\ call'[c].text = call[c].text /\ call'[c].vec = call[c].vec
          /\ \A e \in Clients : e # c => call'[e] = call[e]
      BY <1>1, <3>1 DEF Call
    <3>3. \A i \in Ids : Free(i) =>
            /\ call'[c].read # None => call'[c].read.text # i
            /\ call[c].id # i => call'[c].text # i /\ call'[c].vec # i
      BY <1>3, <1>5, <3>1, <3>2 DEF InNoStore, InNoOther
    <3>. QED BY <3>1, <3>2, <3>3, AdvanceKeepsFree DEF Pending
  <2>. QED BY <2>1, <2>2
<1>7. CASE UpdateEmbed(c)
  <2>1. /\ call[c].pc = "vector"
        /\ UNCHANGED <<s3, ddb, tasks, started, rejected>>
    BY <1>7 DEF UpdateEmbed
  <2>2. /\ call'[c].pc = "commit" /\ call'[c].id = call[c].id /\ call'[c].read = call[c].read
        /\ (\E new : call'[c].text = TextFor(c, new)) /\ call'[c].vec = call[c].id
        /\ \A e \in Clients : e # c => call'[e] = call[e]
    BY <1>1, <1>7 DEF UpdateEmbed, Call
  <2>3. \A i \in Ids : Free(i) =>
          /\ call'[c].read # None => call'[c].read.text # i
          /\ call[c].id # i => call'[c].text # i /\ call'[c].vec # i
    BY <1>3, <1>12, <2>2 DEF InNoOther
  <2>. QED BY <2>1, <2>2, <2>3, AdvanceKeepsFree DEF Pending
<1>8. CASE UpdateFetch(c)
  <2>1. CASE Reject(c)
    BY <1>2, <1>8, <2>1 DEF UpdateFetch, Pending
  <2>2. CASE ~Reject(c)
    <3> DEFINE d == call[c].doc
    <3>0. PICK new : call' = [call EXCEPT ![c].pc = "commit", ![c].text = TextFor(c, new),
                                          ![c].vec = s3[d].vec, ![c].sets = new]
      BY <1>8, <2>2 DEF UpdateFetch
    <3> DEFINE text == TextFor(c, new)
    <3>1. /\ call[c].pc = "vector" /\ s3[d] # None
          /\ UNCHANGED <<s3, ddb, tasks, started, faults, epoch, rejected, settled>>
      BY <1>8, <2>2 DEF UpdateFetch
    <3>2. \A i \in Ids : Free(i) /\ call[c].id # i => text # i
      BY <1>12
    <3> HIDE DEF text
    <3>3. /\ call'[c].pc = "commit" /\ call'[c].id = call[c].id /\ call'[c].read = call[c].read
          /\ call'[c].text = text /\ call'[c].vec = s3[d].vec
          /\ \A e \in Clients : e # c => call'[e] = call[e]
      BY <1>1, <3>0, <3>1 DEF Call, text
    <3>4. \A i \in Ids : Free(i) =>
            /\ call'[c].read # None => call'[c].read.text # i
            /\ call[c].id # i => call'[c].text # i /\ call'[c].vec # i
      BY <1>3, <1>5, <3>1, <3>2, <3>3 DEF InNoStore, InNoOther
    <3>. QED BY <3>1, <3>3, <3>4, AdvanceKeepsFree DEF Pending
  <2>. QED BY <2>1, <2>2
<1>9. CASE UpdateCommit(c)
  <2>1. CASE Reject(c)
    BY <1>2, <1>9, <2>1 DEF UpdateCommit, Pending
  <2>2. CASE ~Reject(c)
    <3>1. /\ call[c].pc = "commit" /\ call' = [call EXCEPT ![c].pc = "put"]
          /\ \E ttl \in TTLs : ddb' = [ddb EXCEPT ![call[c].doc] = NewItem(c, ttl)]
          /\ UNCHANGED <<s3, tasks, started, faults, epoch, rejected, settled>>
      BY <1>9, <2>2 DEF UpdateCommit
    <3>. QED BY <3>1, CommitKeepsFree
  <2>. QED BY <2>1, <2>2
<1>10. CASE UpdatePut(c)
  BY <1>10, PutKeepsFree DEF UpdatePut
<1>11. CASE UpdateFault(c)
  <2>1. Leave(c) /\ UNCHANGED <<tasks, started, rejected>>
    BY <1>11 DEF UpdateFault
  <2>2. CASE UNCHANGED <<s3, ddb>>
    BY <2>1, <2>2, EndKeepsFree
  <2>3. CASE ~UNCHANGED <<s3, ddb>> /\ call[c].pc = "commit"
    <3>1. UNCHANGED s3 /\ \E ttl \in TTLs : ddb' = [ddb EXCEPT ![call[c].doc] = NewItem(c, ttl)]
      BY <1>11, <2>3 DEF UpdateFault
    <3>. QED BY <2>1, <2>3, <3>1, CommitKeepsFree
  <2>4. CASE ~UNCHANGED <<s3, ddb>> /\ call[c].pc # "commit"
    <3>1. /\ call[c].pc = "put" /\ UNCHANGED ddb
          /\ s3' = [s3 EXCEPT ![call[c].doc] = [vec |-> call[c].vec, rev |-> call[c].id]]
      BY <1>11, <2>4 DEF UpdateFault
    <3>. QED BY <2>1, <3>1, PutKeepsFree
  <2>. QED BY <2>2, <2>3, <2>4
<1>. QED BY <1>6, <1>7, <1>8, <1>9, <1>10, <1>11

(* A task writes the identifier of its call, which is in use.              *)
LEMMA TaskKeepsFree ==
  ASSUME RejectInv, NEW t \in tasks, TaskStep(t)
  PROVE  IdsOwned' /\ FreeUnused'
<1>1. UNCHANGED <<call, started, rejected>>
  BY DEF TaskStep, TaskApply, TaskFail
<1>2. \A u \in tasks' : \E v \in tasks : u.call = v.call
  <2>1. t \in Task
    BY DEF RejectInv, TypeOK
  <2>2. \A status : \A u \in Ended(t, status) : \E v \in tasks : u.call = v.call
    BY <2>1 DEF Ended, Task
  <2>3. \A d : [t EXCEPT !.docs = @ \ {d}].call = t.call
    BY <2>1 DEF Task
  <2>4. CASE TaskApply(t)
    <3>1. PICK d \in t.docs : tasks' = IF t.docs = {d} THEN Ended(t, "ok")
                                       ELSE (tasks \ {t}) \cup {[t EXCEPT !.docs = @ \ {d}]}
      BY <2>4 DEF TaskApply
    <3>2. CASE t.docs = {d}
      <4>1. tasks' = Ended(t, "ok")
        BY <3>1, <3>2
      <4>2. \A u \in Ended(t, "ok") : \E v \in tasks : u.call = v.call
        BY <2>2
      <4>. QED BY <4>1, <4>2
    <3>3. CASE t.docs # {d}
      <4>. DEFINE rest == [t EXCEPT !.docs = @ \ {d}]
      <4>1. tasks' = (tasks \ {t}) \cup {rest}
        BY <3>1, <3>3
      <4>2. rest.call = t.call
        BY <2>3
      <4>. HIDE DEF rest
      <4>. QED BY <4>1, <4>2
    <3>. QED BY <3>2, <3>3
  <2>5. CASE TaskFail(t)
    <3>1. tasks' = Ended(t, "err")
      BY <2>5 DEF TaskFail
    <3>. QED BY <2>2, <3>1
  <2>. QED BY <2>4, <2>5 DEF TaskStep
<1>3. ASSUME NEW d \in t.docs, StoreWrite(t, d), NEW i \in Ids, i # t.call, InNoStore(i)
      PROVE  InNoStore(i)'
  <2>1. \A e \in Docs : \/ s3'[e] = s3[e] \/ s3'[e] = None
                        \/ s3'[e].rev = t.call /\ s3'[e].vec = t.call
    BY <1>3 DEF StoreWrite, RejectInv, TypeOK
  <2>2. \A e \in Docs : \/ ddb'[e] = ddb[e] \/ ddb'[e] = None
                        \/ ddb'[e].rev = t.call /\ ddb'[e].text = t.call
    BY <1>3 DEF StoreWrite, RejectInv, TypeOK
  <2>. QED BY <1>3, <2>1, <2>2 DEF InNoStore
<1>4. UNCHANGED <<s3, ddb>> \/ \E d \in t.docs : StoreWrite(t, d)
  BY DEF TaskStep, TaskApply, TaskFail
<1>5. ASSUME NEW i \in Ids, Free(i)'
      PROVE  InNoStore(i)' /\ InNoTask(i)' /\ InNoOther(i)'
  <2>1. InNoStore(i) /\ InNoTask(i) /\ InNoOther(i)
    BY <1>1, <1>5 DEF RejectInv, FreeUnused, Free, Pending
  <2>2. InNoStore(i)'
    <3>1. CASE UNCHANGED <<s3, ddb>>
      BY <2>1, <3>1 DEF InNoStore
    <3>2. CASE \E d \in t.docs : StoreWrite(t, d)
      BY <1>3, <2>1, <3>2 DEF InNoTask
    <3>. QED BY <1>4, <3>1, <3>2
  <2>. QED BY <1>1, <1>2, <2>1, <2>2 DEF InNoTask, InNoOther
<1>6. IdsOwned'
  BY <1>1 DEF RejectInv, IdsOwned
<1>. QED BY <1>5, <1>6 DEF FreeUnused

LEMMA ExpireKeepsFree ==
  ASSUME RejectInv, NEW d \in Docs, Expire(d)
  PROVE  IdsOwned' /\ FreeUnused'
<1>1. /\ call' = [c \in Clients |-> [call[c] EXCEPT !.solo = @ \ {d}]]
      /\ ddb' = [ddb EXCEPT ![d] = None]
      /\ UNCHANGED <<s3, tasks, started, rejected>>
  BY Zenon DEF Expire
<1>2. ASSUME NEW c \in Clients
      PROVE  /\ call'[c].pc = call[c].pc /\ call'[c].id = call[c].id /\ call'[c].read = call[c].read
             /\ call'[c].text = call[c].text /\ call'[c].vec = call[c].vec
  <2>1. call[c] \in Call /\ call'[c] = [call[c] EXCEPT !.solo = @ \ {d}]
    BY <1>1 DEF RejectInv, TypeOK
  <2>. QED BY <2>1 DEF Call
<1>3. IdsOwned'
  <2>1. /\ \A c \in Clients : call'[c].pc # "idle" =>
             call'[c].id \in 1 .. started /\ call'[c].id \notin rejected
        /\ \A c, e \in Clients :
             c # e /\ call'[c].pc # "idle" /\ call'[e].pc # "idle" => call'[c].id # call'[e].id
        /\ rejected \subseteq 1 .. started
    BY <1>2 DEF RejectInv, IdsOwned
  <2>2. started' = started /\ rejected' = rejected
    BY <1>1
  <2>. QED BY <2>1, <2>2 DEF IdsOwned
<1>4. ASSUME NEW i \in Ids, Free(i)'
      PROVE  InNoStore(i)' /\ InNoTask(i)' /\ InNoOther(i)'
  <2>1. InNoStore(i) /\ InNoTask(i) /\ InNoOther(i)
    BY <1>1, <1>2, <1>4 DEF RejectInv, FreeUnused, Free, Pending
  <2>2. \A e \in Docs : ddb'[e] = ddb[e] \/ ddb'[e] = None
    BY <1>1 DEF RejectInv, TypeOK
  <2>. QED BY <1>1, <1>2, <2>1, <2>2 DEF InNoStore, InNoTask, InNoOther
<1>. QED BY <1>3, <1>4 DEF FreeUnused

LEMMA RejectNext == RejectInv /\ [Next]_vars => RejectInv'
<1>. SUFFICES ASSUME RejectInv, [Next]_vars PROVE RejectInv'
  OBVIOUS
<1>1. TypeOK'
  BY TypeNext DEF RejectInv
<1>2. ASSUME NEW c \in Clients, ClientStep(c) PROVE IdsOwned' /\ FreeUnused'
  <2>1. CASE Upsert(c) \/ Delete(c) \/ Update(c)
    BY <2>1, UpsertKeepsFree
  <2>2. CASE AwaitOk(c) \/ AwaitRaise(c)
    <3>1. Leave(c) /\ UNCHANGED <<s3, ddb, started, rejected>> /\ tasks' \subseteq tasks
      BY <2>2 DEF AwaitOk, AwaitRaise
    <3>. QED BY <3>1, EndKeepsFree
  <2>3. CASE \/ UpdateRead(c) \/ UpdateEmbed(c) \/ UpdateFetch(c)
             \/ UpdateCommit(c) \/ UpdatePut(c) \/ UpdateFault(c)
    BY <2>3, UpdateKeepsFree
  <2>. QED BY <1>2, <2>1, <2>2, <2>3 DEF ClientStep
<1>3. ASSUME NEW t \in tasks, TaskStep(t) PROVE IdsOwned' /\ FreeUnused'
  BY <1>3, TaskKeepsFree
<1>4. ASSUME NEW d \in Docs, Expire(d) PROVE IdsOwned' /\ FreeUnused'
  BY <1>4, ExpireKeepsFree
<1>5. CASE UNCHANGED vars
  <2>1. UNCHANGED <<s3, ddb, call, tasks, started, rejected>>
    BY <1>5 DEF vars
  <2>2. IdsOwned'
    BY <2>1 DEF RejectInv, IdsOwned
  <2>3. \A i \in Ids : Free(i)' => Free(i)
    BY <2>1 DEF Free, Pending
  <2>4. \A i \in Ids : InNoStore(i) /\ InNoTask(i) /\ InNoOther(i) =>
                        InNoStore(i)' /\ InNoTask(i)' /\ InNoOther(i)'
    BY <2>1 DEF InNoStore, InNoTask, InNoOther
  <2>5. FreeUnused'
    BY <2>3, <2>4 DEF RejectInv, FreeUnused
  <2>. QED BY <1>1, <2>2, <2>5 DEF RejectInv
<1>6. CASE Next
  BY <1>1, <1>2, <1>3, <1>4, <1>6 DEF Next, RejectInv
<1>. QED BY <1>5, <1>6

(* An update that raises before it commits (NotFoundError, ConflictError,  *)
(* ConfigurationError) leaves nothing of itself in a store, then or later, *)
(* nor does another update take over a text or a vector of it.             *)
THEOREM RejectionsLeaveNoTrace == Spec => []RejectedWritesNothing
<1>1. RejectInv => RejectedWritesNothing
  <2>. SUFFICES ASSUME RejectInv, NEW d \in Docs
                PROVE  /\ s3[d] # None => s3[d].rev \notin rejected /\ s3[d].vec \notin rejected
                       /\ ddb[d] # None => ddb[d].rev \notin rejected /\ ddb[d].text \notin rejected
    BY DEF RejectedWritesNothing
  <2>1. \A i \in rejected : i \in Ids /\ InNoStore(i)
    BY DEF RejectInv, TypeOK, FreeUnused, Free
  <2>. QED BY <2>1 DEF InNoStore
<1>. QED BY <1>1, RejectInit, RejectNext, PTL DEF Spec

----------------------------------------------------------------------------
(* Quiet writes repair the stores.  QuietWritesAgree speaks of the moments *)
(* between calls; the strengthening follows what is on its way.  A call is *)
(* alone on the documents of its solo set; what an upsert or a delete has  *)
(* not yet written of them is with one of its tasks, or a task of it has   *)
(* failed and it will raise; an update alone on its document has read what *)
(* is stored; and where the stores of a settled document differ, the call  *)
(* that will settle or unsettle it is still there to do so.                *)

Active(c) == call[c].pc # "idle"

(* The call of c has been written to a store. *)
Done(c, d, store) ==
  IF store = "s3"
  THEN s3[d] = IF call[c].op = "upsert"
               THEN [vec |-> call[c].id, rev |-> call[c].id] ELSE None
  ELSE IF call[c].op = "upsert"
  THEN ddb[d] # None /\ ddb[d].rev = call[c].id /\ ddb[d].text = call[c].id
  ELSE ddb[d] = None

(* A task has still to write it there, or one has failed. *)
Coming(c, d, store) ==
  \E t \in tasks : /\ t.call = call[c].id
                   /\ t.status = "err" \/ (t.store = store /\ d \in t.docs)

(* c may have written d to one store and not to the other. *)
Midway(c, d) == \/ call[c].pc = "await" /\ d \in call[c].docs
                \/ call[c].pc = "put" /\ call[c].doc = d

Alone(c) ==
  \A d \in call[c].solo :
    /\ Active(c) /\ d \in call[c].docs
    /\ \A x \in Clients \ {c} : Active(x) => d \notin call[x].docs
    /\ \A t \in tasks : d \in t.docs => t.call = call[c].id

TasksMatch(c) ==
  Active(c) =>
    \A t \in tasks : t.call = call[c].id =>
      /\ call[c].pc = "await" /\ t.docs \subseteq call[c].docs
      /\ t.op = IF call[c].op = "upsert" THEN "put" ELSE "del"

Delivered(c) ==
  call[c].pc = "await" =>
    \A d \in call[c].solo, store \in {"s3", "ddb"} : Done(c, d, store) \/ Coming(c, d, store)

UpdateShaped(c) ==
  call[c].pc \in UpdatePcs => call[c].docs = {call[c].doc}

(* An update alone on its document is about to write what will be due.     *)
UpdateFollows(c) ==
  LET d == call[c].doc
      due == Amended(c, settled[d])
  IN d \in call[c].solo =>
       /\ call[c].pc = "vector" => call[c].read = ddb[d]
       /\ call[c].pc \in {"commit", "put"} /\ due # Unsettled =>
            call[c].text = due.text /\ call[c].vec = due.vec
       /\ call[c].pc = "put" =>
            ddb[d] # None /\ ddb[d].rev = call[c].id /\ ddb[d].text = call[c].text

(* Tasks with something to send run, and those whose call has raised are   *)
(* on no settled document.                                                 *)
TasksRun == \A t \in tasks : t.docs # {} => t.status = "run"

Orphans ==
  \A t \in tasks : \A d \in t.docs : settled[d] # Unsettled =>
    \E c \in Clients : call[c].pc = "await" /\ call[c].id = t.call

SettledTracked ==
  \A d \in Docs : settled[d] # Unsettled =>
    Holds(d, settled[d]) \/ \E c \in Clients : Midway(c, d)

Follows(c) == Alone(c) /\ TasksMatch(c) /\ Delivered(c) /\ UpdateShaped(c) /\ UpdateFollows(c)

AgreeInv ==
  /\ RejectInv
  /\ \A c \in Clients : Follows(c)
  /\ TasksRun /\ Orphans /\ SettledTracked

(* What the rest of this section rests on: active calls have identifiers   *)
(* of their own, tasks those of calls that have started.                   *)
LEMMA AgreeFacts ==
  ASSUME AgreeInv
  PROVE  /\ TypeOK /\ IdsOwned /\ started \in Nat
         /\ \A t \in tasks : t \in Task /\ t.call \in Ids /\ t.call # started + 1 /\ t.docs \subseteq Docs
         /\ \A c \in Clients : call[c] \in Call /\ call[c].docs \subseteq Docs /\ call[c].solo \subseteq Docs
         /\ \A c \in Clients : Alone(c) /\ TasksMatch(c) /\ Delivered(c) /\ UpdateShaped(c) /\ UpdateFollows(c)
<1>1. TypeOK /\ IdsOwned /\ started \in Nat /\ FreeUnused
  BY BoundsAssumption DEF AgreeInv, RejectInv, TypeOK
<1>2. \A t \in tasks : t \in Task /\ t.call \in Ids /\ t.docs \subseteq Docs
  BY <1>1 DEF TypeOK, Task
<1>3. \A t \in tasks : t.call # started + 1
  <2>1. ASSUME NEW t \in tasks, t.call = started + 1 PROVE FALSE
    <3>1. t.call \in Ids /\ t.call > started
      BY <1>1, <1>2, <2>1
    <3>2. InNoTask(t.call)
      BY <1>1, <3>1 DEF FreeUnused, Free
    <3>. QED BY <3>2 DEF InNoTask
  <2>. QED BY <2>1
<1>4. \A c \in Clients : call[c] \in Call /\ call[c].docs \subseteq Docs /\ call[c].solo \subseteq Docs
  BY <1>1 DEF TypeOK, Call
<1>. QED BY <1>1, <1>2, <1>3, <1>4 DEF AgreeInv, Follows

(* The call of x goes on as it was, perhaps no longer alone everywhere.    *)
Kept(x) ==
  /\ call'[x].pc = call[x].pc /\ call'[x].id = call[x].id /\ call'[x].op = call[x].op
  /\ call'[x].docs = call[x].docs /\ call'[x].doc = call[x].doc /\ call'[x].read = call[x].read
  /\ call'[x].text = call[x].text /\ call'[x].vec = call[x].vec /\ call'[x].sets = call[x].sets
  /\ call'[x].solo \subseteq call[x].solo

(* Such a call is disturbed in nothing, if where it is alone no other call *)
(* and no other call's task comes near.                                    *)
LEMMA Bystander ==
  ASSUME AgreeInv, NEW x \in Clients, Kept(x),
         \A y \in Clients \ {x}, d \in call'[x].solo : call'[y].pc # "idle" => d \notin call'[y].docs,
         \A t \in tasks' :
           t.call = call[x].id =>
             \E u \in tasks : u.call = t.call /\ t.docs \subseteq u.docs /\ t.op = u.op,
         \A t \in tasks', d \in call'[x].solo : d \in t.docs => t.call = call[x].id,
         \A d \in call'[x].solo : settled'[d] = settled[d],
         call[x].pc = "await" \/ \A d \in call'[x].solo : ddb'[d] = ddb[d]
  PROVE  Alone(x)' /\ TasksMatch(x)' /\ UpdateShaped(x)' /\ UpdateFollows(x)'
<1>1. Alone(x) /\ TasksMatch(x) /\ UpdateShaped(x) /\ UpdateFollows(x)
  BY AgreeFacts
<1>2. Alone(x)'
  BY <1>1 DEF Kept, Alone, Active
<1>3. TasksMatch(x)'
  <2>. SUFFICES ASSUME call'[x].pc # "idle", NEW t \in tasks', t.call = call'[x].id
                PROVE  /\ call'[x].pc = "await" /\ t.docs \subseteq call'[x].docs
                       /\ t.op = IF call'[x].op = "upsert" THEN "put" ELSE "del"
    BY DEF TasksMatch, Active
  <2>1. PICK u \in tasks : u.call = t.call /\ t.docs \subseteq u.docs /\ t.op = u.op
    BY DEF Kept
  <2>. QED BY <1>1, <2>1 DEF TasksMatch, Active, Kept
<1>4. UpdateShaped(x)'
  BY <1>1 DEF Kept, UpdateShaped
<1>5. UpdateFollows(x)'
  <2>1. \A w : Amended(x, w)' = Amended(x, w)
    BY DEF Kept, Amended
  <2>. QED BY <1>1, <2>1 DEF Kept, UpdateFollows
<1>. QED BY <1>2, <1>3, <1>4, <1>5

(* What has been or will be delivered stays so, if no other call writes    *)
(* where this one is alone and its tasks are left as they are.             *)
LEMMA DeliveredStill ==
  ASSUME AgreeInv, NEW x \in Clients, Kept(x),
         \A t \in tasks : t.call = call[x].id => t \in tasks',
         \A d \in call'[x].solo : s3'[d] = s3[d] /\ ddb'[d] = ddb[d]
  PROVE  Delivered(x)'
<1>1. Delivered(x)
  BY AgreeFacts
<1>2. \A d \in call'[x].solo, store \in {"s3", "ddb"} :
        /\ Done(x, d, store) => Done(x, d, store)'
        /\ Coming(x, d, store) => Coming(x, d, store)'
  BY DEF Done, Coming, Kept
<1>. QED BY <1>1, <1>2 DEF Delivered, Kept

(* A client with no call has nothing to follow. *)
LEMMA IdleFollows ==
  ASSUME NEW c \in Clients, call'[c] = Idle
  PROVE  Follows(c)'
<1>1. Idle.pc = "idle" /\ Idle.solo = {}
  BY DEF Idle
<1>. QED BY <1>1 DEF Follows, Alone, TasksMatch, Delivered, UpdateShaped, UpdateFollows, Active

(* A step of the call of c, while it is under way, need only be looked at  *)
(* for c itself and for its documents.                                     *)
LEMMA ClientKeeps ==
  ASSUME AgreeInv, NEW c \in Clients, call[c].pc # "idle",
         \A x \in Clients \ {c} : call'[x] = call[x],
         call'[c].pc = "idle" \/ call'[c].docs = call[c].docs,
         tasks' \subseteq tasks,
         \A t \in tasks : t.call # call[c].id => t \in tasks',
         \A t \in tasks' : \A d \in t.docs : settled'[d] # Unsettled => t.call # call[c].id,
         \A d \in Docs \ call[c].docs : s3'[d] = s3[d] /\ ddb'[d] = ddb[d] /\ settled'[d] = settled[d],
         \A d \in call[c].docs : settled'[d] # Unsettled => settled[d] # Unsettled \/ d \in call[c].solo,
         Follows(c)',
         \A d \in call[c].docs : settled'[d] # Unsettled =>
           Holds(d, settled[d])' \/ \E x \in Clients : Midway(x, d)'
  PROVE  (\A x \in Clients : Follows(x)') /\ TasksRun' /\ Orphans' /\ SettledTracked'
<1>0. /\ TypeOK /\ IdsOwned
      /\ \A x \in Clients : /\ Alone(x) /\ TasksMatch(x) /\ UpdateShaped(x)
                            /\ call[x].docs \subseteq Docs /\ call[x].solo \subseteq Docs
      /\ TasksRun /\ Orphans /\ SettledTracked
      /\ \A t \in tasks : t.docs \subseteq Docs
  BY AgreeFacts DEF AgreeInv
<1>1. ASSUME NEW x \in Clients \ {c}
      PROVE  Follows(x)'
  <2>1. Kept(x)
    BY DEF Kept
  <2>2. \A d \in call'[x].solo : d \in call[x].solo /\ d \in Docs /\ d \notin call[c].docs /\ d \notin call[c].solo
    BY <1>0 DEF Alone, Active
  <2>3. call[x].pc # "idle" => call[x].id # call[c].id
    BY <1>0 DEF IdsOwned
  <2>4. Alone(x)' /\ TasksMatch(x)' /\ UpdateShaped(x)' /\ UpdateFollows(x)'
    <3>1. \A y \in Clients \ {x}, d \in call'[x].solo : call'[y].pc # "idle" => d \notin call'[y].docs
      BY <1>0, <2>2 DEF Alone, Active
    <3>2. \A t \in tasks', d \in call'[x].solo : d \in t.docs => t.call = call[x].id
      BY <1>0, <2>2 DEF Alone
    <3>3. \A d \in call'[x].solo : settled'[d] = settled[d] /\ ddb'[d] = ddb[d]
      BY <2>2
    <3>. QED BY <2>1, <3>1, <3>2, <3>3, Bystander
  <2>5. Delivered(x)'
    <3>1. CASE call[x].pc = "idle"
      BY <3>1 DEF Delivered
    <3>2. CASE call[x].pc # "idle"
      <4>1. \A t \in tasks : t.call = call[x].id => t \in tasks'
        BY <2>3, <3>2
      <4>2. \A d \in call'[x].solo : s3'[d] = s3[d] /\ ddb'[d] = ddb[d]
        BY <2>2
      <4>. QED BY <2>1, <4>1, <4>2, DeliveredStill
    <3>. QED BY <3>1, <3>2
  <2>. QED BY <2>4, <2>5 DEF Follows
<1>2. TasksRun'
  BY <1>0 DEF TasksRun
<1>3. Orphans'
  <2>. SUFFICES ASSUME NEW t \in tasks', NEW d \in t.docs, settled'[d] # Unsettled
                PROVE  \E x \in Clients : call'[x].pc = "await" /\ call'[x].id = t.call
    BY DEF Orphans
  <2>1. t \in tasks /\ t.call # call[c].id /\ d \in Docs
    BY <1>0
  <2>2. settled[d] # Unsettled
    BY <1>0, <2>1 DEF Alone
  <2>3. PICK x \in Clients : call[x].pc = "await" /\ call[x].id = t.call
    BY <1>0, <2>1, <2>2 DEF Orphans
  <2>. QED BY <2>1, <2>3
<1>4. SettledTracked'
  <2>. SUFFICES ASSUME NEW d \in Docs, settled'[d] # Unsettled, d \notin call[c].docs
                PROVE  Holds(d, settled[d])' \/ \E x \in Clients : Midway(x, d)'
    BY DEF SettledTracked
  <2>1. settled'[d] = settled[d] /\ ~Midway(c, d)
    BY <1>0 DEF Alone, UpdateShaped, Midway
  <2>2. Holds(d, settled[d]) => Holds(d, settled[d])'
    BY <2>1 DEF Holds
  <2>3. \A x \in Clients \ {c} : Midway(x, d) => Midway(x, d)'
    BY DEF Midway
  <2>. QED BY <1>0, <2>1, <2>2, <2>3 DEF SettledTracked
<1>. QED BY <1>1, <1>2, <1>3, <1>4

(* A call that starts is alone on the documents nobody else may write, and *)
(* brings the tasks that will write them; it disturbs who else is there.   *)
LEMMA EnterKeepsAgree ==
  ASSUME AgreeInv, NEW c \in Clients, NEW new \in Call, Enter(c, new), NEW N,
         tasks' = tasks \cup N, UNCHANGED <<s3, ddb, settled>>,
         \A t \in N : /\ t.call = started + 1 /\ t.docs \subseteq new.docs /\ t.status = "run"
                      /\ t.op = IF new.op = "upsert" THEN "put" ELSE "del",
         \/ /\ new.pc = "await"
            /\ \A d \in new.docs, store \in {"s3", "ddb"} : \E t \in N : t.store = store /\ d \in t.docs
         \/ new.pc = "read" /\ N = {} /\ new.docs = {new.doc}
  PROVE  (\A x \in Clients : Follows(x)') /\ TasksRun' /\ Orphans' /\ SettledTracked'
<1>. DEFINE Solo == {d \in new.docs : ~Busy(d)}
            Own == [new EXCEPT !.id = started + 1, !.solo = Solo]
            Other(y) == [call[y] EXCEPT !.solo = @ \ new.docs]
<1>0. /\ TypeOK /\ IdsOwned /\ started \in Nat
      /\ \A t \in tasks : t.call # started + 1 /\ t.docs \subseteq Docs
      /\ \A x \in Clients : /\ call[x] \in Call /\ Alone(x) /\ TasksMatch(x) /\ Delivered(x)
                            /\ UpdateShaped(x) /\ UpdateFollows(x)
                            /\ call[x].docs \subseteq Docs /\ call[x].solo \subseteq Docs
      /\ TasksRun /\ Orphans /\ SettledTracked
  BY AgreeFacts DEF AgreeInv
<1>1. call' = [y \in Clients |-> IF y = c THEN Own ELSE Other(y)] /\ call[c].pc = "idle"
  BY Zenon DEF Enter
<1>2. \A d \in Solo : /\ d \in new.docs
                      /\ \A x \in Clients : call[x].pc # "idle" => d \notin call[x].docs
                      /\ \A t \in tasks : d \notin t.docs
  BY DEF Busy
<1>. HIDE DEF Solo
<1>3. /\ Own.pc = new.pc /\ Own.id = started + 1 /\ Own.op = new.op /\ Own.docs = new.docs
      /\ Own.doc = new.doc /\ Own.solo = Solo
  BY DEF Call
<1>4. ASSUME NEW y \in Clients
      PROVE  /\ Other(y).pc = call[y].pc /\ Other(y).id = call[y].id /\ Other(y).op = call[y].op
             /\ Other(y).docs = call[y].docs /\ Other(y).doc = call[y].doc
             /\ Other(y).read = call[y].read /\ Other(y).text = call[y].text
             /\ Other(y).vec = call[y].vec /\ Other(y).sets = call[y].sets
             /\ Other(y).solo = call[y].solo \ new.docs
  BY <1>0 DEF Call
<1>. HIDE DEF Own, Other
<1>5. /\ call'[c].pc = new.pc /\ call'[c].id = started + 1 /\ call'[c].op = new.op
      /\ call'[c].docs = new.docs /\ call'[c].doc = new.doc
      /\ call'[c].solo = Solo
  BY <1>1, <1>3
<1>6. \A y \in Clients \ {c} : Kept(y) /\ call'[y].solo = call[y].solo \ new.docs
  BY <1>1, <1>4 DEF Kept
<1>7. ASSUME NEW x \in Clients \ {c}
      PROVE  Follows(x)'
  <2>1. Alone(x)' /\ TasksMatch(x)' /\ UpdateShaped(x)' /\ UpdateFollows(x)'
    <3>1. \A y \in Clients \ {x}, d \in call'[x].solo : call'[y].pc # "idle" => d \notin call'[y].docs
      BY <1>0, <1>5, <1>6 DEF Alone, Active, Kept
    <3>2. CASE call[x].pc = "idle"
      <4>1. call[x].solo = {}
        BY <1>0, <3>2 DEF Alone, Active
      <4>. QED BY <1>6, <3>2, <4>1 DEF Kept, Alone, TasksMatch, UpdateShaped, UpdateFollows, Active
    <3>3. CASE call[x].pc # "idle"
      <4>1. call[x].id # started + 1
        BY <1>0, <3>3 DEF IdsOwned
      <4>2. \A t \in tasks' : t.call = call[x].id => t \in tasks
        BY <4>1
      <4>3. \A t \in tasks', d \in call'[x].solo : d \in t.docs => t.call = call[x].id
        BY <1>0, <1>6 DEF Alone
      <4>. QED BY <1>6, <3>1, <4>2, <4>3, Bystander
    <3>. QED BY <3>2, <3>3
  <2>2. Delivered(x)'
    BY <1>6, DeliveredStill
  <2>. QED BY <2>1, <2>2 DEF Follows
<1>8. Follows(c)'
  <2>1. \A t \in tasks' : t.call = started + 1 <=> t \in N
    BY <1>0
  <2>2. Alone(c)'
    <3>1. new.pc # "idle"
      OBVIOUS
    <3>2. \A d \in Solo : \A x \in Clients \ {c} : call'[x].pc # "idle" => d \notin call'[x].docs
      BY <1>2, <1>6 DEF Kept
    <3>3. \A d \in Solo : \A t \in tasks' : d \in t.docs => t.call = started + 1
      BY <1>2
    <3>. QED BY <1>2, <1>5, <3>1, <3>2, <3>3 DEF Alone, Active
  <2>3. TasksMatch(c)'
    BY <1>5, <2>1 DEF TasksMatch, Active
  <2>4. Delivered(c)'
    BY <1>2, <1>5 DEF Delivered, Coming
  <2>5. UpdateShaped(c)' /\ UpdateFollows(c)'
    BY <1>5 DEF UpdateShaped, UpdateFollows
  <2>. QED BY <2>2, <2>3, <2>4, <2>5 DEF Follows
<1>9. TasksRun'
  BY <1>0 DEF TasksRun
<1>10. Orphans'
  <2>. SUFFICES ASSUME NEW t \in tasks', NEW d \in t.docs, settled'[d] # Unsettled
                PROVE  \E x \in Clients : call'[x].pc = "await" /\ call'[x].id = t.call
    BY DEF Orphans
  <2>1. CASE t \in N
    BY <1>5, <2>1
  <2>2. CASE t \in tasks
    <3>1. PICK x \in Clients : call[x].pc = "await" /\ call[x].id = t.call
      BY <1>0, <2>2 DEF Orphans
    <3>2. x # c
      BY <1>1, <3>1
    <3>. QED BY <1>6, <3>1, <3>2 DEF Kept
  <2>. QED BY <2>1, <2>2
<1>11. SettledTracked'
  <2>1. \A d \in Docs : Holds(d, settled[d]) => Holds(d, settled[d])'
    BY DEF Holds
  <2>2. \A x \in Clients, d \in Docs : Midway(x, d) => Midway(x, d)'
    BY <1>1, <1>6 DEF Midway, Kept
  <2>. QED BY <1>0, <2>1, <2>2 DEF SettledTracked
<1>. QED BY <1>7, <1>8, <1>9, <1>10, <1>11

(* upsert and delete start with the tasks for all their documents, update  *)
(* with none.                                                              *)
LEMMA StartKeepsAgree ==
  ASSUME AgreeInv, NEW c \in Clients, Upsert(c) \/ Delete(c) \/ Update(c)
  PROVE  (\A x \in Clients : Follows(x)') /\ TasksRun' /\ Orphans' /\ SettledTracked'
<1>1. CASE Upsert(c)
  <2>1. PICK b \in Batches, ttl \in TTLs :
          Enter(c, BatchCall("upsert", BatchDocs(b))) /\ tasks' = tasks \cup PutTasks(started + 1, b, ttl)
    BY <1>1 DEF Upsert
  <2>. DEFINE new == BatchCall("upsert", BatchDocs(b))
              N == PutTasks(started + 1, b, ttl)
  <2>2. BatchDocs(b) \in SUBSET Docs
    BY BatchesAssumption, BatchDocsType
  <2>3. new \in Call /\ new.pc = "await" /\ new.op = "upsert" /\ new.docs = BatchDocs(b)
    BY <2>2, BatchCallType DEF BatchCall, Idle
  <2>4. \A t \in N : t.call = started + 1 /\ t.docs \subseteq BatchDocs(b) /\ t.status = "run" /\ t.op = "put"
    BY DEF PutTasks, BatchDocs
  <2>5. \A d \in BatchDocs(b), store \in {"s3", "ddb"} : \E t \in N : t.store = store /\ d \in t.docs
    <3>. SUFFICES ASSUME NEW n \in 1 .. Len(b), NEW d \in b[n]
                  PROVE  /\ \E t \in N : t.store = "s3" /\ d \in t.docs
                         /\ \E t \in N : t.store = "ddb" /\ d \in t.docs
      BY DEF BatchDocs
    <3>. DEFINE put(m, store) == [call |-> started + 1, n |-> m, store |-> store, op |-> "put",
                                  docs |-> b[n], ttl |-> ttl, status |-> "run"]
    <3>1. put(n, "s3") \in N /\ put(Len(b) + n, "ddb") \in N
      BY DEF PutTasks
    <3>2. \A m, store : put(m, store).store = store /\ put(m, store).docs = b[n]
      OBVIOUS
    <3>. HIDE DEF put, N
    <3>. QED BY <3>1, <3>2
  <2>6. UNCHANGED <<s3, ddb, settled>>
    BY <1>1 DEF Upsert
  <2>. HIDE DEF new, N
  <2>7. Enter(c, new) /\ tasks' = tasks \cup N
    BY <2>1 DEF new, N
  <2>. QED BY <2>3, <2>4, <2>5, <2>6, <2>7, EnterKeepsAgree
<1>2. CASE Delete(c)
  <2>1. PICK b \in Batches :
          Enter(c, BatchCall("delete", BatchDocs(b))) /\ tasks' = tasks \cup DelTasks(started + 1, BatchDocs(b))
    BY <1>2 DEF Delete
  <2>. DEFINE new == BatchCall("delete", BatchDocs(b))
              N == DelTasks(started + 1, BatchDocs(b))
  <2>2. BatchDocs(b) \in SUBSET Docs
    BY BatchesAssumption, BatchDocsType
  <2>3. new \in Call /\ new.pc = "await" /\ new.op = "delete" /\ new.docs = BatchDocs(b)
    BY <2>2, BatchCallType DEF BatchCall, Idle
  <2>4. \A t \in N : t.call = started + 1 /\ t.docs = BatchDocs(b) /\ t.status = "run" /\ t.op = "del"
    BY DEF DelTasks
  <2>5. \A d \in BatchDocs(b), store \in {"s3", "ddb"} : \E t \in N : t.store = store /\ d \in t.docs
    BY DEF DelTasks
  <2>6. UNCHANGED <<s3, ddb, settled>>
    BY <1>2 DEF Delete
  <2>. HIDE DEF new, N
  <2>7. Enter(c, new) /\ tasks' = tasks \cup N
    BY <2>1 DEF new, N
  <2>. QED BY <2>3, <2>4, <2>5, <2>6, <2>7, EnterKeepsAgree
<1>3. CASE Update(c)
  <2>1. PICK d \in Docs : Enter(c, UpdateCall(d))
    BY <1>3 DEF Update
  <2>. DEFINE new == UpdateCall(d)
              N == {}
  <2>2. /\ new \in Call /\ new.pc = "read" /\ new.docs = {new.doc}
    BY UpdateCallType DEF UpdateCall, Idle
  <2>3. UNCHANGED <<s3, ddb, settled, tasks>>
    BY <1>3 DEF Update
  <2>4. tasks' = tasks \cup N /\ N = {} /\ \A t \in N : FALSE
    BY <2>3
  <2>. HIDE DEF new, N
  <2>5. Enter(c, new)
    BY <2>1 DEF new
  <2>. QED BY <2>2, <2>3, <2>4, <2>5, EnterKeepsAgree
<1>. QED BY <1>1, <1>2, <1>3

(* An upsert or a delete that returns has delivered everything; one that   *)
(* raises gives up what was settled.                                       *)
LEMMA AwaitKeepsAgree ==
  ASSUME AgreeInv, NEW c \in Clients, AwaitOk(c) \/ AwaitRaise(c)
  PROVE  (\A x \in Clients : Follows(x)') /\ TasksRun' /\ Orphans' /\ SettledTracked'
<1>0. /\ TypeOK /\ Alone(c) /\ TasksMatch(c) /\ Delivered(c) /\ TasksRun
      /\ call[c].docs \subseteq Docs /\ call[c].solo \subseteq Docs
      /\ call[c].pc = "await" /\ Leave(c) /\ UNCHANGED <<s3, ddb>>
  BY AgreeFacts DEF AgreeInv, AwaitOk, AwaitRaise
<1>1. call'[c] = Idle /\ \A x \in Clients \ {c} : call'[x] = call[x]
  BY <1>0 DEF Leave, TypeOK
<1>2. Follows(c)' /\ call'[c].pc = "idle"
  BY <1>1, IdleFollows, IdleFacts
<1>3. /\ tasks' \subseteq tasks
      /\ \A t \in tasks : t.call # call[c].id => t \in tasks'
      /\ \A d \in call[c].docs : settled'[d] # Unsettled => d \in call[c].solo
      /\ \A d \in Docs \ call[c].docs : settled'[d] = settled[d]
  BY <1>0 DEF AwaitOk, AwaitRaise, TasksOf, TypeOK, Succeeded, Unsettle, Alone
<1>4. \A t \in tasks' : \A d \in t.docs : settled'[d] # Unsettled => t.call # call[c].id
  <2>1. CASE AwaitOk(c)
    BY <1>3, <2>1 DEF AwaitOk, TasksOf
  <2>2. CASE AwaitRaise(c)
    BY <1>0, <1>3, <2>2 DEF AwaitRaise, TasksMatch, Active, Unsettle
  <2>. QED BY <2>1, <2>2
<1>5. \A d \in call[c].docs : settled'[d] # Unsettled => Holds(d, settled[d])'
  <2>1. CASE AwaitOk(c)
    <3>. SUFFICES ASSUME NEW d \in call[c].solo PROVE Holds(d, settled[d])'
      BY <1>3
    <3>1. \A store : ~Coming(c, d, store)
      BY <1>0, <2>1 DEF AwaitOk, TasksOf, Coming, TasksRun
    <3>2. Done(c, d, "s3") /\ Done(c, d, "ddb")
      BY <1>0, <3>1 DEF Delivered
    <3>. DEFINE id == call[c].id
                done == [text |-> id, vec |-> id, rev |-> id]
    <3>3. done \in Content /\ done.text = id /\ done.vec = id /\ done.rev = id
      BY <1>0 DEF TypeOK, Call, Content
    <3>4. settled'[d] = IF call[c].op = "upsert" THEN done ELSE None
      BY <1>0, <2>1 DEF AwaitOk, Succeeded
    <3>. HIDE DEF done
    <3>5. Holds(d, settled'[d])
      BY <3>2, <3>3, <3>4, UnsettledAssumption DEF Done, Holds
    <3>. QED BY <1>0, <3>5 DEF Holds
  <2>2. CASE AwaitRaise(c)
    BY <1>0, <2>2 DEF AwaitRaise, Unsettle
  <2>. QED BY <2>1, <2>2
<1>. QED BY <1>0, <1>1, <1>2, <1>3, <1>4, <1>5, ClientKeeps

(* A step of an update: it has no tasks, and where the stores of its       *)
(* document were apart before it, a call that explains it is still there.  *)
LEMMA UpdateSteps ==
  ASSUME AgreeInv, NEW c \in Clients, call[c].pc \in UpdatePcs, NEW d, d = call[c].doc,
         \A x \in Clients \ {c} : call'[x] = call[x],
         call'[c].pc = "idle" \/ call'[c].docs = call[c].docs,
         tasks' = tasks,
         \A e \in Docs \ {d} : s3'[e] = s3[e] /\ ddb'[e] = ddb[e] /\ settled'[e] = settled[e],
         settled'[d] # Unsettled => settled[d] # Unsettled \/ d \in call[c].solo,
         Follows(c)',
         settled'[d] # Unsettled =>
           \/ Holds(d, settled[d])' \/ Midway(c, d)'
           \/ call[c].pc # "put" /\ settled'[d] = settled[d] /\ s3'[d] = s3[d] /\ ddb'[d] = ddb[d]
  PROVE  (\A x \in Clients : Follows(x)') /\ TasksRun' /\ Orphans' /\ SettledTracked'
<1>0. /\ Alone(c) /\ TasksMatch(c) /\ UpdateShaped(c) /\ SettledTracked
      /\ call[c].pc # "idle" /\ call[c].pc # "await"
  BY AgreeFacts DEF AgreeInv
<1>1. call[c].docs = {d} /\ d \in Docs
  BY <1>0, AgreeFacts DEF UpdateShaped
<1>2. \A t \in tasks' : t.call # call[c].id
  BY <1>0 DEF TasksMatch, Active
<1>3. settled'[d] # Unsettled => Holds(d, settled[d])' \/ \E x \in Clients : Midway(x, d)'
  <2>1. CASE /\ settled'[d] # Unsettled
             /\ call[c].pc # "put" /\ settled'[d] = settled[d] /\ s3'[d] = s3[d] /\ ddb'[d] = ddb[d]
    <3>1. Holds(d, settled[d]) \/ \E x \in Clients \ {c} : Midway(x, d)
      BY <1>0, <1>1, <2>1 DEF SettledTracked, Midway
    <3>2. Holds(d, settled[d]) => Holds(d, settled[d])'
      BY <2>1 DEF Holds
    <3>3. \A x \in Clients \ {c} : Midway(x, d) => Midway(x, d)'
      BY DEF Midway
    <3>. QED BY <3>1, <3>2, <3>3
  <2>2. CASE Holds(d, settled[d])' \/ Midway(c, d)'
    BY <2>2
  <2>. QED BY <2>1, <2>2
<1>. QED BY <1>0, <1>1, <1>2, <1>3, ClientKeeps

(* update(): alone on its document, it reads and writes back what the      *)
(* stores hold of it; with a vector of its own it needs nothing else.      *)
LEMMA UpdateKeepsAgree ==
  ASSUME AgreeInv, NEW c \in Clients,
         \/ UpdateRead(c) \/ UpdateEmbed(c) \/ UpdateFetch(c)
         \/ UpdateCommit(c) \/ UpdatePut(c) \/ UpdateFault(c)
  PROVE  (\A x \in Clients : Follows(x)') /\ TasksRun' /\ Orphans' /\ SettledTracked'
<1>0. /\ TypeOK /\ Alone(c) /\ TasksMatch(c) /\ UpdateShaped(c) /\ UpdateFollows(c) /\ SettledTracked
      /\ call \in [Clients -> Call] /\ call[c] \in Call
      /\ call[c].docs \subseteq Docs /\ call[c].solo \subseteq Docs
  BY AgreeFacts DEF AgreeInv, TypeOK
<1>1. call[c].pc \in UpdatePcs
  BY DEF UpdateRead, UpdateEmbed, UpdateFetch, UpdateCommit, UpdatePut, UpdateFault
<1>2. PICK d \in Docs : d = call[c].doc
  BY <1>0, <1>1 DEF TypeOK, DocKnown
<1>3. call[c].docs = {d} /\ \A t \in tasks : t.call # call[c].id
  BY <1>0, <1>1, <1>2 DEF UpdateShaped, TasksMatch, Active
(* The call ends. *)
<1>4. ASSUME Leave(c), UNCHANGED tasks,
             \A e \in Docs \ {d} : s3'[e] = s3[e] /\ ddb'[e] = ddb[e] /\ settled'[e] = settled[e],
             settled'[d] # Unsettled => settled[d] # Unsettled \/ d \in call[c].solo,
             settled'[d] # Unsettled =>
               \/ Holds(d, settled[d])'
               \/ call[c].pc # "put" /\ settled'[d] = settled[d] /\ s3'[d] = s3[d] /\ ddb'[d] = ddb[d]
      PROVE  (\A x \in Clients : Follows(x)') /\ TasksRun' /\ Orphans' /\ SettledTracked'
  <2>1. call'[c] = Idle /\ \A x \in Clients \ {c} : call'[x] = call[x]
    BY <1>0, <1>4 DEF Leave
  <2>2. Follows(c)' /\ call'[c].pc = "idle"
    BY <2>1, IdleFollows, IdleFacts
  <2>. QED BY <1>1, <1>2, <1>4, <2>1, <2>2, UpdateSteps
(* The call goes on. *)
<1>5. ASSUME \A x \in Clients \ {c} : call'[x] = call[x],
             UNCHANGED <<tasks, s3, settled>>, \A e \in Docs \ {d} : ddb'[e] = ddb[e],
             call'[c].id = call[c].id, call'[c].docs = call[c].docs, call'[c].doc = d,
             call'[c].solo = call[c].solo,
             call'[c].pc \in UpdatePcs, UpdateShaped(c)', UpdateFollows(c)',
             call[c].pc # "put",
             call'[c].pc = "put" \/ ddb'[d] = ddb[d]
      PROVE  (\A x \in Clients : Follows(x)') /\ TasksRun' /\ Orphans' /\ SettledTracked'
  <2>1. Alone(c)'
    BY <1>0, <1>1, <1>5 DEF Alone, Active
  <2>2. TasksMatch(c)' /\ Delivered(c)'
    BY <1>3, <1>5 DEF TasksMatch, Delivered
  <2>3. Follows(c)'
    BY <1>5, <2>1, <2>2 DEF Follows
  <2>4. call'[c].pc = "put" => Midway(c, d)'
    BY <1>5 DEF Midway
  <2>. QED BY <1>0, <1>1, <1>2, <1>5, <2>3, <2>4, UpdateSteps
<1>6. CASE Reject(c) /\ call[c].pc # "put"
  BY <1>4, <1>6 DEF Reject
<1>7. CASE UpdateRead(c) /\ ~Reject(c)
  <2>1. /\ call' = [call EXCEPT ![c].pc = "vector", ![c].read = ddb[d], ![c].seen = epoch[d]]
        /\ call[c].pc = "read" /\ UNCHANGED <<s3, ddb, tasks, settled>>
    BY <1>2, <1>7 DEF UpdateRead
  <2>2. /\ \A x \in Clients \ {c} : call'[x] = call[x]
        /\ call'[c].pc = "vector" /\ call'[c].read = ddb[d] /\ call'[c].id = call[c].id
        /\ call'[c].docs = call[c].docs /\ call'[c].doc = d /\ call'[c].solo = call[c].solo
    BY <1>0, <1>2, <2>1 DEF Call
  <2>3. UpdateShaped(c)' /\ UpdateFollows(c)'
    BY <1>0, <1>2, <1>3, <2>1, <2>2 DEF UpdateShaped, UpdateFollows
  <2>. QED BY <1>5, <2>1, <2>2, <2>3
(* What it will write is what will be due.                                 *)
<1>14. ASSUME call[c].pc = "vector", d \in call[c].solo, settled[d] # Unsettled
       PROVE  Holds(d, settled[d]) /\ call[c].read = ddb[d]
  <2>1. \A x \in Clients : ~Midway(x, d)
    <3>1. ASSUME NEW x \in Clients, Midway(x, d) PROVE FALSE
      <4>1. UpdateShaped(x) /\ x # c
        BY <1>14, <3>1, AgreeFacts DEF Midway
      <4>. QED BY <1>0, <1>14, <3>1, <4>1 DEF Alone, Active, Midway, UpdateShaped
    <3>. QED BY <3>1
  <2>2. Holds(d, settled[d])
    BY <1>0, <1>2, <1>14, <2>1 DEF SettledTracked
  <2>. QED BY <1>0, <1>2, <1>14, <2>2 DEF UpdateFollows
<1>15. ASSUME call[c].pc = "vector", UNCHANGED <<s3, ddb, tasks, settled>>, NEW new, NEW vec,
              call' = [call EXCEPT ![c].pc = "commit", ![c].text = TextFor(c, new),
                                   ![c].vec = vec, ![c].sets = new],
              "vec" \in new => vec = call[c].id,
              "vec" \notin new => s3[d] # None /\ vec = s3[d].vec
       PROVE  (\A x \in Clients : Follows(x)') /\ TasksRun' /\ Orphans' /\ SettledTracked'
  <2>. DEFINE text == TextFor(c, new)
  <2>1. /\ \A x \in Clients \ {c} : call'[x] = call[x]
        /\ call'[c].pc = "commit" /\ call'[c].id = call[c].id
        /\ call'[c].text = text /\ call'[c].vec = vec /\ call'[c].sets = new
        /\ call'[c].docs = call[c].docs /\ call'[c].doc = d /\ call'[c].solo = call[c].solo
    <3>. HIDE DEF text
    <3>1. call' = [call EXCEPT ![c].pc = "commit", ![c].text = text, ![c].vec = vec, ![c].sets = new]
      BY <1>15 DEF text
    <3>. QED BY <1>0, <1>2, <3>1 DEF Call
  <2>2. UpdateShaped(c)'
    BY <1>3, <2>1 DEF UpdateShaped
  <2>. DEFINE id == call[c].id
              old == IF settled[d] = None THEN [text |-> 0, vec |-> 0] ELSE settled[d]
              part == [text |-> IF "text" \in new THEN id ELSE old.text,
                       vec |-> IF "vec" \in new THEN id ELSE old.vec,
                       rev |-> id]
              due == IF new = {"text", "vec"} THEN [text |-> id, vec |-> id, rev |-> id]
                     ELSE IF settled[d] = Unsettled THEN Unsettled ELSE part
  <2>3. Amended(c, settled[d])' = due
    BY <1>2, <1>15, <2>1 DEF Amended
  <2>4. d \in call[c].solo /\ due # Unsettled => text = due.text /\ vec = due.vec
    <3>. SUFFICES ASSUME d \in call[c].solo, due # Unsettled
                  PROVE  text = due.text /\ vec = due.vec
      OBVIOUS
    <3>1. CASE new = {"text", "vec"}
      BY <1>15, <3>1 DEF TextFor
    <3>2. CASE new # {"text", "vec"}
      <4>1. settled[d] # Unsettled /\ due = part
        BY <3>2
      <4>2. Holds(d, settled[d]) /\ call[c].read = ddb[d]
        BY <1>14, <1>15, <4>1
      <4>3. text = part.text
        BY <4>2 DEF TextFor, Holds
      <4>4. vec = part.vec
        BY <1>15, <4>2 DEF Holds
      <4>. QED BY <4>1, <4>3, <4>4
    <3>. QED BY <3>1, <3>2
  <2>. HIDE DEF text, due
  <2>5. UpdateFollows(c)'
    BY <1>15, <2>1, <2>3, <2>4 DEF UpdateFollows
  <2>. QED BY <1>5, <1>15, <2>1, <2>2, <2>5
<1>8. CASE UpdateEmbed(c)
  <2>1. PICK new \in {{"vec"}, {"text", "vec"}} :
          call' = [call EXCEPT ![c].pc = "commit", ![c].text = TextFor(c, new),
                               ![c].vec = call[c].id, ![c].sets = new]
    BY <1>8 DEF UpdateEmbed
  <2>2. call[c].pc = "vector" /\ UNCHANGED <<s3, ddb, tasks, settled>> /\ "vec" \in new
    BY <1>8 DEF UpdateEmbed
  <2>. QED BY <1>15, <2>1, <2>2
<1>9. CASE UpdateFetch(c) /\ ~Reject(c)
  <2>1. PICK new \in {{}, {"text"}} :
          call' = [call EXCEPT ![c].pc = "commit", ![c].text = TextFor(c, new),
                               ![c].vec = s3[d].vec, ![c].sets = new]
    BY <1>2, <1>9 DEF UpdateFetch
  <2>2. /\ s3[d] # None /\ call[c].pc = "vector" /\ UNCHANGED <<s3, ddb, tasks, settled>>
        /\ "vec" \notin new
    BY <1>2, <1>9 DEF UpdateFetch
  <2>. QED BY <1>15, <2>1, <2>2
<1>10. CASE UpdateCommit(c) /\ ~Reject(c)
  <2>1. PICK ttl \in TTLs : ddb' = [ddb EXCEPT ![d] = NewItem(c, ttl)]
    BY <1>2, <1>10 DEF UpdateCommit
  <2>2. /\ call' = [call EXCEPT ![c].pc = "put"]
        /\ call[c].pc = "commit" /\ UNCHANGED <<s3, tasks, settled>>
    BY <1>10 DEF UpdateCommit
  <2>3. /\ \A x \in Clients \ {c} : call'[x] = call[x]
        /\ call'[c].pc = "put" /\ call'[c].id = call[c].id
        /\ call'[c].text = call[c].text /\ call'[c].vec = call[c].vec
        /\ call'[c].sets = call[c].sets
        /\ call'[c].docs = call[c].docs /\ call'[c].doc = d /\ call'[c].solo = call[c].solo
    BY <1>0, <1>2, <2>2 DEF Call
  <2>4. NewItem(c, ttl).text = call[c].text /\ NewItem(c, ttl).rev = call[c].id /\ NewItem(c, ttl) # None
    <3>1. NewItem(c, ttl) \in Item
      BY <1>0, NewItemType
    <3>. QED BY <3>1, NoneAssumption DEF NewItem
  <2>5. ddb'[d] = NewItem(c, ttl) /\ \A e \in Docs \ {d} : ddb'[e] = ddb[e]
    BY <1>0, <2>1 DEF TypeOK
  <2>6. UpdateShaped(c)' /\ UpdateFollows(c)'
    <3>1. Amended(c, settled[d])' = Amended(c, settled[d])
      BY <1>2, <2>2, <2>3 DEF Amended
    <3>2. UpdateShaped(c)'
      BY <1>3, <2>3 DEF UpdateShaped
    <3>. QED BY <1>0, <1>2, <2>2, <2>3, <2>4, <2>5, <3>1, <3>2 DEF UpdateFollows
  <2>. QED BY <1>5, <2>2, <2>3, <2>5, <2>6
<1>11. CASE UpdatePut(c)
  <2>1. /\ s3' = [s3 EXCEPT ![d] = [vec |-> call[c].vec, rev |-> call[c].id]]
        /\ settled' = [settled EXCEPT ![d] =
                         IF d \in call[c].solo THEN Amended(c, settled[d]) ELSE Unsettled]
        /\ call[c].pc = "put" /\ Leave(c) /\ UNCHANGED <<ddb, tasks>>
    BY <1>2, <1>11 DEF UpdatePut
  <2>2. /\ s3'[d].vec = call[c].vec /\ s3'[d].rev = call[c].id /\ s3'[d] # None
        /\ \A e \in Docs \ {d} : s3'[e] = s3[e]
    <3>1. [vec |-> call[c].vec, rev |-> call[c].id] \in Entry
      BY <1>0, NewEntryType
    <3>. QED BY <1>0, <2>1, <3>1, NoneAssumption DEF TypeOK
  <2>3. /\ settled'[d] = IF d \in call[c].solo THEN Amended(c, settled[d]) ELSE Unsettled
        /\ \A e \in Docs \ {d} : settled'[e] = settled[e]
    BY <1>0, <2>1 DEF TypeOK
  <2>4. settled'[d] # Unsettled => Holds(d, settled[d])'
    <3>. DEFINE due == Amended(c, settled[d])
    <3>. SUFFICES ASSUME d \in call[c].solo, due # Unsettled, settled'[d] = due
                  PROVE  Holds(d, settled[d])'
      BY <2>3
    <3>1. due # None /\ due.rev = call[c].id
      <4>1. call[c].id \in Ids /\ settled[d] \in Content \cup {None, Unsettled}
        BY <1>0 DEF Call, TypeOK
      <4>. QED BY <4>1, AmendedType
    <3>2. call[c].text = due.text /\ call[c].vec = due.vec
      BY <1>0, <1>2, <2>1 DEF UpdateFollows
    <3>3. ddb'[d] # None /\ ddb'[d].rev = call[c].id /\ ddb'[d].text = call[c].text
      BY <1>0, <1>2, <2>1 DEF UpdateFollows
    <3>4. s3'[d] = [vec |-> call[c].vec, rev |-> call[c].id]
      BY <1>0, <2>1 DEF TypeOK
    <3>. HIDE DEF due
    <3>. QED BY <3>1, <3>2, <3>3, <3>4 DEF Holds
  <2>. QED BY <1>4, <2>1, <2>2, <2>3, <2>4
<1>12. CASE UpdateFault(c)
  <2>1. Leave(c) /\ UNCHANGED tasks
    BY <1>12 DEF UpdateFault
  <2>2. \A e \in Docs \ {d} : s3'[e] = s3[e] /\ ddb'[e] = ddb[e]
    BY <1>0, <1>2, <1>12 DEF UpdateFault, TypeOK
  <2>3. \/ settled' = Unsettle({d})
        \/ call[c].pc # "put" /\ UNCHANGED <<s3, ddb, settled>>
    BY <1>2, <1>12 DEF UpdateFault
  <2>4. CASE settled' = Unsettle({d})
    <3>1. settled'[d] = Unsettled /\ \A e \in Docs \ {d} : settled'[e] = settled[e]
      BY <2>4 DEF Unsettle
    <3>. QED BY <1>4, <2>1, <2>2, <3>1
  <2>5. CASE call[c].pc # "put" /\ UNCHANGED <<s3, ddb, settled>>
    BY <1>4, <2>1, <2>2, <2>5
  <2>. QED BY <2>3, <2>4, <2>5
<1>13. Reject(c) => call[c].pc # "put" \/ UpdatePut(c) \/ UpdateFault(c)
  BY DEF UpdateRead, UpdateEmbed, UpdateFetch, UpdateCommit
<1>. QED BY <1>6, <1>7, <1>8, <1>9, <1>10, <1>11, <1>12, <1>13

(* What a task leaves of itself is at most its own remaining documents,    *)
(* and it writes no other.                                                 *)
LEMMA TaskLeaves ==
  ASSUME TypeOK, NEW t \in tasks, TaskStep(t)
  PROVE  /\ UNCHANGED <<call, settled>> /\ t \in Task /\ t.status = "run"
         /\ \A e \in Docs \ t.docs : s3'[e] = s3[e] /\ ddb'[e] = ddb[e]
         /\ \A u \in tasks \ {t} : u \in tasks'
         /\ \A u \in tasks' : u \notin tasks =>
              /\ u.call = t.call /\ u.op = t.op /\ u.docs \subseteq t.docs
              /\ u.docs # {} => u.status = "run"
<1>1. t \in Task /\ t.status = "run" /\ UNCHANGED <<call, settled>>
  BY DEF TypeOK, TaskStep, TaskApply, TaskFail, MayRun
<1>2. \A e \in Docs \ t.docs : s3'[e] = s3[e] /\ ddb'[e] = ddb[e]
  BY DEF TypeOK, TaskStep, TaskApply, TaskFail, StoreWrite
<1>3. \A s : /\ [t EXCEPT !.docs = {}, !.status = s].call = t.call
             /\ [t EXCEPT !.docs = {}, !.status = s].op = t.op
             /\ [t EXCEPT !.docs = {}, !.status = s].docs = {}
  BY <1>1 DEF Task
<1>4. \A d : /\ [t EXCEPT !.docs = @ \ {d}].call = t.call
             /\ [t EXCEPT !.docs = @ \ {d}].op = t.op
             /\ [t EXCEPT !.docs = @ \ {d}].docs = t.docs \ {d}
             /\ [t EXCEPT !.docs = @ \ {d}].status = t.status
  BY <1>1 DEF Task
<1>5. \/ \E s : tasks' = (tasks \ {t}) \cup {[t EXCEPT !.docs = {}, !.status = s]}
      \/ tasks' = tasks \ {t}
      \/ \E d : tasks' = (tasks \ {t}) \cup {[t EXCEPT !.docs = @ \ {d}]}
  BY Zenon DEF TaskStep, TaskApply, TaskFail, Ended
<1>6. ASSUME NEW v, tasks' = (tasks \ {t}) \cup {v},
             v.call = t.call, v.op = t.op, v.docs = {} \/ (v.docs \subseteq t.docs /\ v.status = "run")
      PROVE  /\ \A u \in tasks \ {t} : u \in tasks'
             /\ \A u \in tasks' : u \notin tasks =>
                  /\ u.call = t.call /\ u.op = t.op /\ u.docs \subseteq t.docs
                  /\ u.docs # {} => u.status = "run"
  BY <1>6
<1>7. CASE tasks' = tasks \ {t}
  BY <1>1, <1>2, <1>7
<1>8. CASE \E s : tasks' = (tasks \ {t}) \cup {[t EXCEPT !.docs = {}, !.status = s]}
  <2>1. PICK s : tasks' = (tasks \ {t}) \cup {[t EXCEPT !.docs = {}, !.status = s]}
    BY <1>8
  <2>. DEFINE v == [t EXCEPT !.docs = {}, !.status = s]
  <2>2. v.call = t.call /\ v.op = t.op /\ v.docs = {}
    BY <1>3
  <2>3. tasks' = (tasks \ {t}) \cup {v}
    BY <2>1
  <2>. HIDE DEF v
  <2>. QED BY <1>1, <1>2, <1>6, <2>2, <2>3
<1>9. CASE \E d : tasks' = (tasks \ {t}) \cup {[t EXCEPT !.docs = @ \ {d}]}
  <2>1. PICK d : tasks' = (tasks \ {t}) \cup {[t EXCEPT !.docs = @ \ {d}]}
    BY <1>9
  <2>. DEFINE v == [t EXCEPT !.docs = @ \ {d}]
  <2>2. v.call = t.call /\ v.op = t.op /\ v.docs \subseteq t.docs /\ v.status = "run"
    BY <1>1, <1>4
  <2>3. tasks' = (tasks \ {t}) \cup {v}
    BY <2>1
  <2>. HIDE DEF v
  <2>. QED BY <1>1, <1>2, <1>6, <2>2, <2>3
<1>. QED BY <1>5, <1>7, <1>8, <1>9

(* The task of a call that waits for it delivers: what it has written is   *)
(* of the call, the rest it has kept, and if it fails the failure stays.   *)
LEMMA TaskDelivers ==
  ASSUME AgreeInv, NEW t \in tasks, TaskStep(t), NEW x \in Clients,
         call[x].pc = "await", t.call = call[x].id
  PROVE  Delivered(x)'
<1>0. /\ TypeOK /\ TasksMatch(x) /\ Delivered(x) /\ call[x].solo \subseteq Docs
      /\ UNCHANGED call /\ t \in Task /\ t.status = "run"
      /\ \A u \in tasks \ {t} : u \in tasks'
  BY AgreeFacts, TaskLeaves
<1>1. t.op = IF call[x].op = "upsert" THEN "put" ELSE "del"
  BY <1>0 DEF TasksMatch, Active
<1>2. \A s : Ended(t, s) = (tasks \ {t}) \cup {[t EXCEPT !.docs = {}, !.status = s]}
  BY DEF Ended
<1>3. CASE TaskFail(t)
  <2>1. PICK u \in tasks' : u = [t EXCEPT !.docs = {}, !.status = "err"]
    BY <1>2, <1>3 DEF TaskFail
  <2>2. u.call = t.call /\ u.status = "err"
    BY <1>0, <2>1 DEF Task
  <2>3. \A d, store : Coming(x, d, store)'
    BY <1>0, <2>2 DEF Coming
  <2>. QED BY <2>3 DEF Delivered
<1>4. CASE TaskApply(t)
  <2>1. PICK e \in t.docs :
          /\ StoreWrite(t, e)
          /\ tasks' = IF t.docs = {e} THEN Ended(t, "ok")
                      ELSE (tasks \ {t}) \cup {[t EXCEPT !.docs = @ \ {e}]}
    BY <1>4 DEF TaskApply
  <2>2. e \in Docs
    BY <1>0 DEF Task
  <2>. SUFFICES ASSUME NEW d \in call[x].solo, NEW store \in {"s3", "ddb"}
                PROVE  Done(x, d, store)' \/ Coming(x, d, store)'
    BY <1>0 DEF Delivered
  <2>3. d \in Docs
    BY <1>0
  <2>4. CASE d = e /\ store = t.store
    <3>1. CASE store = "s3"
      <4>1. s3'[d] = IF t.op = "put" THEN [vec |-> t.call, rev |-> t.call] ELSE None
        BY <1>0, <2>1, <2>3, <2>4, <3>1 DEF StoreWrite, TypeOK
      <4>. QED BY <1>0, <1>1, <3>1, <4>1 DEF Done
    <3>2. CASE store = "ddb"
      <4>. DEFINE item == [text |-> t.call, rev |-> t.call, version |-> 0, ttl |-> t.ttl]
      <4>1. ddb'[d] = IF t.op = "put" THEN item ELSE None
        BY <1>0, <2>1, <2>3, <2>4, <3>2 DEF StoreWrite, TypeOK
      <4>2. item.text = t.call /\ item.rev = t.call /\ item # None
        <5>1. item \in Item
          BY <1>0 DEF Task, Item
        <5>. QED BY <5>1, NoneAssumption
      <4>. HIDE DEF item
      <4>. QED BY <1>0, <1>1, <3>2, <4>1, <4>2 DEF Done
    <3>. QED BY <3>1, <3>2
  <2>5. CASE ~(d = e /\ store = t.store)
    <3>1. IF store = "s3" THEN s3'[d] = s3[d] ELSE ddb'[d] = ddb[d]
      BY <1>0, <2>1, <2>3, <2>5 DEF StoreWrite, TypeOK
    <3>2. Done(x, d, store) => Done(x, d, store)'
      BY <1>0, <3>1 DEF Done
    <3>3. ASSUME Coming(x, d, store) PROVE Coming(x, d, store)'
      <4>1. PICK v \in tasks : /\ v.call = call[x].id
                               /\ v.status = "err" \/ (v.store = store /\ d \in v.docs)
        BY <3>3 DEF Coming
      <4>2. CASE v # t
        BY <1>0, <4>1, <4>2 DEF Coming
      <4>3. CASE v = t
        <5>1. t.store = store /\ d \in t.docs /\ d # e
          BY <1>0, <2>5, <4>1, <4>3
        <5>2. PICK u \in tasks' : u = [t EXCEPT !.docs = @ \ {e}]
          BY <2>1, <5>1
        <5>3. u.call = t.call /\ u.store = store /\ d \in u.docs
          BY <1>0, <5>1, <5>2 DEF Task
        <5>. QED BY <1>0, <5>3 DEF Coming
      <4>. QED BY <4>2, <4>3
    <3>. QED BY <1>0, <3>2, <3>3 DEF Delivered
  <2>. QED BY <2>4, <2>5
<1>. QED BY <1>3, <1>4 DEF TaskStep

(* A task writes where the call it belongs to is under way, or where       *)
(* nothing is settled.                                                     *)
LEMMA TaskKeepsAgree ==
  ASSUME AgreeInv, NEW t \in tasks, TaskStep(t)
  PROVE  (\A x \in Clients : Follows(x)') /\ TasksRun' /\ Orphans' /\ SettledTracked'
<1>0. /\ TypeOK
      /\ \A x \in Clients : Alone(x) /\ TasksMatch(x) /\ call[x].solo \subseteq Docs
      /\ TasksRun /\ Orphans /\ SettledTracked
  BY AgreeFacts DEF AgreeInv, TypeOK
<1>1. /\ UNCHANGED <<call, settled>>
      /\ \A e \in Docs \ t.docs : s3'[e] = s3[e] /\ ddb'[e] = ddb[e]
      /\ \A u \in tasks \ {t} : u \in tasks'
      /\ \A u \in tasks' : u \notin tasks =>
           /\ u.call = t.call /\ u.op = t.op /\ u.docs \subseteq t.docs
           /\ u.docs # {} => u.status = "run"
  BY <1>0, TaskLeaves
<1>2. ASSUME NEW x \in Clients PROVE Follows(x)'
  <2>1. Kept(x)
    BY <1>1 DEF Kept
  <2>2. \A d \in call[x].solo : d \in Docs /\ (d \in t.docs => t.call = call[x].id)
    BY <1>0 DEF Alone
  <2>3. call[x].solo # {} => call[x].pc # "idle"
    BY <1>0 DEF Alone, Active
  <2>4. Alone(x)' /\ TasksMatch(x)' /\ UpdateShaped(x)' /\ UpdateFollows(x)'
    <3>1. \A y \in Clients \ {x}, d \in call'[x].solo : call'[y].pc # "idle" => d \notin call'[y].docs
      BY <1>0, <1>1 DEF Alone, Active
    <3>2. \A u \in tasks' : u.call = call[x].id =>
            \E v \in tasks : v.call = u.call /\ u.docs \subseteq v.docs /\ u.op = v.op
      BY <1>1
    <3>3. \A u \in tasks', d \in call'[x].solo : d \in u.docs => u.call = call[x].id
      BY <1>0, <1>1, <2>2 DEF Alone
    <3>4. call[x].pc = "await" \/ \A d \in call'[x].solo : ddb'[d] = ddb[d]
      BY <1>0, <1>1, <2>2, <2>3 DEF TasksMatch, Active
    <3>. QED BY <1>1, <2>1, <3>1, <3>2, <3>3, <3>4, Bystander
  <2>5. Delivered(x)'
    <3>1. CASE call[x].pc # "await"
      BY <1>1, <3>1 DEF Delivered
    <3>2. CASE call[x].pc = "await" /\ t.call = call[x].id
      BY <3>2, TaskDelivers
    <3>3. CASE t.call # call[x].id
      <4>1. \A u \in tasks : u.call = call[x].id => u \in tasks'
        BY <1>1, <3>3
      <4>2. \A d \in call'[x].solo : s3'[d] = s3[d] /\ ddb'[d] = ddb[d]
        BY <1>1, <2>2, <3>3
      <4>. QED BY <2>1, <4>1, <4>2, DeliveredStill
    <3>. QED BY <3>1, <3>2, <3>3
  <2>. QED BY <2>4, <2>5 DEF Follows
<1>3. TasksRun'
  BY <1>0, <1>1 DEF TasksRun
<1>4. Orphans'
  BY <1>0, <1>1 DEF Orphans
<1>5. SettledTracked'
  <2>. SUFFICES ASSUME NEW d \in Docs, settled[d] # Unsettled
                PROVE  Holds(d, settled[d])' \/ \E x \in Clients : Midway(x, d)'
    BY <1>1 DEF SettledTracked
  <2>1. \A x \in Clients : Midway(x, d) => Midway(x, d)'
    BY <1>1 DEF Midway
  <2>2. CASE d \in t.docs
    <3>1. PICK x \in Clients : call[x].pc = "await" /\ call[x].id = t.call
      BY <1>0, <2>2 DEF Orphans
    <3>2. Midway(x, d)
      BY <1>0, <2>2, <3>1 DEF TasksMatch, Active, Midway
    <3>. QED BY <2>1, <3>2
  <2>3. CASE d \notin t.docs
    <3>1. Holds(d, settled[d]) => Holds(d, settled[d])'
      BY <1>0, <1>1, <2>3 DEF Holds
    <3>. QED BY <1>0, <2>1, <3>1 DEF SettledTracked
  <2>. QED BY <2>2, <2>3
<1>. QED BY <1>2, <1>3, <1>4, <1>5

(* An expiry disturbs every call on its document and unsettles it.         *)
LEMMA ExpireKeepsAgree ==
  ASSUME AgreeInv, NEW d \in Docs, Expire(d)
  PROVE  (\A x \in Clients : Follows(x)') /\ TasksRun' /\ Orphans' /\ SettledTracked'
<1>0. /\ TypeOK
      /\ \A x \in Clients : Alone(x) /\ TasksMatch(x) /\ call[x] \in Call /\ call[x].solo \subseteq Docs
      /\ TasksRun /\ Orphans /\ SettledTracked
  BY AgreeFacts DEF AgreeInv, TypeOK
<1>1. /\ UNCHANGED <<s3, tasks>> /\ settled'[d] = Unsettled
      /\ \A e \in Docs \ {d} : ddb'[e] = ddb[e] /\ settled'[e] = settled[e]
  BY <1>0 DEF Expire, TypeOK, Unsettle
<1>2. \A x \in Clients : Kept(x) /\ call'[x].solo = call[x].solo \ {d}
  <2>1. call' = [x \in Clients |-> [call[x] EXCEPT !.solo = @ \ {d}]]
    BY DEF Expire
  <2>. QED BY <1>0, <2>1 DEF Kept, Call
<1>3. ASSUME NEW x \in Clients PROVE Follows(x)'
  <2>1. \A e \in call'[x].solo : e \in call[x].solo /\ e \in Docs \ {d}
    BY <1>0, <1>2
  <2>2. \A y \in Clients \ {x}, e \in call'[x].solo : call'[y].pc # "idle" => e \notin call'[y].docs
    BY <1>0, <1>2, <2>1 DEF Alone, Active, Kept
  <2>3. \A u \in tasks', e \in call'[x].solo : e \in u.docs => u.call = call[x].id
    BY <1>0, <1>1, <2>1 DEF Alone
  <2>4. Alone(x)' /\ TasksMatch(x)' /\ UpdateShaped(x)' /\ UpdateFollows(x)'
    BY <1>1, <1>2, <2>1, <2>2, <2>3, Bystander
  <2>5. Delivered(x)'
    BY <1>1, <1>2, <2>1, DeliveredStill
  <2>. QED BY <2>4, <2>5 DEF Follows
<1>4. TasksRun'
  BY <1>0, <1>1 DEF TasksRun
<1>5. Orphans'
  <2>. SUFFICES ASSUME NEW t \in tasks, NEW e \in t.docs, e # d, settled[e] # Unsettled
                PROVE  \E x \in Clients : call'[x].pc = "await" /\ call'[x].id = t.call
    <3>1. \A t \in tasks : t.docs \subseteq Docs
      BY AgreeFacts
    <3>. QED BY <1>1, <3>1 DEF Orphans
  <2>1. PICK x \in Clients : call[x].pc = "await" /\ call[x].id = t.call
    BY <1>0 DEF Orphans
  <2>. QED BY <1>2, <2>1 DEF Kept
<1>6. SettledTracked'
  <2>. SUFFICES ASSUME NEW e \in Docs, e # d, settled[e] # Unsettled
                PROVE  Holds(e, settled[e])' \/ \E x \in Clients : Midway(x, e)'
    BY <1>1 DEF SettledTracked
  <2>1. \A x \in Clients : Midway(x, e) => Midway(x, e)'
    BY <1>2 DEF Midway, Kept
  <2>2. Holds(e, settled[e]) => Holds(e, settled[e])'
    BY <1>0, <1>1 DEF Holds
  <2>. QED BY <1>0, <2>1, <2>2 DEF SettledTracked
<1>. QED BY <1>3, <1>4, <1>5, <1>6

(* Two empty stores, with nothing on its way, agree. *)
LEMMA AgreeInit ==
  ASSUME Init
  PROVE  AgreeInv
<1>1. RejectInv
  BY RejectInit
<1>2. \A c \in Clients : Follows(c)
  <2>1. Idle.pc = "idle" /\ Idle.solo = {}
    BY DEF Idle
  <2>. QED BY <2>1 DEF Init, Follows, Alone, TasksMatch, Delivered, UpdateShaped, UpdateFollows, Active
<1>3. TasksRun /\ Orphans
  BY DEF Init, TasksRun, Orphans
<1>4. SettledTracked
  BY DEF Init, SettledTracked, Holds
<1>. QED BY <1>1, <1>2, <1>3, <1>4 DEF AgreeInv

(* Every step keeps the stores of the settled documents in step. *)
LEMMA AgreeNext == AgreeInv /\ [Next]_vars => AgreeInv'
<1>. SUFFICES ASSUME AgreeInv, [Next]_vars PROVE AgreeInv'
  OBVIOUS
<1>1. RejectInv'
  BY RejectNext DEF AgreeInv
<1>2. (\A x \in Clients : Follows(x)') /\ TasksRun' /\ Orphans' /\ SettledTracked'
  <2>1. CASE UNCHANGED vars
    BY <2>1 DEF vars, AgreeInv, Follows, Alone, Active, TasksMatch, Delivered, Done, Coming,
                UpdateShaped, UpdateFollows, Amended, TasksRun, Orphans, SettledTracked, Holds, Midway
  <2>2. ASSUME NEW c \in Clients, ClientStep(c)
        PROVE  (\A x \in Clients : Follows(x)') /\ TasksRun' /\ Orphans' /\ SettledTracked'
    <3>1. CASE Upsert(c) \/ Delete(c) \/ Update(c)
      BY <3>1, StartKeepsAgree
    <3>2. CASE AwaitOk(c) \/ AwaitRaise(c)
      BY <3>2, AwaitKeepsAgree
    <3>3. CASE \/ UpdateRead(c) \/ UpdateEmbed(c) \/ UpdateFetch(c)
               \/ UpdateCommit(c) \/ UpdatePut(c) \/ UpdateFault(c)
      BY <3>3, UpdateKeepsAgree
    <3>. QED BY <2>2, <3>1, <3>2, <3>3 DEF ClientStep
  <2>3. ASSUME NEW t \in tasks, TaskStep(t)
        PROVE  (\A x \in Clients : Follows(x)') /\ TasksRun' /\ Orphans' /\ SettledTracked'
    BY <2>3, TaskKeepsAgree
  <2>4. ASSUME NEW d \in Docs, Expire(d)
        PROVE  (\A x \in Clients : Follows(x)') /\ TasksRun' /\ Orphans' /\ SettledTracked'
    BY <2>4, ExpireKeepsAgree
  <2>. QED BY <2>1, <2>2, <2>3, <2>4 DEF Next
<1>. QED BY <1>1, <1>2 DEF AgreeInv

(* The next quiet write repairs the two stores (upsert, delete, update of  *)
(* src/dynavec/client.py), for any number of clients, documents, chunks,   *)
(* calls and failures: after an upsert, a delete or an update of both text *)
(* and vector that ran undisturbed, S3 Vectors and DynamoDB hold what it   *)
(* wrote, and undisturbed updates of the text, the vector or the metadata  *)
(* alone change that and nothing else.                                     *)
THEOREM QuietWritesRepair == Spec => []QuietWritesAgree
<1>1. Init => AgreeInv
  BY AgreeInit
<1>2. AgreeInv => QuietWritesAgree
  <2>. SUFFICES ASSUME AgreeInv, NEW d \in Docs, NEW c \in Clients, Midway(c, d)
                PROVE  Busy(d)
    BY DEF AgreeInv, SettledTracked, QuietWritesAgree
  <2>1. UpdateShaped(c)
    BY AgreeFacts
  <2>2. call[c].pc # "idle" /\ d \in call[c].docs
    BY <2>1 DEF Midway, UpdateShaped
  <2>. QED BY <2>2 DEF Busy
<1>. QED BY <1>1, <1>2, AgreeNext, PTL DEF Spec
=============================================================================
