-------------------------- MODULE SPFresh_proofs ---------------------------
(***************************************************************************)
(* The two tables of the partitioned index describe one placement, and the *)
(* index is a map whatever it splits, merges and migrates: for any ids,    *)
(* vectors, partition objects, sizes and searches.                         *)
(***************************************************************************)
EXTENDS SPFresh, FiniteSetTheorems, TLAPS

(* The types the argument needs. *)
Typed ==
  /\ parts \in [Parts -> Stored]
  /\ live \subseteq Parts
  /\ home \in [Ids -> Parts \cup {None}]
  /\ op \in Op

(* What the locals of an operation say of the index. *)
Working ==
  /\ op.pc \in {"add", "land"} => op.id \in Ids /\ op.vec \in Vectors
  /\ op.pc \in {"split", "merge", "copy", "move", "land"} => op.src \in live
  /\ op.pc \in {"copy", "land"} => op.dst \in live \ {op.src}
  /\ op.pc \in {"copy", "move", "land"} => op.todo \subseteq Members(op.src)
  /\ op.pc \in {"migrates", "move", "land"} => op.pids \subseteq live
  /\ op.pc = "land" => parts[op.src][op.id] = None

(* The vector that _id_to_partition should find in p. *)
Found(id, p) == /\ p \in live
                /\ parts[p][id] # None
                /\ ~(op.pc = "copy" /\ p = op.src /\ id \notin op.todo)

(* Placed, with what is missing while a merge or a migration is at work:   *)
(* a vector that was copied is still in the old partition, and one that is *)
(* between two partitions is in neither.                                   *)
PlacedThroughout ==
  \A id \in Ids, p \in Parts :
    home[id] = p <=> Found(id, p) \/ (op.pc = "land" /\ id = op.id /\ p = op.src)

(* A vector that is being inserted is nowhere. *)
Homeless == op.pc = "add" => home[op.id] = None

IInv == Typed /\ Working /\ PlacedThroughout /\ Homeless

USE SPNoneAssumption

LEMMA InitIInv == Init => IInv
BY DEF Init, IInv, Typed, Working, PlacedThroughout, Homeless, Found, Members, Free, Op, Phases,
       Stored, Empty

(* The garbage collector leaves the partitions of the index alone. *)
LEMMA CollectedLive ==
  ASSUME NEW pts \in [Parts -> Stored], NEW lv \in SUBSET Parts
  PROVE  /\ Collected(pts, lv) \in [Parts -> Stored]
         /\ \A p \in lv : Collected(pts, lv)[p] = pts[p]
BY DEF Collected, Stored, Empty

LEMMA ReturnType ==
  ASSUME Typed
  PROVE  Return \in Op /\ Return.pc \in {"free", "splits", "merges"}
BY DEF Typed, Op, Return, Free, Phases

LEMMA InsertIInv ==
  ASSUME IInv, NEW id \in Ids, NEW vec \in Vectors, Insert(id, vec)
  PROVE  IInv'
<1> USE DEF Insert, Lock, IInv
<1>1. Typed'
  BY DEF Typed, Op, Free, Stored, Phases
<1>2. Working' /\ Homeless'
  BY DEF Typed, Working, Homeless, Free
<1>3. \A i \in Ids, p \in Parts :
        /\ parts'[p][i] = IF p = home[id] /\ i = id THEN None ELSE parts[p][i]
        /\ home'[i] = IF i = id THEN None ELSE home[i]
  BY DEF Typed, Stored
<1>4. op.pc = "free" /\ op'.pc = "add" /\ live' = live
  BY DEF Free
<1>5. PlacedThroughout'
  <2> HIDE DEF Insert, Lock
  <2> QED  BY <1>1, <1>3, <1>4 DEF Typed, PlacedThroughout, Found
<1> QED  BY <1>1, <1>2, <1>5

LEMMA AddToIInv ==
  ASSUME IInv, op.pc = "add", NEW p \in Parts, NEW content \in Stored,
         \/ p \in live /\ content = parts[p]
         \/ p \notin live /\ content = Empty,
         AddTo(p, content)
  PROVE  IInv'
<1> USE DEF AddTo, IInv
<1>1. Typed'
  BY DEF Typed, Working, Op, Free, Stored, Phases
<1>2. Working' /\ Homeless'
  BY DEF Typed, Working, Homeless, Free
<1>3. PlacedThroughout'
  BY DEF Typed, Working, Homeless, PlacedThroughout, Found, Free, Stored, Empty
<1> QED  BY <1>1, <1>2, <1>3
LEMMA AddIInv == IInv /\ Add => IInv'
<1> SUFFICES ASSUME IInv, Add  PROVE IInv'
  OBVIOUS
<1>1. op.pc = "add" /\ Empty \in Stored /\ parts \in [Parts -> Stored] /\ live \subseteq Parts
  BY DEF Add, IInv, Typed, Empty, Stored
<1>2. CASE \E p \in live : AddTo(p, parts[p])
  <2>1. PICK p \in live : AddTo(p, parts[p])
    BY <1>2
  <2>2. p \in Parts /\ parts[p] \in Stored
    BY <1>1
  <2> QED  BY <1>1, <2>1, <2>2, AddToIInv
<1>3. CASE \E p \in Parts : New(p) /\ AddTo(p, Empty)
  <2>1. PICK p \in Parts : New(p) /\ AddTo(p, Empty)
    BY <1>3
  <2> QED  BY <1>1, <2>1, AddToIInv DEF New
<1> QED  BY <1>2, <1>3 DEF Add

LEMMA SplitIInv ==
  ASSUME IInv, op.pc = "split", NEW A \in SUBSET Members(op.src),
         NEW p \in Parts, NEW q \in Parts, p # q, New(p), New(q), SplitInto(A, p, q)
  PROVE  IInv'
<1> USE DEF IInv
<1> DEFINE half(B) == [id \in Ids |-> IF id \in B THEN parts[op.src][id] ELSE None]
           fp == half(A)
           fq == half(Members(op.src) \ A)
           pts == [parts EXCEPT ![p] = fp, ![q] = fq]
<1>1. /\ live' = (live \ {op.src}) \cup {p, q}
      /\ parts' = Collected(pts, live')
      /\ home' = [id \in Ids |-> IF id \notin Members(op.src) THEN home[id]
                                 ELSE IF id \in A THEN p ELSE q]
      /\ op' = Return
  BY DEF SplitInto
<1>2. op.src \in live /\ p \notin live /\ q \notin live
  BY DEF Working, New
<1>3. op.src \in Parts /\ parts[op.src] \in Stored /\ parts \in [Parts -> Stored]
      /\ live' \in SUBSET Parts
  BY <1>1, <1>2 DEF Typed
<1>4. fp \in Stored /\ fq \in Stored
  BY <1>3 DEF Stored
<1>5. pts \in [Parts -> Stored]
  BY <1>3, <1>4
<1>6. /\ parts' \in [Parts -> Stored]
      /\ \A x \in live' : parts'[x] = pts[x]
  <2> HIDE DEF pts
  <2> QED  BY <1>1, <1>3, <1>5, CollectedLive
<1>7. \A x \in live' : parts'[x] = IF x = p THEN fp ELSE IF x = q THEN fq ELSE parts[x]
  <2> HIDE DEF fp, fq
  <2> QED  BY <1>3, <1>6
<1>8. home' \in [Ids -> Parts \cup {None}]
  BY <1>1 DEF Typed
<1>9. Typed'
  BY <1>1, <1>3, <1>6, <1>8, ReturnType DEF Typed
<1>10. Working' /\ Homeless'
  BY <1>1, ReturnType DEF Working, Homeless
<1>11. \A id \in Ids, x \in Parts :
         home'[id] = x <=> x \in live' /\ parts'[x][id] # None
  <2> SUFFICES ASSUME NEW id \in Ids, NEW x \in Parts
               PROVE  home'[id] = x <=> x \in live' /\ parts'[x][id] # None
    OBVIOUS
  <2>1. \A y \in Parts : home[id] = y <=> y \in live /\ parts[y][id] # None
    BY DEF PlacedThroughout, Found
  <2>2. id \in Members(op.src) <=> parts[op.src][id] # None
    BY DEF Members
  <2>3. home'[id] = IF id \notin Members(op.src) THEN home[id] ELSE IF id \in A THEN p ELSE q
    BY <1>1
  <2>4. /\ fp[id] = IF id \in A THEN parts[op.src][id] ELSE None
        /\ fq[id] = IF id \in Members(op.src) \ A THEN parts[op.src][id] ELSE None
    OBVIOUS
  <2> HIDE DEF fp, fq
  <2> QED  BY <1>1, <1>2, <1>3, <1>7, <2>1, <2>2, <2>3, <2>4
<1>12. PlacedThroughout'
  BY <1>1, <1>11, ReturnType DEF PlacedThroughout, Found
<1> QED  BY <1>9, <1>10, <1>12
LEMMA DeleteIInv ==
  ASSUME IInv, NEW id \in Ids, Delete(id)
  PROVE  IInv'
<1> USE DEF IInv
<1>1. op.pc = "free" /\ home[id] \in Parts /\ home[id] \in live
  BY DEF Delete, Lock, Typed, PlacedThroughout, Found
<1>2. op'.pc \in {"free", "merge"} /\ op' \in Op /\ (op'.pc = "merge" => op'.src = home[id])
  BY <1>1 DEF Delete, Free, Op, Phases
<1>3. Typed'
  BY <1>1, <1>2 DEF Delete, Typed, Stored
<1>4. Working' /\ Homeless'
  BY <1>1, <1>2 DEF Delete, Working, Homeless
<1>5. \A i \in Ids, p \in Parts :
        /\ parts'[p][i] = IF p = home[id] /\ i = id THEN None ELSE parts[p][i]
        /\ home'[i] = IF i = id THEN None ELSE home[i]
  BY DEF Delete, Typed, Stored
<1>6. live' = live
  BY DEF Delete
<1>7. PlacedThroughout'
  BY <1>1, <1>2, <1>5, <1>6 DEF Typed, PlacedThroughout, Found
<1> QED  BY <1>3, <1>4, <1>7

(* A step that changes neither table leaves every vector where it is,      *)
(* unless the operation starts or ends one of the two half-way states.     *)
LEMMA SamePlace ==
  ASSUME IInv, parts' = parts, live' = live, home' = home,
         op.pc \notin {"copy", "land"}, op'.pc \notin {"add", "land"},
         op'.pc = "copy" => op'.todo = Members(op'.src)
  PROVE  PlacedThroughout' /\ Homeless'
BY DEF IInv, Typed, PlacedThroughout, Found, Homeless, Members

LEMMA MergeIInv == IInv /\ Merge => IInv'
<1> SUFFICES ASSUME IInv, Merge  PROVE IInv'
  OBVIOUS
<1>1. PICK q \in live \ {op.src} :
        op' = IF Size(q) + Size(op.src) > MaxSize
              THEN Return
              ELSE [op EXCEPT !.pc = "copy", !.dst = q, !.todo = Members(op.src)]
  BY DEF Merge
<1>2. CASE op' = Return
  <2>1. op' \in Op /\ op'.pc \in {"free", "splits", "merges"}
    BY <1>2, ReturnType DEF IInv
  <2>2. Typed' /\ Working'
    BY <2>1 DEF Merge, IInv, Typed, Working
  <2> QED  BY <2>1, <2>2, SamePlace DEF Merge, IInv
<1>3. CASE op' = [op EXCEPT !.pc = "copy", !.dst = q, !.todo = Members(op.src)]
  <2>1. Typed' /\ op'.pc = "copy" /\ op'.src = op.src /\ op'.dst = q
        /\ op'.todo = Members(op.src)
    BY <1>3 DEF Merge, IInv, Typed, Op, Members, Phases
  <2>2. Working'
    BY <2>1 DEF Merge, IInv, Working, Members
  <2>3. op.pc = "merge"
    BY DEF Merge
  <2> QED  BY <2>1, <2>2, <2>3, SamePlace DEF Merge, IInv
<1> QED  BY <1>1, <1>2, <1>3

LEMMA MergeCopyIInv == IInv /\ MergeCopy => IInv'
<1> SUFFICES ASSUME IInv, MergeCopy  PROVE IInv'
  OBVIOUS
<1> USE DEF IInv
<1>1. PICK id \in op.todo :
        /\ parts' = [parts EXCEPT ![op.dst][id] = parts[op.src][id]]
        /\ home' = [home EXCEPT ![id] = op.dst]
        /\ op' = [op EXCEPT !.todo = @ \ {id}]
  BY DEF MergeCopy
<1>2. /\ op.pc = "copy" /\ op.src \in live /\ op.dst \in live \ {op.src}
      /\ op.todo \subseteq Members(op.src) /\ live' = live
  BY DEF MergeCopy, Working
<1>3. id \in Ids /\ op.src \in Parts /\ op.dst \in Parts
  BY <1>2 DEF Typed, Members
<1>4. op'.pc = "copy" /\ op'.src = op.src /\ op'.dst = op.dst /\ op'.todo = op.todo \ {id}
  BY <1>1, <1>2 DEF Typed, Op
<1>5. Typed'
  BY <1>1, <1>2, <1>3 DEF Typed, Op, Stored
<1>6. \A i \in Ids, p \in Parts :
        /\ parts'[p][i] = IF p = op.dst /\ i = id THEN parts[op.src][id] ELSE parts[p][i]
        /\ home'[i] = IF i = id THEN op.dst ELSE home[i]
  BY <1>1, <1>3 DEF Typed, Stored
<1>7. Working' /\ Homeless'
  BY <1>2, <1>3, <1>4, <1>6 DEF Working, Homeless, Members, Typed, Op
<1>8. PlacedThroughout'
  <2>1. SUFFICES ASSUME NEW i \in Ids, NEW p \in Parts
                 PROVE  home'[i] = p <=> /\ p \in live
                                         /\ parts'[p][i] # None
                                         /\ ~(p = op.src /\ i \notin op.todo \ {id})
    BY <1>2, <1>4 DEF PlacedThroughout, Found
  <2>2. home[i] = p <=> /\ p \in live
                        /\ parts[p][i] # None
                        /\ ~(p = op.src /\ i \notin op.todo)
    BY <1>2 DEF PlacedThroughout, Found
  <2>3. parts[op.src][id] # None /\ home[id] = op.src
    BY <1>2, <1>3 DEF PlacedThroughout, Found, Members
  <2>4. i = id => (home[i] = p <=> p = op.src)
    BY <2>3
  <2> QED  BY <1>2, <1>3, <1>6, <2>2, <2>3, <2>4
<1> QED  BY <1>5, <1>7, <1>8

LEMMA MergeDropIInv == IInv /\ MergeDrop => IInv'
<1> SUFFICES ASSUME IInv, MergeDrop  PROVE IInv'
  OBVIOUS
<1> USE DEF IInv
<1>1. /\ op.pc = "copy" /\ op.todo = {} /\ op.src \in live
      /\ live' = live \ {op.src} /\ parts' = Collected(parts, live')
      /\ op' = Return /\ home' = home
  BY DEF MergeDrop, Working
<1>2. /\ parts' \in [Parts -> Stored]
      /\ \A x \in live' : parts'[x] = parts[x]
  BY <1>1, CollectedLive DEF Typed
<1>3. op' \in Op /\ op'.pc \in {"free", "splits", "merges"}
  BY <1>1, ReturnType
<1>4. Typed' /\ Working' /\ Homeless'
  BY <1>1, <1>2, <1>3 DEF Typed, Working, Homeless
<1>5. \A id \in Ids, p \in Parts :
        home[id] = p <=> p \in live \ {op.src} /\ parts[p][id] # None
  BY <1>1 DEF PlacedThroughout, Found
<1>6. PlacedThroughout'
  <2>1. home' = home /\ live' = live \ {op.src} /\ live' \subseteq Parts
    BY <1>1 DEF Typed
  <2>2. SUFFICES ASSUME NEW id \in Ids, NEW p \in Parts
                 PROVE  home'[id] = p <=> p \in live' /\ parts'[p][id] # None
    BY <1>3 DEF PlacedThroughout, Found
  <2> HIDE DEF IInv
  <2> QED  BY <1>2, <1>5, <2>1
<1> QED  BY <1>4, <1>6

LEMMA ClearIInv == IInv /\ Clear => IInv'
<1> SUFFICES ASSUME IInv, Clear  PROVE IInv'
  OBVIOUS
<1>1. op.pc = "free" /\ op' = op /\ live' = {} /\ home' = [id \in Ids |-> None]
  BY DEF Clear, Lock
<1>2. parts' \in [Parts -> Stored]
  BY CollectedLive DEF Clear, IInv, Typed
<1> QED
  BY <1>1, <1>2 DEF IInv, Typed, Working, PlacedThroughout, Found, Homeless
LEMMA RebalanceIInv == IInv /\ Rebalance => IInv'
<1> SUFFICES ASSUME IInv, Rebalance  PROVE IInv'
  OBVIOUS
<1>1. Typed' /\ Working'
  BY DEF Rebalance, Lock, IInv, Typed, Working, Op, Free, Phases
<1> QED  BY <1>1, SamePlace DEF Rebalance, Lock, IInv, Free

LEMMA SplitPhaseIInv == IInv /\ SplitPhase => IInv'
<1> SUFFICES ASSUME IInv, SplitPhase  PROVE IInv'
  OBVIOUS
<1>1. PICK p \in op.pids :
        op' = IF p \in live /\ Size(p) > MaxSize
              THEN [op EXCEPT !.pc = "split", !.back = "splits", !.src = p, !.pids = @ \ {p}]
              ELSE [op EXCEPT !.pids = @ \ {p}]
  BY DEF SplitPhase
<1>2. /\ op' \in Op /\ op'.pc \in {"splits", "split"}
      /\ op'.pc = "split" => op'.src \in live
  BY <1>1 DEF SplitPhase, IInv, Typed, Op, Phases
<1>3. Typed' /\ Working'
  BY <1>2 DEF SplitPhase, IInv, Typed, Working
<1> QED  BY <1>2, <1>3, SamePlace DEF SplitPhase, IInv

LEMMA MergePhaseIInv == IInv /\ MergePhase => IInv'
<1> SUFFICES ASSUME IInv, MergePhase  PROVE IInv'
  OBVIOUS
<1>1. PICK p \in op.pids :
        op' = IF p \in live /\ live # {p} /\ Size(p) < MinSize
              THEN [op EXCEPT !.pc = "merge", !.back = "merges", !.src = p, !.pids = @ \ {p}]
              ELSE [op EXCEPT !.pids = @ \ {p}]
  BY DEF MergePhase
<1>2. /\ op' \in Op /\ op'.pc \in {"merges", "merge"}
      /\ op'.pc = "merge" => op'.src \in live
  BY <1>1 DEF MergePhase, IInv, Typed, Op, Phases
<1>3. Typed' /\ Working'
  BY <1>2 DEF MergePhase, IInv, Typed, Working
<1> QED  BY <1>2, <1>3, SamePlace DEF MergePhase, IInv

LEMMA MigratePhaseIInv == IInv /\ MigratePhase => IInv'
<1> SUFFICES ASSUME IInv, MigratePhase  PROVE IInv'
  OBVIOUS
<1>1. PICK p \in op.pids :
        op' = IF live # {p} /\ Size(p) > MinSize
              THEN [op EXCEPT !.pc = "move", !.src = p, !.todo = Members(p), !.pids = @ \ {p}]
              ELSE [op EXCEPT !.pids = @ \ {p}]
  BY DEF MigratePhase
<1>2. op.pc = "migrates" /\ op.pids \subseteq live /\ p \in Parts
  BY DEF MigratePhase, IInv, Typed, Working
<1>3. /\ op' \in Op /\ op'.pc \in {"migrates", "move"}
      /\ op'.pids \subseteq live
      /\ op'.pc = "move" => op'.src \in live /\ op'.todo = Members(op'.src)
  BY <1>1, <1>2 DEF IInv, Typed, Op, Phases, Members
<1>4. Typed' /\ Working'
  BY <1>3 DEF MigratePhase, IInv, Typed, Working, Members
<1> QED  BY <1>2, <1>3, <1>4, SamePlace DEF MigratePhase, IInv

LEMMA NextPhaseIInv == IInv /\ NextPhase => IInv'
<1> SUFFICES ASSUME IInv, NextPhase  PROVE IInv'
  OBVIOUS
<1>1. /\ op' \in Op
      /\ op.pc \in Phases \cup {"move"}
      /\ op'.pc \in {"merges", "migrates", "free"}
      /\ op'.pc = "migrates" => op'.pids \subseteq live
  <2>1. live \subseteq Parts /\ op.pids \subseteq Parts
    BY DEF IInv, Typed, Op
  <2>2. CASE op' = Free
    BY <2>2 DEF NextPhase, Free, Op, Phases
  <2>3. CASE op' = [Free EXCEPT !.pc = "merges", !.pids = live]
    BY <2>1, <2>3 DEF NextPhase, Free, Op, Phases
  <2>4. CASE op' = [Free EXCEPT !.pc = "migrates", !.pids = live]
    BY <2>1, <2>4 DEF NextPhase, Free, Op, Phases
  <2>5. CASE op.pc = "move" /\ op' = [Free EXCEPT !.pc = "migrates", !.pids = op.pids]
    BY <2>1, <2>5 DEF IInv, Working, Free, Op, Phases
  <2> QED  BY <2>2, <2>3, <2>4, <2>5 DEF NextPhase
<1>2. Typed' /\ Working'
  BY <1>1 DEF NextPhase, IInv, Typed, Working
<1> QED  BY <1>1, <1>2, SamePlace DEF NextPhase, IInv, Phases
(* A vector leaves its partition. *)
LEMMA LeaveIInv ==
  ASSUME IInv, op.pc = "move", NEW id \in op.todo, NEW q \in live \ {op.src},
         op' = [op EXCEPT !.pc = "land", !.id = id, !.vec = parts[op.src][id],
                          !.dst = q, !.todo = @ \ {id}],
         parts' = [parts EXCEPT ![op.src][id] = None],
         UNCHANGED <<live, home>>
  PROVE  IInv'
<1> USE DEF IInv
<1>1. /\ op.src \in live /\ op.todo \subseteq Members(op.src) /\ op.pids \subseteq live
      /\ op.src \in Parts /\ q \in Parts /\ id \in Ids
      /\ parts[op.src][id] \in Vectors
  BY DEF Typed, Working, Members, Stored
<1>2. /\ op'.pc = "land" /\ op'.id = id /\ op'.vec \in Vectors /\ op'.src = op.src
      /\ op'.dst = q /\ op'.todo = op.todo \ {id} /\ op'.pids = op.pids
  BY <1>1 DEF Typed, Op
<1>3. Typed'
  BY <1>1 DEF Typed, Op, Stored, Phases
<1>4. \A i \in Ids, p \in Parts :
        parts'[p][i] = IF p = op.src /\ i = id THEN None ELSE parts[p][i]
  BY <1>1 DEF Typed, Stored
<1>5. Working' /\ Homeless'
  BY <1>1, <1>2, <1>4 DEF Working, Homeless, Members
<1>6. PlacedThroughout'
  <2>1. SUFFICES ASSUME NEW i \in Ids, NEW p \in Parts
                 PROVE  home[i] = p <=> \/ p \in live /\ parts'[p][i] # None
                                        \/ i = id /\ p = op.src
    BY <1>2 DEF PlacedThroughout, Found
  <2>2. home[i] = p <=> p \in live /\ parts[p][i] # None
    BY DEF PlacedThroughout, Found
  <2>3. parts[op.src][id] # None
    BY <1>1 DEF Members
  <2> QED  BY <1>1, <1>4, <2>2, <2>3
<1> QED  BY <1>3, <1>5, <1>6

LEMMA MoveIInv == IInv /\ Move => IInv'
<1> SUFFICES ASSUME IInv, Move  PROVE IInv'
  OBVIOUS
<1>1. op.pc = "move" /\ live' = live /\ home' = home
  BY DEF Move
<1>2. PICK id \in op.todo :
        \/ /\ op' = [op EXCEPT !.todo = @ \ {id}]
           /\ UNCHANGED parts
        \/ \E q \in live \ {op.src} :
             /\ Size(q) < MaxSize
             /\ op' = [op EXCEPT !.pc = "land", !.id = id, !.vec = parts[op.src][id],
                                 !.dst = q, !.todo = @ \ {id}]
             /\ parts' = [parts EXCEPT ![op.src][id] = None]
  BY DEF Move
<1>3. CASE op' = [op EXCEPT !.todo = @ \ {id}] /\ parts' = parts
  <2>1. Typed'
    BY <1>1, <1>3 DEF IInv, Typed, Op
  <2>2. op'.pc = "move" /\ op'.src = op.src /\ op'.todo \subseteq op.todo /\ op'.pids = op.pids
    BY <1>1, <1>3 DEF IInv, Typed, Op
  <2>3. Working'
    BY <1>1, <1>3, <2>2 DEF IInv, Working, Members
  <2> QED  BY <1>1, <1>3, <2>1, <2>2, <2>3, SamePlace DEF IInv
<1>4. CASE \E q \in live \ {op.src} :
             /\ op' = [op EXCEPT !.pc = "land", !.id = id, !.vec = parts[op.src][id],
                                 !.dst = q, !.todo = @ \ {id}]
             /\ parts' = [parts EXCEPT ![op.src][id] = None]
  BY <1>1, <1>4, LeaveIInv
<1> QED  BY <1>2, <1>3, <1>4

LEMMA LandIInv == IInv /\ Land => IInv'
<1> SUFFICES ASSUME IInv, Land  PROVE IInv'
  OBVIOUS
<1> USE DEF IInv
<1>1. /\ op.pc = "land" /\ op.id \in Ids /\ op.vec \in Vectors
      /\ op.src \in live /\ op.dst \in live \ {op.src}
      /\ op.todo \subseteq Members(op.src) /\ op.pids \subseteq live
      /\ op.src \in Parts /\ op.dst \in Parts
      /\ live' = live
  BY DEF Land, Typed, Working
<1>2. op'.pc = "move" /\ op'.src = op.src /\ op'.todo = op.todo /\ op'.pids = op.pids
  BY DEF Land, Typed, Op
<1>3. Typed'
  BY <1>1 DEF Land, Typed, Op, Stored, Phases
<1>4. \A i \in Ids, p \in Parts :
        /\ parts'[p][i] = IF p = op.dst /\ i = op.id THEN op.vec ELSE parts[p][i]
        /\ home'[i] = IF i = op.id THEN op.dst ELSE home[i]
  BY <1>1 DEF Land, Typed, Stored
<1>5. Working' /\ Homeless'
  BY <1>1, <1>2, <1>4 DEF Working, Homeless, Members
<1>6. PlacedThroughout'
  <2>1. SUFFICES ASSUME NEW i \in Ids, NEW p \in Parts
                 PROVE  home'[i] = p <=> p \in live /\ parts'[p][i] # None
    BY <1>1, <1>2 DEF PlacedThroughout, Found
  <2>2. home[i] = p <=> \/ p \in live /\ parts[p][i] # None
                        \/ i = op.id /\ p = op.src
    BY <1>1 DEF PlacedThroughout, Found
  <2>3. home[op.id] = op.src /\ parts[op.src][op.id] = None
    BY <1>1 DEF PlacedThroughout, Working
  <2> QED  BY <1>1, <1>4, <2>2, <2>3
<1> QED  BY <1>3, <1>5, <1>6

LEMMA SearchReadIInv ==
  ASSUME IInv, NEW r \in Readers, SearchRead(r)
  PROVE  IInv'
<1> DEFINE at == search[r].at
<1>1. /\ parts' = parts \/ (at \notin live /\ parts' = [parts EXCEPT ![at] = Empty])
      /\ UNCHANGED <<live, home, op>>
  BY DEF SearchRead
<1>2. /\ parts' \in [Parts -> Stored]
      /\ \A p \in live : parts'[p] = parts[p]
  BY <1>1 DEF IInv, Typed, Stored, Empty
<1>3. op.src \in live => Members(op.src)' = Members(op.src)
  BY <1>1, <1>2 DEF Members
<1> QED
  BY <1>1, <1>2, <1>3
  DEF IInv, Typed, Working, PlacedThroughout, Found, Homeless

(* Every step of the index keeps the invariant. *)
THEOREM Inductive == IInv /\ [Next]_vars => IInv'
<1> SUFFICES ASSUME IInv, [Next]_vars  PROVE IInv'
  OBVIOUS
<1>1. CASE \E id \in Ids, vec \in Vectors : Insert(id, vec)
  BY <1>1, InsertIInv
<1>2. CASE \E id \in Ids : Delete(id)
  BY <1>2, DeleteIInv
<1>3. CASE Split
  <2>1. PICK A \in (SUBSET Members(op.src)) \ {{}, Members(op.src)}, p, q \in Parts :
          p # q /\ New(p) /\ New(q) /\ SplitInto(A, p, q)
    BY <1>3, Zenon DEF Split
  <2>2. op.pc = "split" /\ A \in SUBSET Members(op.src)
    BY <1>3, Zenon DEF Split
  <2> QED  BY <2>1, <2>2, SplitIInv
<1>4. CASE \E r \in Readers : SearchRead(r)
  BY <1>4, SearchReadIInv
<1>5. CASE UNCHANGED <<parts, live, home, op>>
  BY <1>5 DEF IInv, Typed, Working, PlacedThroughout, Found, Homeless, Members
<1>6. \A r \in Readers :
        SearchStart(r) \/ SearchFetch(r) \/ SearchReturn(r) => UNCHANGED <<parts, live, home, op>>
  BY DEF SearchStart, SearchFetch, SearchReturn
<1>7. UNCHANGED vars => UNCHANGED <<parts, live, home, op>>
  BY DEF vars
<1> QED
  BY <1>1, <1>2, <1>3, <1>4, <1>5, <1>6, <1>7, AddIInv, MergeIInv, MergeCopyIInv, MergeDropIInv,
     ClearIInv, RebalanceIInv, SplitPhaseIInv, MergePhaseIInv, MigratePhaseIInv, MoveIInv,
     LandIInv, NextPhaseIInv
  DEF Next, WriterStep

(* Whenever the lock is free, an id is in the partition it is mapped to    *)
(* and in no other one: the two tables never disagree.                     *)
THEOREM OnePlacement == Spec => []Placed
<1>1. IInv => Placed
  BY DEF IInv, PlacedThroughout, Found, Placed
<1> QED  BY <1>1, InitIInv, Inductive, PTL DEF Spec
----------------------------------------------------------------------------
(* The refinement.  What the index holds changes only in the first step of *)
(* an insert or a delete, and in clear.                                    *)

TheMap == [id \in Ids |-> Held(id)]

LEMMA InsertMaps ==
  ASSUME IInv, NEW id \in Ids, NEW vec \in Vectors, Insert(id, vec)
  PROVE  Map!Insert(id, vec)
<1>1. op.pc = "free" /\ op'.pc = "add" /\ op'.id = id /\ op'.vec = vec
  BY DEF Insert, Lock, Free
<1>2. \A i \in Ids : Held(i)' = IF i = id THEN vec ELSE Held(i)
  <2> SUFFICES ASSUME NEW i \in Ids  PROVE Held(i)' = IF i = id THEN vec ELSE Held(i)
    OBVIOUS
  <2>1. CASE i = id
    BY <1>1, <2>1 DEF Held
  <2>2. CASE i # id
    <3>1. home'[i] = home[i]
      BY <2>2 DEF Insert, IInv, Typed
    <3>2. home[i] # None => parts'[home[i]][i] = parts[home[i]][i]
      BY <2>2 DEF Insert, IInv, Typed, Stored
    <3> QED  BY <1>1, <2>2, <3>1, <3>2 DEF Held
  <2> QED  BY <2>1, <2>2
<1> QED  BY <1>1, <1>2 DEF Map!Insert

LEMMA DeleteMaps ==
  ASSUME IInv, NEW id \in Ids, Delete(id)
  PROVE  Map!Delete(id)
<1>1. op.pc = "free" /\ op'.pc \in {"free", "merge"}
  BY DEF Delete, Lock, Free
<1>2. \A i \in Ids : Held(i)' = IF i = id THEN None ELSE Held(i)
  <2> SUFFICES ASSUME NEW i \in Ids  PROVE Held(i)' = IF i = id THEN None ELSE Held(i)
    OBVIOUS
  <2>1. home'[i] = IF i = id THEN None ELSE home[i]
    BY DEF Delete, IInv, Typed
  <2>2. i # id /\ home[i] # None => parts'[home[i]][i] = parts[home[i]][i]
    BY DEF Delete, IInv, Typed, Stored
  <2> QED  BY <1>1, <2>1, <2>2 DEF Held
<1> QED  BY <1>1, <1>2 DEF Map!Delete

LEMMA ClearMaps == IInv /\ Clear => Map!Clear
<1> SUFFICES ASSUME IInv, Clear  PROVE Map!Clear
  OBVIOUS
<1>1. op.pc = "free" /\ op' = op /\ \A i \in Ids : home'[i] = None
  BY DEF Clear, Lock
<1>2. \A i \in Ids : Held(i)' = None
  BY <1>1 DEF Held
<1> QED  BY <1>1, <1>2 DEF Map!Clear

(* A step that finds every vector where the step before left it. *)
LEMMA SameHeld ==
  ASSUME IInv, op.pc \notin {"add", "land"}, op'.pc \notin {"add", "land"},
         \A i \in Ids : /\ home[i] = None <=> home'[i] = None
                        /\ home[i] # None => parts'[home'[i]][i] = parts[home[i]][i]
  PROVE  TheMap' = TheMap
BY DEF TheMap, Held

LEMMA AddMaps == IInv /\ Add => TheMap' = TheMap
<1> SUFFICES ASSUME IInv, Add, NEW i \in Ids  PROVE Held(i)' = Held(i)
  BY DEF TheMap
<1>1. op.pc = "add" /\ op.id \in Ids /\ op.vec \in Vectors /\ home[op.id] = None
  BY DEF Add, IInv, Working, Homeless
<1>2. PICK p \in Parts, content \in Stored :
        AddTo(p, content) /\ (p \notin live \/ content = parts[p])
  <2>1. Empty \in Stored /\ \A p \in live : p \in Parts /\ parts[p] \in Stored
    BY DEF IInv, Typed, Empty, Stored
  <2> QED  BY <2>1 DEF Add
<1>3. op'.pc \in {"split", "free"}
  BY <1>2 DEF AddTo, Free
<1>4. home'[i] = IF i = op.id THEN p ELSE home[i]
  BY <1>2 DEF AddTo, IInv, Typed
<1>5. parts'[p][i] = IF i = op.id THEN op.vec ELSE content[i]
  BY <1>2 DEF AddTo, IInv, Typed, Stored
<1>6. \A x \in Parts : x # p => parts'[x][i] = parts[x][i]
  BY <1>2 DEF AddTo, IInv, Typed, Stored
<1>7. home[i] # None => home[i] \in live /\ home[i] \in Parts
  BY <1>1 DEF IInv, Typed, PlacedThroughout, Found
<1>8. CASE i = op.id
  BY <1>1, <1>3, <1>4, <1>5, <1>8 DEF Held
<1>9. CASE i # op.id
  BY <1>1, <1>2, <1>3, <1>4, <1>5, <1>6, <1>7, <1>9 DEF Held
<1> QED  BY <1>8, <1>9

LEMMA SplitMaps ==
  ASSUME IInv, op.pc = "split", NEW A \in SUBSET Members(op.src),
         NEW p \in Parts, NEW q \in Parts, p # q, New(p), New(q), SplitInto(A, p, q)
  PROVE  TheMap' = TheMap
<1> DEFINE half(B) == [id \in Ids |-> IF id \in B THEN parts[op.src][id] ELSE None]
           fp == half(A)
           fq == half(Members(op.src) \ A)
           pts == [parts EXCEPT ![p] = fp, ![q] = fq]
<1>1. /\ live' = (live \ {op.src}) \cup {p, q}
      /\ parts' = Collected(pts, live')
      /\ home' = [id \in Ids |-> IF id \notin Members(op.src) THEN home[id]
                                 ELSE IF id \in A THEN p ELSE q]
      /\ op' = Return
  BY DEF SplitInto
<1>2. op.src \in live /\ p \notin live /\ q \notin live /\ live' \in SUBSET Parts
      /\ parts \in [Parts -> Stored] /\ op.src \in Parts
  BY <1>1 DEF IInv, Typed, Working, New
<1>3. fp \in Stored /\ fq \in Stored
  BY <1>2 DEF Stored
<1>4. \A x \in live' : parts'[x] = IF x = p THEN fp ELSE IF x = q THEN fq ELSE parts[x]
  <2>1. pts \in [Parts -> Stored]
    BY <1>2, <1>3
  <2>2. \A x \in live' : parts'[x] = pts[x]
    <3> HIDE DEF pts
    <3> QED  BY <1>1, <1>2, <2>1, CollectedLive
  <2> HIDE DEF fp, fq
  <2> QED  BY <1>2, <2>2
<1>5. ASSUME NEW i \in Ids
      PROVE  /\ home[i] = None <=> home'[i] = None
             /\ home[i] # None => parts'[home'[i]][i] = parts[home[i]][i]
  <2>1. \A x \in Parts : home[i] = x <=> x \in live /\ parts[x][i] # None
    BY DEF IInv, PlacedThroughout, Found
  <2>2. i \in Members(op.src) <=> home[i] = op.src
    BY <1>2, <2>1 DEF Members
  <2>3. home'[i] = IF i \notin Members(op.src) THEN home[i] ELSE IF i \in A THEN p ELSE q
    BY <1>1
  <2>4. home[i] # None => home[i] \in live
    BY <2>1 DEF IInv, Typed
  <2>5. /\ i \in A => fp[i] = parts[op.src][i]
        /\ i \in Members(op.src) \ A => fq[i] = parts[op.src][i]
    OBVIOUS
  <2>6. CASE i \in Members(op.src)
    <3> HIDE DEF fp, fq
    <3> QED  BY <1>1, <1>2, <1>4, <2>2, <2>3, <2>5, <2>6
  <2>7. CASE i \notin Members(op.src)
    <3>1. home'[i] = home[i] /\ (home[i] # None => home[i] \in live' /\ home[i] \notin {p, q})
      BY <1>1, <1>2, <2>2, <2>3, <2>4, <2>7
    <3> HIDE DEF fp, fq
    <3> QED  BY <1>4, <3>1
  <2> QED  BY <2>6, <2>7
<1>6. op'.pc \notin {"add", "land"}
  BY <1>1, ReturnType DEF IInv
<1> QED  BY <1>5, <1>6, SameHeld
LEMMA MergeCopyMaps == IInv /\ MergeCopy => TheMap' = TheMap
<1> SUFFICES ASSUME IInv, MergeCopy  PROVE TheMap' = TheMap
  OBVIOUS
<1>1. PICK id \in op.todo :
        /\ parts' = [parts EXCEPT ![op.dst][id] = parts[op.src][id]]
        /\ home' = [home EXCEPT ![id] = op.dst]
        /\ op' = [op EXCEPT !.todo = @ \ {id}]
  BY DEF MergeCopy
<1>2. /\ op.pc = "copy" /\ op.src \in live /\ op.dst \in live \ {op.src}
      /\ op.todo \subseteq Members(op.src)
      /\ id \in Ids /\ op.src \in Parts /\ op.dst \in Parts
      /\ op'.pc = "copy"
  BY <1>1 DEF MergeCopy, IInv, Typed, Working, Members, Op
<1>3. home[id] = op.src
  BY <1>2 DEF IInv, PlacedThroughout, Found, Members
<1>4. \A i \in Ids, p \in Parts :
        /\ parts'[p][i] = IF p = op.dst /\ i = id THEN parts[op.src][id] ELSE parts[p][i]
        /\ home'[i] = IF i = id THEN op.dst ELSE home[i]
  BY <1>1, <1>2 DEF IInv, Typed, Stored
<1>5. \A i \in Ids : home[i] \in Parts \cup {None}
  BY DEF IInv, Typed
<1> QED  BY <1>2, <1>3, <1>4, <1>5, SameHeld

LEMMA MergeDropMaps == IInv /\ MergeDrop => TheMap' = TheMap
<1> SUFFICES ASSUME IInv, MergeDrop  PROVE TheMap' = TheMap
  OBVIOUS
<1>1. /\ op.pc = "copy" /\ op.todo = {}
      /\ live' = live \ {op.src} /\ parts' = Collected(parts, live')
      /\ op' = Return /\ home' = home
  BY DEF MergeDrop
<1>2. \A x \in live' : parts'[x] = parts[x]
  BY <1>1, CollectedLive DEF IInv, Typed
<1>3. \A i \in Ids : home[i] # None => home[i] \in live'
  BY <1>1 DEF IInv, Typed, PlacedThroughout, Found
<1>4. op'.pc \notin {"add", "land"}
  BY <1>1, ReturnType DEF IInv
<1>5. home' = home
  BY <1>1
<1> QED  BY <1>1, <1>2, <1>3, <1>4, <1>5, SameHeld

LEMMA MoveMaps == IInv /\ Move => TheMap' = TheMap
<1> SUFFICES ASSUME IInv, Move, NEW i \in Ids  PROVE Held(i)' = Held(i)
  BY DEF TheMap
<1>1. /\ op.pc = "move" /\ home' = home /\ op.src \in live /\ op.src \in Parts
      /\ op.todo \subseteq Members(op.src)
  BY DEF Move, IInv, Typed, Working
<1>2. PICK id \in op.todo :
        \/ op' = [op EXCEPT !.todo = @ \ {id}] /\ parts' = parts
        \/ \E q \in live \ {op.src} :
             /\ op' = [op EXCEPT !.pc = "land", !.id = id, !.vec = parts[op.src][id],
                                 !.dst = q, !.todo = @ \ {id}]
             /\ parts' = [parts EXCEPT ![op.src][id] = None]
  BY DEF Move
<1>3. id \in Ids /\ home[id] = op.src
  BY <1>1 DEF IInv, PlacedThroughout, Found, Members
<1>4. CASE op' = [op EXCEPT !.todo = @ \ {id}] /\ parts' = parts
  <2>1. op'.pc = "move"
    BY <1>1, <1>4 DEF IInv, Typed, Op
  <2> QED  BY <1>1, <1>4, <2>1 DEF Held
<1>5. CASE \E q \in live \ {op.src} :
             /\ op' = [op EXCEPT !.pc = "land", !.id = id, !.vec = parts[op.src][id],
                                 !.dst = q, !.todo = @ \ {id}]
             /\ parts' = [parts EXCEPT ![op.src][id] = None]
  <2>1. op'.pc = "land" /\ op'.id = id /\ op'.vec = parts[op.src][id]
    BY <1>5 DEF IInv, Typed, Op
  <2>2. i # id => \A p \in Parts : parts'[p][i] = parts[p][i]
    BY <1>1, <1>3, <1>5 DEF IInv, Typed, Stored
  <2>3. home[i] \in Parts \cup {None}
    BY DEF IInv, Typed
  <2>4. CASE i = id
    BY <1>1, <1>3, <2>1, <2>4 DEF Held
  <2>5. CASE i # id
    BY <1>1, <2>1, <2>2, <2>3, <2>5 DEF Held
  <2> QED  BY <2>4, <2>5
<1> QED  BY <1>2, <1>4, <1>5

LEMMA LandMaps == IInv /\ Land => TheMap' = TheMap
<1> SUFFICES ASSUME IInv, Land, NEW i \in Ids  PROVE Held(i)' = Held(i)
  BY DEF TheMap
<1>1. /\ op.pc = "land" /\ op.id \in Ids /\ op.vec \in Vectors /\ op.dst \in Parts
      /\ op'.pc = "move"
  BY DEF Land, IInv, Typed, Working, Op
<1>2. \A p \in Parts :
        /\ parts'[p][i] = IF p = op.dst /\ i = op.id THEN op.vec ELSE parts[p][i]
        /\ home'[i] = IF i = op.id THEN op.dst ELSE home[i]
  BY <1>1 DEF Land, IInv, Typed, Stored
<1>3. home[i] \in Parts \cup {None}
  BY DEF IInv, Typed
<1> QED  BY <1>1, <1>2, <1>3 DEF Held

LEMMA SearchReadMaps ==
  ASSUME IInv, NEW r \in Readers, SearchRead(r)
  PROVE  TheMap' = TheMap
<1> DEFINE at == search[r].at
<1>1. /\ parts' = parts \/ (at \notin live /\ parts' = [parts EXCEPT ![at] = Empty])
      /\ UNCHANGED <<live, home, op>>
  BY DEF SearchRead
<1>2. \A p \in live : parts'[p] = parts[p]
  BY <1>1 DEF IInv, Typed, Stored, Empty
<1>3. \A i \in Ids : home[i] = None \/ home[i] \in live \/ (op.pc = "land" /\ op.id = i)
  BY DEF IInv, Typed, PlacedThroughout, Found
<1> QED  BY <1>1, <1>2, <1>3 DEF TheMap, Held

(* A step that changes no table. *)
LEMMA SameTables ==
  ASSUME IInv, UNCHANGED <<parts, live, home>>,
         op.pc \notin {"add", "land"}, op'.pc \notin {"add", "land"}
  PROVE  TheMap' = TheMap
BY DEF TheMap, Held
(* Such steps are maintenance, or nothing, for the map. *)
LEMMA MapIdles == TheMap' = TheMap => [Map!Next]_<<TheMap, op.pc # "free">>
BY DEF TheMap, Map!Next, Map!Maintain

LEMMA StepMaps == IInv /\ [Next]_vars => [Map!Next]_<<TheMap, op.pc # "free">>
<1> SUFFICES ASSUME IInv, [Next]_vars  PROVE [Map!Next]_<<TheMap, op.pc # "free">>
  OBVIOUS
<1>1. CASE \E id \in Ids, vec \in Vectors : Insert(id, vec)
  BY <1>1, InsertMaps DEF Map!Next
<1>2. CASE \E id \in Ids : Delete(id)
  BY <1>2, DeleteMaps DEF Map!Next
<1>3. CASE Clear
  BY <1>3, ClearMaps DEF Map!Next
<1>4. CASE Split
  <2>1. PICK A \in (SUBSET Members(op.src)) \ {{}, Members(op.src)}, p, q \in Parts :
          p # q /\ New(p) /\ New(q) /\ SplitInto(A, p, q)
    BY <1>4, Zenon DEF Split
  <2>2. op.pc = "split" /\ A \in SUBSET Members(op.src)
    BY <1>4, Zenon DEF Split
  <2> QED  BY <2>1, <2>2, SplitMaps, MapIdles
<1>5. CASE Merge
  <2>1. UNCHANGED <<parts, live, home>> /\ op.pc = "merge"
    BY <1>5 DEF Merge
  <2>2. op'.pc \in {"free", "splits", "merges", "copy"}
    BY <1>5, ReturnType DEF Merge, IInv, Typed, Op
  <2> QED  BY <2>1, <2>2, SameTables, MapIdles
<1>6. CASE Rebalance \/ SplitPhase \/ MergePhase \/ MigratePhase \/ NextPhase
  <2>1. UNCHANGED <<parts, live, home>> /\ op.pc \notin {"add", "land"}
    BY <1>6 DEF Rebalance, Lock, SplitPhase, MergePhase, MigratePhase, NextPhase
  <2>2. op'.pc \notin {"add", "land"}
    <3>1. CASE Rebalance \/ NextPhase
      <4>1. PICK pc \in {"splits", "merges", "migrates"}, pids \in {live, op.pids} :
              op' = Free \/ op' = [Free EXCEPT !.pc = pc, !.pids = pids]
        BY <3>1 DEF Rebalance, NextPhase
      <4>2. CASE op' = Free
        BY <4>2 DEF Free
      <4>3. CASE op' = [Free EXCEPT !.pc = pc, !.pids = pids]
        BY <4>3 DEF Free
      <4> QED  BY <4>1, <4>2, <4>3
    <3>2. CASE SplitPhase
      BY <3>2 DEF SplitPhase, IInv, Typed, Op
    <3>3. CASE MergePhase
      BY <3>3 DEF MergePhase, IInv, Typed, Op
    <3>4. CASE MigratePhase
      BY <3>4 DEF MigratePhase, IInv, Typed, Op
    <3> QED  BY <1>6, <3>1, <3>2, <3>3, <3>4
  <2> QED  BY <2>1, <2>2, SameTables, MapIdles
<1>7. CASE \E r \in Readers : SearchRead(r)
  BY <1>7, SearchReadMaps, MapIdles
<1>8. CASE UNCHANGED <<parts, live, home, op>>
  BY <1>8, MapIdles DEF TheMap, Held
<1>9. \A r \in Readers :
        SearchStart(r) \/ SearchFetch(r) \/ SearchReturn(r) => UNCHANGED <<parts, live, home, op>>
  BY DEF SearchStart, SearchFetch, SearchReturn
<1>10. UNCHANGED vars => UNCHANGED <<parts, live, home, op>>
  BY DEF vars
<1>11. CASE Add \/ MergeCopy \/ MergeDrop \/ Move \/ Land
  BY <1>11, AddMaps, MergeCopyMaps, MergeDropMaps, MoveMaps, LandMaps, MapIdles
<1> QED
  BY <1>1, <1>2, <1>3, <1>4, <1>5, <1>6, <1>7, <1>8, <1>9, <1>10, <1>11 DEF Next, WriterStep

(* The index is a map: inserts, deletes and clear take effect at once, and *)
(* splits, merges and migrations change nothing.                           *)
THEOREM IsAMap == Spec => ImplementsMap
<1>1. Init => Map!Init
  BY DEF Init, Map!Init, Held, Free
<1>2. IInv /\ [Next]_vars => [Map!Next]_<<[id \in Ids |-> Held(id)], op.pc # "free">>
  BY StepMaps DEF TheMap
<1> QED  BY <1>1, <1>2, InitIInv, Inductive, PTL DEF Spec, ImplementsMap, Map!Spec
----------------------------------------------------------------------------
(* Searches.  What a search returns was in the index since it began,       *)
(* because everything it can still meet was: the vectors of the partitions *)
(* of the index, the one in a writer's hands, and those of the partition   *)
(* it is reading, which may have been dropped.                             *)

Pair(id, vec) == [id |-> id, vec |-> vec]
Pairs == [id : Ids, vec : Vectors]
Has(id, vec) == \/ \E p \in live : parts[p][id] = vec
                \/ op.pc \in {"add", "land"} /\ op.id = id /\ op.vec = vec

Covered(s) ==
  /\ \A id \in Ids, vec \in Vectors : Has(id, vec) => Pair(id, vec) \in s.seen
  /\ s.at \in Parts =>
       \A id \in Ids : parts[s.at][id] # None => Pair(id, parts[s.at][id]) \in s.seen
  /\ \A h \in s.hits : Pair(h.id, h.vec) \in s.seen

SearchInv ==
  /\ search \in [Readers -> Search] /\ auto \in BOOLEAN
  /\ \A r \in Readers :
       /\ search[r].pc = "idle" => search[r] = NoSearch
       /\ search[r].pc = "read" => search[r].at \in Parts
       /\ search[r].pc # "idle" => Covered(search[r])

LEMMA SearchInvInit == Init => SearchInv
BY SizesAssumption DEF Init, SearchInv, NoSearch, Search

(* A step of a writer that brings nothing new.                             *)
LEMMA NothingNew ==
  ASSUME SearchInv, UNCHANGED <<search, auto>>,
         \A id \in Ids, vec \in Vectors : Has(id, vec)' => Has(id, vec),
         \A r \in Readers, id \in Ids :
           search[r].at \in Parts /\ parts'[search[r].at][id] # None =>
             \/ parts'[search[r].at][id] = parts[search[r].at][id]
             \/ parts'[search[r].at][id] \in Vectors /\ Has(id, parts'[search[r].at][id])
  PROVE  SearchInv'
<1>1. \A r \in Readers : search[r].pc # "idle" => Covered(search[r])'
  <2> SUFFICES ASSUME NEW r \in Readers, search[r].pc # "idle" PROVE Covered(search[r])'
    OBVIOUS
  <2>1. Covered(search[r])
    BY DEF SearchInv
  <2>2. search'[r] = search[r]
    OBVIOUS
  <2> HIDE DEF Has
  <2> QED  BY <2>1, <2>2 DEF Covered
<1> QED  BY <1>1 DEF SearchInv

(* A writer that takes the lock tells the searches what it brings.         *)
LEMMA LockTells ==
  ASSUME SearchInv, NEW more \in SUBSET Pairs, Lock(more), auto' = auto,
         \A id \in Ids, vec \in Vectors : Has(id, vec)' => Has(id, vec) \/ Pair(id, vec) \in more,
         \A r \in Readers, id \in Ids :
           search[r].at \in Parts /\ parts'[search[r].at][id] # None =>
             parts'[search[r].at][id] = parts[search[r].at][id]
  PROVE  SearchInv'
<1>1. ASSUME NEW r \in Readers
      PROVE  /\ search'[r] \in Search
             /\ search'[r].pc = search[r].pc /\ search'[r].at = search[r].at
             /\ search'[r].hits = search[r].hits
             /\ search[r].pc = "idle" => search'[r] = search[r]
             /\ search[r].pc # "idle" => search'[r].seen = search[r].seen \cup more
  <2>1. search[r] \in Search /\ search[r].overlaps < MaxOverlaps
    BY DEF SearchInv, Lock
  <2>2. CASE search[r].pc = "idle"
    BY <2>1, <2>2 DEF Lock
  <2>3. CASE search[r].pc # "idle"
    <3>1. search'[r] = [search[r] EXCEPT !.overlaps = @ + 1, !.seen = @ \cup more]
      BY <2>3 DEF Lock
    <3>2. search[r].overlaps + 1 \in 0 .. MaxOverlaps /\ search[r].seen \cup more \in SUBSET Pairs
      BY <2>1, SizesAssumption DEF Search, Pairs
    <3> QED  BY <2>1, <2>3, <3>1, <3>2 DEF Search, Pairs
  <2> QED  BY <2>2, <2>3
<1>2. search' \in [Readers -> Search]
  BY <1>1 DEF Lock
<1>3. ASSUME NEW r \in Readers, search'[r].pc # "idle"
      PROVE  Covered(search[r])'
  <2>1. Covered(search[r])
    BY <1>1, <1>3 DEF SearchInv
  <2> HIDE DEF Has
  <2> QED  BY <1>1, <1>3, <2>1 DEF Covered
<1> QED  BY <1>1, <1>2, <1>3 DEF SearchInv

(* The garbage collector keeps what is being read.                         *)
LEMMA CollectedRead ==
  ASSUME NEW pts, NEW lv, NEW r \in Readers, search[r].at \in Parts
  PROVE  Collected(pts, lv)[search[r].at] = pts[search[r].at]
BY DEF Collected

LEMMA InsertSearch ==
  ASSUME IInv, SearchInv, NEW id \in Ids, NEW vec \in Vectors, Insert(id, vec)
  PROVE  SearchInv'
<1>1. {Pair(id, vec)} \in SUBSET Pairs /\ Lock({Pair(id, vec)}) /\ auto' = auto
  BY DEF Insert, Pair, Pairs
<1>2. \A i \in Ids, p \in Parts : parts'[p][i] = parts[p][i] \/ parts'[p][i] = None
  BY DEF Insert, IInv, Typed, Stored
<1>3. op'.id = id /\ op'.vec = vec /\ live' = live /\ live \subseteq Parts
  BY DEF Insert, Free, IInv, Typed
<1>4. ASSUME NEW i \in Ids, NEW v \in Vectors, Has(i, v)'
      PROVE  Has(i, v) \/ Pair(i, v) \in {Pair(id, vec)}
  BY <1>2, <1>3, <1>4 DEF Has
<1> QED  BY <1>1, <1>2, <1>4, LockTells

LEMMA DeleteSearch ==
  ASSUME IInv, SearchInv, NEW id \in Ids, Delete(id)
  PROVE  SearchInv'
<1>1. {} \in SUBSET Pairs /\ Lock({}) /\ auto' = auto
  BY DEF Delete
<1>2. \A i \in Ids, p \in Parts : parts'[p][i] = parts[p][i] \/ parts'[p][i] = None
  BY DEF Delete, IInv, Typed, Stored
<1>3. op'.pc \in {"free", "merge"} /\ live' = live /\ live \subseteq Parts
  BY DEF Delete, Free, IInv, Typed
<1>4. \A i \in Ids, v \in Vectors : Has(i, v)' => Has(i, v)
  BY <1>2, <1>3 DEF Has
<1> QED  BY <1>1, <1>2, <1>4, LockTells

LEMMA ClearSearch == IInv /\ SearchInv /\ Clear => SearchInv'
<1> SUFFICES ASSUME IInv, SearchInv, Clear  PROVE SearchInv'
  OBVIOUS
<1>1. {} \in SUBSET Pairs /\ Lock({}) /\ auto' = auto
  BY DEF Clear
<1>2. \A i \in Ids, v \in Vectors : Has(i, v)' => Has(i, v)
  BY DEF Clear, Lock, Has
<1>3. \A r \in Readers : search[r].at \in Parts => parts'[search[r].at] = parts[search[r].at]
  BY CollectedRead DEF Clear
<1> QED  BY <1>1, <1>2, <1>3, LockTells

LEMMA RebalanceSearch == IInv /\ SearchInv /\ Rebalance => SearchInv'
<1> SUFFICES ASSUME IInv, SearchInv, Rebalance  PROVE SearchInv'
  OBVIOUS
<1>1. {} \in SUBSET Pairs /\ Lock({}) /\ auto' = auto /\ parts' = parts /\ live' = live
  BY DEF Rebalance
<1>2. op'.pc = "splits"
  BY DEF Rebalance, Free
<1>3. \A i \in Ids, v \in Vectors : Has(i, v)' => Has(i, v)
  BY <1>1, <1>2 DEF Has
<1> QED  BY <1>1, <1>3, LockTells

LEMMA AddSearch == IInv /\ SearchInv /\ Add => SearchInv'
<1> SUFFICES ASSUME IInv, SearchInv, Add  PROVE SearchInv'
  OBVIOUS
<1>1. op.pc = "add" /\ op.id \in Ids /\ op.vec \in Vectors
  BY DEF Add, IInv, Working
<1>2. PICK p \in Parts, content \in Stored :
        /\ AddTo(p, content)
        /\ (p \in live /\ content = parts[p]) \/ (New(p) /\ content = Empty)
  <2>1. Empty \in Stored /\ \A p \in live : p \in Parts /\ parts[p] \in Stored
    BY DEF IInv, Typed, Empty, Stored
  <2>2. ASSUME NEW p \in live, AddTo(p, parts[p])
        PROVE  \E x \in Parts, content \in Stored :
                 /\ AddTo(x, content)
                 /\ (x \in live /\ content = parts[x]) \/ (New(x) /\ content = Empty)
    BY <2>1, <2>2, Zenon
  <2>3. ASSUME NEW p \in Parts, New(p), AddTo(p, Empty)
        PROVE  \E x \in Parts, content \in Stored :
                 /\ AddTo(x, content)
                 /\ (x \in live /\ content = parts[x]) \/ (New(x) /\ content = Empty)
    BY <2>1, <2>3, Zenon
  <2> QED  BY <2>2, <2>3, Zenon DEF Add
<1>3. op'.pc \in {"split", "free"} /\ live' = live \cup {p} /\ UNCHANGED <<search, auto>>
  BY <1>2 DEF AddTo, Free
<1>4. /\ \A x \in Parts : x # p => parts'[x] = parts[x]
      /\ \A i \in Ids : parts'[p][i] = IF i = op.id THEN op.vec ELSE content[i]
  BY <1>1, <1>2 DEF AddTo, IInv, Typed, Stored
<1>5. \A i \in Ids : Empty[i] = None
  BY DEF Empty
<1>6. ASSUME NEW i \in Ids, NEW v \in Vectors, Has(i, v)'
      PROVE  Has(i, v)
  <2>1. PICK x \in live' : parts'[x][i] = v
    BY <1>3, <1>6 DEF Has
  <2>2. x \in Parts /\ (x # p => x \in live)
    BY <1>3, <2>1 DEF IInv, Typed
  <2> QED  BY <1>1, <1>2, <1>4, <1>5, <2>1, <2>2 DEF Has
<1>7. ASSUME NEW r \in Readers, NEW i \in Ids, search[r].at \in Parts,
             parts'[search[r].at][i] # None
      PROVE  \/ parts'[search[r].at][i] = parts[search[r].at][i]
             \/ parts'[search[r].at][i] \in Vectors /\ Has(i, parts'[search[r].at][i])
  <2>1. CASE search[r].at # p
    BY <1>4, <1>7, <2>1
  <2>2. CASE search[r].at = p
    <3>1. p \in live /\ content = parts[p]
      BY <1>2, <2>2 DEF New
    <3> QED  BY <1>1, <1>4, <1>7, <2>2, <3>1 DEF Has
  <2> QED  BY <2>1, <2>2
<1> QED  BY <1>3, <1>6, <1>7, NothingNew

LEMMA SplitSearch ==
  ASSUME IInv, SearchInv, op.pc = "split", NEW A \in SUBSET Members(op.src),
         NEW p \in Parts, NEW q \in Parts, p # q, New(p), New(q), SplitInto(A, p, q)
  PROVE  SearchInv'
<1> DEFINE half(B) == [id \in Ids |-> IF id \in B THEN parts[op.src][id] ELSE None]
           fp == half(A)
           fq == half(Members(op.src) \ A)
           pts == [parts EXCEPT ![p] = fp, ![q] = fq]
<1>1. /\ live' = (live \ {op.src}) \cup {p, q} /\ parts' = Collected(pts, live')
      /\ op' = Return /\ UNCHANGED <<search, auto>>
  BY DEF SplitInto
<1>2. /\ parts \in [Parts -> Stored] /\ op.src \in live /\ op.src \in Parts
      /\ live' \in SUBSET Parts
  BY <1>1 DEF IInv, Typed, Working
<1>3. fp \in Stored /\ fq \in Stored
  BY <1>2 DEF Stored
<1>4. pts \in [Parts -> Stored]
  BY <1>2, <1>3
<1>5. \A x \in Parts : pts[x] = IF x = q THEN fq ELSE IF x = p THEN fp ELSE parts[x]
  <2> HIDE DEF fp, fq
  <2> QED  BY <1>2
<1>6. /\ \A x \in live' : parts'[x] = pts[x]
      /\ \A r \in Readers : search[r].at \in Parts => parts'[search[r].at] = pts[search[r].at]
  <2> HIDE DEF pts
  <2> QED  BY <1>1, <1>2, <1>4, CollectedLive, CollectedRead
<1>7. \A i \in Ids : fp[i] \in {None, parts[op.src][i]} /\ fq[i] \in {None, parts[op.src][i]}
  OBVIOUS
<1> HIDE DEF fp, fq, pts
<1>8. op'.pc \notin {"add", "land"}
  BY <1>1, ReturnType DEF IInv
<1>9. ASSUME NEW i \in Ids, NEW v \in Vectors, Has(i, v)'
      PROVE  Has(i, v)
  <2>1. PICK x \in live' : parts'[x][i] = v
    BY <1>8, <1>9 DEF Has
  <2>2. v # None /\ pts[x][i] = v
    BY <1>6, <2>1
  <2>3. CASE x \in {p, q}
    <3>1. v = parts[op.src][i]
      BY <1>5, <1>7, <2>2, <2>3
    <3> QED  BY <1>2, <3>1 DEF Has
  <2>4. CASE x \notin {p, q}
    <3>1. x \in live /\ parts[x][i] = v
      BY <1>1, <1>2, <1>5, <2>1, <2>2, <2>4
    <3> QED  BY <3>1 DEF Has
  <2> QED  BY <2>3, <2>4
<1>10. \A r \in Readers : search[r].at \in Parts => parts'[search[r].at] = parts[search[r].at]
  BY <1>5, <1>6 DEF New
<1> QED  BY <1>1, <1>9, <1>10, NothingNew

LEMMA MergeCopySearch == IInv /\ SearchInv /\ MergeCopy => SearchInv'
<1> SUFFICES ASSUME IInv, SearchInv, MergeCopy  PROVE SearchInv'
  OBVIOUS
<1>1. PICK id \in op.todo :
        /\ parts' = [parts EXCEPT ![op.dst][id] = parts[op.src][id]]
        /\ op' = [op EXCEPT !.todo = @ \ {id}]
  BY DEF MergeCopy
<1>2. /\ op.src \in live /\ op.src \in Parts /\ op.dst \in Parts /\ id \in Ids
      /\ op.pc = "copy" /\ op'.pc = "copy" /\ live' = live /\ live \subseteq Parts
      /\ parts[op.src][id] \in Vectors /\ UNCHANGED <<search, auto>>
  BY <1>1 DEF MergeCopy, IInv, Typed, Working, Op, Members, Stored
<1>3. \A i \in Ids, p \in Parts :
        parts'[p][i] = IF p = op.dst /\ i = id THEN parts[op.src][id] ELSE parts[p][i]
  BY <1>1, <1>2 DEF IInv, Typed, Stored
<1>4. \A i \in Ids, v \in Vectors : Has(i, v)' => Has(i, v)
  BY <1>2, <1>3 DEF Has
<1>5. \A i \in Ids, p \in Parts :
        \/ parts'[p][i] = parts[p][i]
        \/ parts'[p][i] \in Vectors /\ Has(i, parts'[p][i])
  BY <1>2, <1>3 DEF Has
<1> QED  BY <1>2, <1>4, <1>5, NothingNew

LEMMA MergeDropSearch == IInv /\ SearchInv /\ MergeDrop => SearchInv'
<1> SUFFICES ASSUME IInv, SearchInv, MergeDrop  PROVE SearchInv'
  OBVIOUS
<1>1. /\ live' = live \ {op.src} /\ parts' = Collected(parts, live') /\ op' = Return
      /\ UNCHANGED <<search, auto>> /\ live' \in SUBSET Parts /\ parts \in [Parts -> Stored]
  BY DEF MergeDrop, IInv, Typed
<1>2. /\ \A x \in live' : parts'[x] = parts[x]
      /\ \A r \in Readers : search[r].at \in Parts => parts'[search[r].at] = parts[search[r].at]
  BY <1>1, CollectedLive, CollectedRead
<1>3. op'.pc \notin {"add", "land"}
  BY <1>1, ReturnType DEF IInv
<1>4. \A i \in Ids, v \in Vectors : Has(i, v)' => Has(i, v)
  BY <1>1, <1>2, <1>3 DEF Has
<1> QED  BY <1>1, <1>2, <1>4, NothingNew

LEMMA MoveSearch == IInv /\ SearchInv /\ Move => SearchInv'
<1> SUFFICES ASSUME IInv, SearchInv, Move  PROVE SearchInv'
  OBVIOUS
<1>1. /\ op.pc = "move" /\ op.src \in live /\ op.src \in Parts /\ live' = live
      /\ live \subseteq Parts /\ op.todo \subseteq Ids /\ UNCHANGED <<search, auto>>
  BY DEF Move, IInv, Typed, Working, Op
<1>2. PICK id \in op.todo :
        \/ op' = [op EXCEPT !.todo = @ \ {id}] /\ parts' = parts
        \/ \E q \in live \ {op.src} :
             /\ op' = [op EXCEPT !.pc = "land", !.id = id, !.vec = parts[op.src][id],
                                 !.dst = q, !.todo = @ \ {id}]
             /\ parts' = [parts EXCEPT ![op.src][id] = None]
  BY DEF Move
<1>3. /\ \A i \in Ids, p \in Parts : parts'[p][i] = parts[p][i] \/ parts'[p][i] = None
      /\ op'.pc \notin {"add", "land"} \/ (op'.id = id /\ op'.vec = parts[op.src][id])
  <2>1. CASE op' = [op EXCEPT !.todo = @ \ {id}] /\ parts' = parts
    BY <1>1, <2>1 DEF IInv, Typed, Op
  <2>2. CASE \E q \in live \ {op.src} :
               /\ op' = [op EXCEPT !.pc = "land", !.id = id, !.vec = parts[op.src][id],
                                   !.dst = q, !.todo = @ \ {id}]
               /\ parts' = [parts EXCEPT ![op.src][id] = None]
    BY <1>1, <2>2 DEF IInv, Typed, Op, Stored
  <2> QED  BY <1>2, <2>1, <2>2
<1>4. \A i \in Ids, v \in Vectors : Has(i, v)' => Has(i, v)
  BY <1>1, <1>3 DEF Has
<1> QED  BY <1>1, <1>3, <1>4, NothingNew

LEMMA LandSearch == IInv /\ SearchInv /\ Land => SearchInv'
<1> SUFFICES ASSUME IInv, SearchInv, Land  PROVE SearchInv'
  OBVIOUS
<1>1. /\ op.pc = "land" /\ op.id \in Ids /\ op.vec \in Vectors /\ op.dst \in Parts
      /\ op'.pc = "move" /\ live' = live /\ live \subseteq Parts /\ UNCHANGED <<search, auto>>
  BY DEF Land, IInv, Typed, Working, Op
<1>2. \A i \in Ids, p \in Parts :
        parts'[p][i] = IF p = op.dst /\ i = op.id THEN op.vec ELSE parts[p][i]
  BY <1>1 DEF Land, IInv, Typed, Stored
<1>3. \A i \in Ids, v \in Vectors : Has(i, v)' => Has(i, v)
  BY <1>1, <1>2 DEF Has
<1>4. \A i \in Ids, p \in Parts :
        \/ parts'[p][i] = parts[p][i]
        \/ parts'[p][i] \in Vectors /\ Has(i, parts'[p][i])
  BY <1>1, <1>2 DEF Has
<1> QED  BY <1>1, <1>3, <1>4, NothingNew

(* The steps of a writer that change no table.                             *)
LEMMA PhaseSearch ==
  ASSUME IInv, SearchInv, Merge \/ SplitPhase \/ MergePhase \/ MigratePhase \/ NextPhase
  PROVE  SearchInv'
<1>1. UNCHANGED <<parts, live, search, auto>>
  BY DEF Merge, SplitPhase, MergePhase, MigratePhase, NextPhase
<1>2. op'.pc \notin {"add", "land"}
  <2>1. CASE Merge
    BY <2>1, ReturnType DEF Merge, IInv, Typed, Op
  <2>2. CASE SplitPhase
    BY <2>2 DEF SplitPhase, IInv, Typed, Op
  <2>3. CASE MergePhase
    BY <2>3 DEF MergePhase, IInv, Typed, Op
  <2>4. CASE MigratePhase
    BY <2>4 DEF MigratePhase, IInv, Typed, Op
  <2>5. CASE NextPhase
    <3>1. PICK pc \in {"merges", "migrates"}, pids \in {live, op.pids} :
            op' = Free \/ op' = [Free EXCEPT !.pc = pc, !.pids = pids]
      BY <2>5 DEF NextPhase
    <3>2. CASE op' = Free
      BY <3>2 DEF Free
    <3>3. CASE op' = [Free EXCEPT !.pc = pc, !.pids = pids]
      BY <3>3 DEF Free
    <3> QED  BY <3>1, <3>2, <3>3
  <2> QED  BY <2>1, <2>2, <2>3, <2>4, <2>5
<1>3. \A i \in Ids, v \in Vectors : Has(i, v)' => Has(i, v)
  BY <1>1, <1>2 DEF Has
<1> QED  BY <1>1, <1>3, NothingNew

(* A step of one search that changes no table.                             *)
LEMMA OneSearchSteps ==
  ASSUME SearchInv, NEW r \in Readers, NEW s \in Search, search' = [search EXCEPT ![r] = s],
         UNCHANGED <<parts, live, op, auto>>,
         s.pc = "idle" => s = NoSearch, s.pc = "read" => s.at \in Parts, s.pc # "idle" => Covered(s)
  PROVE  SearchInv'
<1>1. \A i, v : Has(i, v)' <=> Has(i, v)
  BY DEF Has
<1>2. \A x \in Readers : search'[x] = IF x = r THEN s ELSE search[x]
  BY DEF SearchInv
<1>3. \A x \in Readers : search'[x].pc # "idle" => Covered(search[x])'
  <2> HIDE DEF Has
  <2> QED  BY <1>1, <1>2 DEF SearchInv, Covered
<1> QED  BY <1>2, <1>3 DEF SearchInv

LEMMA SearchStartSearch ==
  ASSUME IInv, SearchInv, NEW r \in Readers, SearchStart(r)
  PROVE  SearchInv'
<1>1. PICK P \in SUBSET live :
        search' = [search EXCEPT ![r] = [NoSearch EXCEPT !.pc = "fetch", !.todo = P, !.seen = Current]]
  BY DEF SearchStart
<1> DEFINE s == [NoSearch EXCEPT !.pc = "fetch", !.todo = P, !.seen = Current]
<1>2. op.pc = "free" /\ UNCHANGED <<parts, live, op, auto>>
  BY DEF SearchStart
<1>3. \A id \in Ids : home[id] # None => Held(id) = parts[home[id]][id] /\ Held(id) \in Vectors
  BY <1>2 DEF IInv, Typed, PlacedThroughout, Found, Held, Stored
<1>4. \A id \in Ids : Held(id) # None => Held(id) \in Vectors
  BY <1>2, <1>3 DEF Held
<1>5. Current \in SUBSET Pairs
  BY <1>4 DEF Current, Pairs
<1>6. \A id \in Ids, vec \in Vectors : Has(id, vec) => Pair(id, vec) \in Current
  <2> SUFFICES ASSUME NEW id \in Ids, NEW vec \in Vectors, Has(id, vec) PROVE Pair(id, vec) \in Current
    OBVIOUS
  <2>1. PICK p \in live : parts[p][id] = vec
    BY <1>2 DEF Has
  <2>2. home[id] = p
    BY <1>2, <2>1 DEF IInv, Typed, PlacedThroughout, Found
  <2>3. Held(id) = vec /\ Held(id) # None
    BY <1>3, <2>1, <2>2 DEF IInv, Typed
  <2> QED  BY <2>3 DEF Current, Pair
<1>7. /\ s \in Search /\ s.pc = "fetch" /\ s.at = None /\ s.hits = {} /\ s.seen = Current
  <2>1. P \in SUBSET Parts
    BY DEF IInv, Typed
  <2>2. NoSearch \in Search
    BY SizesAssumption DEF NoSearch, Search
  <2>3. Current \in SUBSET [id : Ids, vec : Vectors]
    BY <1>5 DEF Pairs
  <2>4. NoSearch.at = None /\ NoSearch.hits = {}
    BY DEF NoSearch
  <2> HIDE DEF Current, NoSearch
  <2> QED  BY <2>1, <2>2, <2>3, <2>4 DEF Search
<1>8. Covered(s)
  <2> HIDE DEF s
  <2> QED  BY <1>6, <1>7 DEF Covered
<1> HIDE DEF s
<1> QED  BY <1>1, <1>2, <1>7, <1>8, OneSearchSteps DEF s

LEMMA SearchFetchSearch ==
  ASSUME IInv, SearchInv, NEW r \in Readers, SearchFetch(r)
  PROVE  SearchInv'
<1> DEFINE o == search[r]
<1>1. /\ o \in Search /\ o.pc = "fetch" /\ Covered(o) /\ UNCHANGED <<parts, live, op, auto>>
      /\ live \subseteq Parts /\ parts \in [Parts -> Stored]
  BY DEF SearchFetch, SearchInv, IInv, Typed
<1>2. PICK p \in o.todo :
        search' = IF p \in live
                  THEN [search EXCEPT ![r].pc = "read", ![r].at = p, ![r].todo = @ \ {p}]
                  ELSE [search EXCEPT ![r].todo = @ \ {p}]
  BY DEF SearchFetch
<1>3. CASE p \in live
  <2> DEFINE s == [o EXCEPT !.pc = "read", !.at = p, !.todo = @ \ {p}]
  <2>1. search' = [search EXCEPT ![r] = s]
    BY <1>2, <1>3 DEF SearchInv
  <2>2. /\ s \in Search /\ s.pc = "read" /\ s.at = p /\ s.hits = o.hits /\ s.seen = o.seen
        /\ p \in Parts
    BY <1>1, <1>3 DEF Search
  <2>3. \A id \in Ids : parts[p][id] # None => parts[p][id] \in Vectors /\ Has(id, parts[p][id])
    BY <1>1, <1>3 DEF Has, Stored
  <2>4. Covered(s)
    <3> HIDE DEF s, Has
    <3> QED  BY <1>1, <2>2, <2>3 DEF Covered
  <2> HIDE DEF s
  <2> QED  BY <1>1, <2>1, <2>2, <2>4, OneSearchSteps
<1>4. CASE p \notin live
  <2> DEFINE s == [o EXCEPT !.todo = @ \ {p}]
  <2>1. search' = [search EXCEPT ![r] = s]
    BY <1>2, <1>4 DEF SearchInv
  <2>2. s \in Search /\ s.pc = "fetch" /\ s.at = o.at /\ s.hits = o.hits /\ s.seen = o.seen
    BY <1>1 DEF Search
  <2>3. Covered(s)
    <3> HIDE DEF s, Has
    <3> QED  BY <1>1, <2>2 DEF Covered
  <2> HIDE DEF s
  <2> QED  BY <1>1, <2>1, <2>2, <2>3, OneSearchSteps
<1> QED  BY <1>3, <1>4

LEMMA SearchReadSearch ==
  ASSUME IInv, SearchInv, NEW r \in Readers, SearchRead(r)
  PROVE  SearchInv'
<1> DEFINE o == search[r]  p == o.at
           found == {[part |-> p, id |-> id, vec |-> parts[p][id]] : id \in Members(p)}
           s == [o EXCEPT !.pc = "fetch", !.at = None, !.hits = @ \cup found]
<1>1. /\ o \in Search /\ o.pc = "read" /\ p \in Parts /\ Covered(o)
      /\ UNCHANGED <<live, op, auto>> /\ parts \in [Parts -> Stored] /\ live \subseteq Parts
  BY DEF SearchRead, SearchInv, IInv, Typed
<1>2. \A x \in Readers : search'[x] = IF x = r THEN s ELSE search[x]
  BY DEF SearchRead, SearchInv
<1>3. /\ \A x \in live : parts'[x] = parts[x]
      /\ \A x \in Readers \ {r} : search[x].at \in Parts => parts'[search[x].at] = parts[search[x].at]
  BY <1>1 DEF SearchRead
<1>4. \A h \in found : h \in [part : Parts, id : Ids, vec : Vectors] /\ Pair(h.id, h.vec) \in o.seen
  <2> SUFFICES ASSUME NEW id \in Members(p)
      PROVE  LET h == [part |-> p, id |-> id, vec |-> parts[p][id]]
             IN h \in [part : Parts, id : Ids, vec : Vectors] /\ Pair(h.id, h.vec) \in o.seen
    OBVIOUS
  <2>1. id \in Ids /\ parts[p][id] \in Vectors
    BY <1>1 DEF Members, Stored
  <2>2. Pair(id, parts[p][id]) \in o.seen
    BY <1>1, <2>1 DEF Covered, Members
  <2> QED  BY <1>1, <2>1, <2>2 DEF Pair
<1>5. /\ s \in Search /\ s.pc = "fetch" /\ s.at = None /\ s.seen = o.seen
      /\ s.hits = o.hits \cup found
  <2>1. o.hits \cup found \in SUBSET [part : Parts, id : Ids, vec : Vectors]
    BY <1>1, <1>4 DEF Search
  <2> HIDE DEF found
  <2> QED  BY <1>1, <2>1 DEF Search
<1>6. \A i \in Ids, v \in Vectors : Has(i, v)' <=> Has(i, v)
  BY <1>1, <1>3 DEF Has
<1> HIDE DEF found, s, Has
<1>7. search' \in [Readers -> Search]
  <2>1. DOMAIN search' = Readers /\ search' = [x \in Readers |-> search'[x]]
    BY DEF SearchRead, SearchInv
  <2> QED  BY <1>2, <1>5, <2>1 DEF SearchInv
<1>8. ASSUME NEW x \in Readers, search'[x].pc # "idle" PROVE Covered(search[x])'
  <2>1. CASE x = r
    BY <1>1, <1>2, <1>4, <1>5, <1>6, <2>1 DEF Covered
  <2>2. CASE x # r
    BY <1>2, <1>3, <1>6, <1>8, <2>2 DEF Covered, SearchInv
  <2> QED  BY <2>1, <2>2
<1> QED  BY <1>1, <1>2, <1>5, <1>7, <1>8 DEF SearchInv

LEMMA SearchReturnSearch ==
  ASSUME SearchInv, NEW r \in Readers, SearchReturn(r)
  PROVE  SearchInv'
<1>1. NoSearch \in Search /\ NoSearch.pc = "idle"
  BY SizesAssumption DEF NoSearch, Search
<1> QED  BY <1>1, OneSearchSteps DEF SearchReturn

LEMMA SearchInductive == IInv /\ SearchInv /\ [Next]_vars => SearchInv'
<1> SUFFICES ASSUME IInv, SearchInv, [Next]_vars  PROVE SearchInv'
  OBVIOUS
<1>1. CASE \E id \in Ids : Delete(id) \/ \E vec \in Vectors : Insert(id, vec)
  BY <1>1, InsertSearch, DeleteSearch
<1>2. CASE Clear \/ Rebalance
  BY <1>2, ClearSearch, RebalanceSearch
<1>3. CASE Split
  <2>1. PICK A \in (SUBSET Members(op.src)) \ {{}, Members(op.src)}, p, q \in Parts :
          p # q /\ New(p) /\ New(q) /\ SplitInto(A, p, q)
    BY <1>3, Zenon DEF Split
  <2>2. op.pc = "split" /\ A \in SUBSET Members(op.src)
    BY <1>3, Zenon DEF Split
  <2> QED  BY <2>1, <2>2, SplitSearch
<1>4. CASE Merge \/ SplitPhase \/ MergePhase \/ MigratePhase \/ NextPhase
  BY <1>4, PhaseSearch
<1>5. CASE Add \/ MergeCopy \/ MergeDrop \/ Move \/ Land
  BY <1>5, AddSearch, MergeCopySearch, MergeDropSearch, MoveSearch, LandSearch
<1>6. CASE \E r \in Readers : SearchStart(r) \/ SearchFetch(r) \/ SearchRead(r) \/ SearchReturn(r)
  BY <1>6, SearchStartSearch, SearchFetchSearch, SearchReadSearch, SearchReturnSearch
<1>7. CASE UNCHANGED vars
  <2>1. UNCHANGED <<parts, live, op, search, auto>>
    BY <1>7 DEF vars
  <2>2. \A i, v : Has(i, v)' <=> Has(i, v)
    BY <2>1 DEF Has
  <2> QED  BY <2>1, <2>2, NothingNew
<1> QED  BY <1>1, <1>2, <1>3, <1>4, <1>5, <1>6, <1>7 DEF Next, WriterStep

(* A search of spfresh.py returns only vectors that the index held at some *)
(* time since it began, however many writers split, merge, migrate and     *)
(* replace what it is reading; and the index stays typed.                  *)
THEOREM SearchesAreHonest == Spec => []HitsWereStored
<1>1. IInv /\ SearchInv => HitsWereStored
  <2> SUFFICES ASSUME IInv, SearchInv PROVE HitsWereStored
    OBVIOUS
  <2>1. SPTypeOK
    BY DEF IInv, Typed, Working, SearchInv, SPTypeOK
  <2>2. \A r \in Readers : \A h \in search[r].hits : Pair(h.id, h.vec) \in search[r].seen
    BY DEF SearchInv, Covered, NoSearch
  <2> QED  BY <2>1, <2>2 DEF HitsWereStored, Pair
<1> QED  BY <1>1, InitIInv, Inductive, SearchInvInit, SearchInductive, PTL DEF Spec
----------------------------------------------------------------------------
(* Sizes.  With auto_rebalance a partition is overfull only between the    *)
(* insert that filled it and its split, and then by one vector; a merge    *)
(* and a migration have made sure of the room before they start.           *)

Room ==
  auto =>
    /\ \A p \in live : (op.pc = "split" /\ p = op.src) \/ Size(p) <= MaxSize
    /\ op.pc = "split" => Size(op.src) <= MaxSize + 1
    /\ op.pc = "copy" => Cardinality(Members(op.src) \cup Members(op.dst)) <= MaxSize
    /\ op.pc = "land" => Size(op.dst) < MaxSize

LEMMA PlusOne ==
  ASSUME NEW S, NEW x, IsFiniteSet(S)
  PROVE  /\ IsFiniteSet(S \cup {x}) /\ Cardinality(S) \in Nat
         /\ Cardinality(S \cup {x}) \in Nat /\ Cardinality(S \cup {x}) <= Cardinality(S) + 1
<1>1. IsFiniteSet(S \cup {x}) /\ Cardinality(S) \in Nat
  BY FS_AddElement, FS_CardinalityType
<1>2. Cardinality(S \cup {x}) = IF x \in S THEN Cardinality(S) ELSE Cardinality(S) + 1
  BY FS_AddElement
<1>. QED BY <1>1, <1>2

LEMMA MembersFinite ==
  ASSUME NEW p
  PROVE  IsFiniteSet(Members(p)) /\ Size(p) \in Nat
<1>1. Members(p) \in SUBSET Ids
  BY DEF Members
<1>. QED BY <1>1, SPFiniteAssumption, FS_Subset, FS_CardinalityType DEF Size

(* A partition that gains nothing is no larger. *)
LEMMA NoLarger ==
  ASSUME NEW p, Members(p)' \subseteq Members(p)
  PROVE  Size(p)' <= Size(p) /\ Size(p) \in Nat /\ Size(p)' \in Nat
<1>1. IsFiniteSet(Members(p)) /\ Size(p) \in Nat
  BY MembersFinite
<1>. DEFINE M == Members(p)'
<1>2. M \in SUBSET Members(p)
  OBVIOUS
<1>3. IsFiniteSet(M) /\ Cardinality(M) <= Cardinality(Members(p)) /\ Cardinality(M) \in Nat
  <2>. HIDE DEF M
  <2>. QED BY <1>1, <1>2, FS_Subset, FS_CardinalityType
<1>. QED BY <1>1, <1>3 DEF Size

(* One more vector makes it larger by one. *)
LEMMA OneLarger ==
  ASSUME NEW p, NEW id, Members(p)' \subseteq Members(p) \cup {id}
  PROVE  Size(p)' <= Size(p) + 1 /\ Size(p) \in Nat /\ Size(p)' \in Nat
<1>1. IsFiniteSet(Members(p)) /\ Size(p) \in Nat
  BY MembersFinite
<1>. DEFINE M == Members(p)'  N == Members(p) \cup {id}
<1>2. M \in SUBSET N
  OBVIOUS
<1>3. IsFiniteSet(N) /\ Cardinality(N) <= Cardinality(Members(p)) + 1 /\ Cardinality(N) \in Nat
  <2>1. IsFiniteSet(Members(p)) /\ Cardinality(Members(p)) \in Nat
    BY <1>1 DEF Size
  <2>. QED BY <2>1, PlusOne
<1>4. Cardinality(M) <= Cardinality(N) /\ Cardinality(M) \in Nat
  <2>. HIDE DEF M, N
  <2>. QED BY <1>2, <1>3, FS_Subset, FS_CardinalityType
<1>5. Cardinality(M) <= Cardinality(Members(p)) + 1
  <2>. HIDE DEF M, N
  <2>. QED BY <1>1, <1>3, <1>4 DEF Size
<1>. QED BY <1>1, <1>4, <1>5 DEF Size

(* A step that brings no vector to any partition of the index, and starts  *)
(* nothing that will.                                                      *)
LEMMA OnlyLess ==
  ASSUME Room, auto' = auto, live' \subseteq live,
         op.pc # "split", op'.pc \notin {"split", "copy", "land"},
         \A p \in live' : Members(p)' \subseteq Members(p)
  PROVE  Room'
<1>. SUFFICES ASSUME auto, NEW p \in live' PROVE Size(p)' <= MaxSize
  BY DEF Room
<1>1. Size(p) <= MaxSize
  BY DEF Room
<1>. QED BY <1>1, NoLarger, SizesAssumption

LEMMA RoomInit == Init => Room
BY DEF Init, Room, Free

LEMMA InsertRoom ==
  ASSUME IInv, Room, NEW id \in Ids, NEW vec \in Vectors, Insert(id, vec)
  PROVE  Room'
<1>1. op.pc = "free" /\ op'.pc = "add" /\ live' = live /\ auto' = auto
  BY DEF Insert, Lock, Free
<1>2. \A p \in live : Members(p)' \subseteq Members(p)
  BY DEF Insert, Members, IInv, Typed, Stored
<1>. QED BY <1>1, <1>2, OnlyLess

(* The target may overflow, by one; then it is split. *)
LEMMA AddRoom ==
  ASSUME IInv, Room, op.pc = "add", NEW p \in Parts, NEW content \in Stored,
         \/ p \in live /\ content = parts[p]
         \/ p \notin live /\ content = Empty,
         AddTo(p, content)
  PROVE  Room'
<1>. DEFINE C == {i \in Ids : i = op.id \/ content[i] # None}
            B == {i \in Ids : content[i] # None}
<1>. SUFFICES ASSUME auto PROVE Room'
  BY DEF AddTo, Room
<1>1. \A x \in Parts : parts'[x] = IF x = p THEN [content EXCEPT ![op.id] = op.vec] ELSE parts[x]
  BY DEF AddTo, IInv, Typed
<1>2. Members(p)' = C
  BY <1>1 DEF Members, Stored, IInv, Working
<1>3. \A x \in live : x # p => Members(x)' = Members(x)
  BY <1>1 DEF Members, IInv, Typed
<1>4. IsFiniteSet(B) /\ Cardinality(B) \in Nat /\ Cardinality(B) <= MaxSize
  <2>1. CASE p \in live /\ content = parts[p]
    BY <2>1, MembersFinite DEF Room, Size, Members
  <2>2. CASE content = Empty
    <3>1. B = {}
      BY <2>2 DEF Empty
    <3>. QED BY <3>1, FS_EmptySet, SizesAssumption
  <2>. QED BY <2>1, <2>2
<1>5. Cardinality(C) \in Nat /\ Cardinality(C) <= MaxSize + 1
  <2>1. C \in SUBSET (B \cup {op.id})
    OBVIOUS
  <2>2. /\ IsFiniteSet(B \cup {op.id}) /\ Cardinality(B \cup {op.id}) <= MaxSize + 1
        /\ Cardinality(B \cup {op.id}) \in Nat
    <3>1. \A x : /\ IsFiniteSet(B \cup {x}) /\ Cardinality(B \cup {x}) \in Nat
                 /\ Cardinality(B \cup {x}) <= Cardinality(B) + 1
      <4>. HIDE DEF B
      <4>. QED BY <1>4, PlusOne
    <3>2. IsFiniteSet(B \cup {op.id}) /\ Cardinality(B \cup {op.id}) \in Nat
      BY <3>1
    <3>3. Cardinality(B \cup {op.id}) <= Cardinality(B) + 1
      BY <3>1
    <3>. HIDE DEF B
    <3>. QED BY <1>4, <3>2, <3>3, SizesAssumption
  <2>. HIDE DEF B, C
  <2>3. IsFiniteSet(C) /\ Cardinality(C) <= Cardinality(B \cup {op.id})
    BY <2>1, <2>2, FS_Subset
  <2>4. Cardinality(C) \in Nat
    BY <2>3, FS_CardinalityType
  <2>. QED BY <2>2, <2>3, <2>4, SizesAssumption
<1>6. Size(p)' = Cardinality(C) /\ \A x \in live : x # p => Size(x)' = Size(x) /\ Size(x) <= MaxSize
  BY <1>2, <1>3 DEF Size, Room
<1>7. live' = live \cup {p} /\ op' = IF auto /\ Cardinality(C) > MaxSize
                                    THEN [Free EXCEPT !.pc = "split", !.src = p] ELSE Free
  BY DEF AddTo
<1>. HIDE DEF C, B
<1>8. CASE Cardinality(C) > MaxSize
  <2>1. op'.pc = "split" /\ op'.src = p
    BY <1>7, <1>8 DEF Free
  <2>2. Size(p)' <= MaxSize + 1 /\ \A x \in live' : x # p => Size(x)' <= MaxSize
    BY <1>5, <1>6, <1>7
  <2>3. Size(op.src)' <= MaxSize + 1
    BY <1>2, <1>5, <2>1 DEF Size, Members
  <2>. QED BY <2>1, <2>2, <2>3 DEF Room
<1>9. CASE ~(Cardinality(C) > MaxSize)
  <2>1. op'.pc = "free"
    BY <1>7, <1>9 DEF Free
  <2>2. \A x \in live' : Size(x)' <= MaxSize
    BY <1>5, <1>6, <1>7, <1>9, SizesAssumption
  <2>. QED BY <2>1, <2>2 DEF Room
<1>. QED BY <1>8, <1>9

(* Both halves of the overfull partition are smaller than it. *)
LEMMA SplitRoom ==
  ASSUME IInv, Room, op.pc = "split", NEW A \in SUBSET Members(op.src),
         A # {}, A # Members(op.src),
         NEW p \in Parts, NEW q \in Parts, p # q, New(p), New(q), SplitInto(A, p, q)
  PROVE  Room'
<1>. DEFINE half(B) == [id \in Ids |-> IF id \in B THEN parts[op.src][id] ELSE None]
            M == Members(op.src)
            pts == [parts EXCEPT ![p] = half(A), ![q] = half(M \ A)]
<1>. SUFFICES ASSUME auto PROVE Room'
  BY DEF SplitInto, Room
<1>1. /\ live' = (live \ {op.src}) \cup {p, q} /\ parts' = Collected(pts, live') /\ op' = Return
      /\ op.src \in live /\ p \notin live /\ q \notin live
      /\ parts \in [Parts -> Stored] /\ live \subseteq Parts
  BY DEF SplitInto, New, IInv, Typed, Working
<1>2. \A x \in live' : parts'[x] = pts[x]
  <2>1. \A B : half(B) \in Stored
    BY <1>1 DEF Stored
  <2>2. pts \in [Parts -> Stored] /\ live' \in SUBSET Parts
    <3>. HIDE DEF half
    <3>. QED BY <1>1, <2>1
  <2>. HIDE DEF pts
  <2>. QED BY <1>1, <2>2, CollectedLive
<1>3. Members(p)' = A /\ Members(q)' = M \ A
  <2>1. parts'[p] = half(A) /\ parts'[q] = half(M \ A)
    BY <1>1, <1>2
  <2>. QED BY <2>1 DEF Members
<1>4. \A x \in live \ {op.src} : Members(x)' = Members(x)
  <2>1. \A x \in live \ {op.src} : parts'[x] = parts[x]
    BY <1>1, <1>2
  <2>. QED BY <2>1 DEF Members
<1>5. /\ Cardinality(A) \in Nat /\ Cardinality(A) < Cardinality(M)
      /\ Cardinality(M \ A) \in Nat /\ Cardinality(M \ A) < Cardinality(M)
      /\ Cardinality(M) \in Nat /\ Cardinality(M) <= MaxSize + 1
  <2>1. IsFiniteSet(M) /\ Cardinality(M) \in Nat /\ Cardinality(M) <= MaxSize + 1
    BY MembersFinite DEF Room, Size
  <2>2. ASSUME NEW B \in SUBSET M, B # M
        PROVE  Cardinality(B) \in Nat /\ Cardinality(B) < Cardinality(M)
    <3>. HIDE DEF M
    <3>1. IsFiniteSet(B) /\ Cardinality(B) <= Cardinality(M) /\ Cardinality(M) # Cardinality(B)
      BY <2>1, <2>2, FS_Subset
    <3>. QED BY <2>1, <3>1, FS_CardinalityType
  <2>3. M \ A \in SUBSET M /\ M \ A # M
    OBVIOUS
  <2>. QED BY <2>1, <2>2, <2>3
<1>6. op'.pc \in {"free", "splits", "merges"}
  BY <1>1, ReturnType DEF IInv
<1>7. \A x \in live' : Size(x)' <= MaxSize
  <2>1. Size(p)' <= MaxSize /\ Size(q)' <= MaxSize
    BY <1>3, <1>5, SizesAssumption DEF Size
  <2>2. \A x \in live \ {op.src} : Size(x)' <= MaxSize
    BY <1>4 DEF Size, Room
  <2>. QED BY <1>1, <2>1, <2>2
<1>. QED BY <1>6, <1>7 DEF Room

LEMMA DeleteRoom ==
  ASSUME IInv, Room, NEW id \in Ids, Delete(id)
  PROVE  Room'
<1>1. op.pc = "free" /\ op'.pc \in {"free", "merge"} /\ live' = live /\ auto' = auto
  BY DEF Delete, Lock, Free
<1>2. \A p \in live : Members(p)' \subseteq Members(p)
  BY DEF Delete, Members, IInv, Typed, Stored
<1>. QED BY <1>1, <1>2, OnlyLess

LEMMA ClearRoom == IInv /\ Room /\ Clear => Room'
BY DEF Clear, Lock, Room

(* The merge goes ahead only if the target has room for both. *)
LEMMA MergeRoom == IInv /\ Room /\ Merge => Room'
<1>. SUFFICES ASSUME IInv, Room, Merge PROVE Room'
  OBVIOUS
<1>1. PICK q \in live \ {op.src} :
        op' = IF Size(q) + Size(op.src) > MaxSize
              THEN Return
              ELSE [op EXCEPT !.pc = "copy", !.dst = q, !.todo = Members(op.src)]
  BY DEF Merge
<1>2. op.pc = "merge" /\ UNCHANGED <<parts, live, auto>> /\ op \in Op
  BY DEF Merge, IInv, Typed
<1>3. \A p \in live : Members(p)' = Members(p) /\ Size(p)' = Size(p)
  BY <1>2 DEF Members, Size
<1>4. CASE op' = Return
  <2>1. op'.pc \in {"free", "splits", "merges"}
    BY <1>4, ReturnType DEF IInv
  <2>. QED BY <1>2, <1>3, <2>1, OnlyLess
<1>5. CASE /\ ~(Size(q) + Size(op.src) > MaxSize)
           /\ op' = [op EXCEPT !.pc = "copy", !.dst = q, !.todo = Members(op.src)]
  <2>1. op'.pc = "copy" /\ op'.src = op.src /\ op'.dst = q
    BY <1>2, <1>5 DEF Op
  <2>2. /\ IsFiniteSet(Members(q)) /\ IsFiniteSet(Members(op.src))
        /\ Size(q) \in Nat /\ Size(op.src) \in Nat
    BY MembersFinite
  <2>3. Cardinality(Members(op.src) \cup Members(q)) <= Size(op.src) + Size(q)
    <3>1. /\ IsFiniteSet(Members(op.src) \cap Members(q))
          /\ Cardinality(Members(op.src) \cap Members(q)) \in Nat
      <4>1. Members(op.src) \cap Members(q) \in SUBSET Members(q)
        OBVIOUS
      <4>. QED BY <2>2, <4>1, FS_Subset, FS_CardinalityType
    <3>2. Cardinality(Members(op.src) \cup Members(q))
            = Size(op.src) + Size(q) - Cardinality(Members(op.src) \cap Members(q))
      BY <2>2, FS_Union DEF Size
    <3>. QED BY <2>2, <3>1, <3>2
  <2>4. IsFiniteSet(Members(op.src) \cup Members(q)) /\ Cardinality(Members(op.src) \cup Members(q)) \in Nat
    BY <2>2, FS_Union, FS_CardinalityType
  <2>5. Cardinality(Members(op.src) \cup Members(q)) <= MaxSize
    BY <1>5, <2>2, <2>3, <2>4, SizesAssumption
  <2>6. Members(op.src)' = Members(op.src) /\ Members(op.dst)' = Members(q)
    BY <1>2, <2>1 DEF Members
  <2>. QED BY <1>2, <1>3, <2>1, <2>5, <2>6 DEF Room
<1>. QED BY <1>1, <1>4, <1>5

(* A copy adds to the target what the two hold together already. *)
LEMMA MergeCopyRoom == IInv /\ Room /\ MergeCopy => Room'
<1>. SUFFICES ASSUME IInv, Room, MergeCopy, auto PROVE Room'
  BY DEF MergeCopy, Room
<1>1. PICK id \in op.todo :
        /\ parts' = [parts EXCEPT ![op.dst][id] = parts[op.src][id]]
        /\ op' = [op EXCEPT !.todo = @ \ {id}]
  BY DEF MergeCopy
<1>2. /\ op.pc = "copy" /\ op.src \in Parts /\ op.dst \in Parts /\ op.src # op.dst
      /\ op.dst \in live /\ op.src \in live /\ live' = live /\ live \subseteq Parts
      /\ id \in Members(op.src) /\ id \in Ids
      /\ op'.pc = "copy" /\ op'.src = op.src /\ op'.dst = op.dst
  BY <1>1 DEF MergeCopy, IInv, Typed, Working, Op, Members
<1>3. \A x \in Parts : x # op.dst => parts'[x] = parts[x]
  BY <1>1, <1>2 DEF IInv, Typed
<1>4. parts'[op.dst] = [parts[op.dst] EXCEPT ![id] = parts[op.src][id]] /\ parts[op.dst] \in Stored
  BY <1>1, <1>2 DEF IInv, Typed
<1>. DEFINE src == op.src  dst == op.dst  U == Members(src) \cup Members(dst)
<1>5. /\ \A x \in live : x # dst => Members(x)' = Members(x)
      /\ Members(dst)' = Members(dst) \cup {id}
  BY <1>2, <1>3, <1>4 DEF Members, Stored
<1>6. (Members(op.src) \cup Members(op.dst))' = U /\ Members(dst)' \subseteq U
  <2>1. Members(op.src)' = Members(src) /\ Members(op.dst)' = Members(dst) \cup {id}
    BY <1>2, <1>3, <1>4 DEF Members, Stored
  <2>. QED BY <1>2, <1>5, <2>1
<1>7. Cardinality(U) <= MaxSize /\ Cardinality(U) \in Nat /\ IsFiniteSet(U)
  <2>1. IsFiniteSet(Members(src)) /\ IsFiniteSet(Members(dst))
    BY MembersFinite
  <2>2. IsFiniteSet(U)
    BY <2>1, FS_Union
  <2>3. Cardinality(U) <= MaxSize
    BY <1>2 DEF Room
  <2>. HIDE DEF U
  <2>. QED BY <2>2, <2>3, FS_CardinalityType
<1>8. Size(dst)' <= MaxSize
  <2>. DEFINE M == Members(dst)'
  <2>1. M \in SUBSET U
    BY <1>6
  <2>2. IsFiniteSet(M) /\ Cardinality(M) <= Cardinality(U)
    <3>. HIDE DEF M, U
    <3>. QED BY <1>7, <2>1, FS_Subset
  <2>3. Cardinality(M) \in Nat
    <3>. HIDE DEF M
    <3>. QED BY <2>2, FS_CardinalityType
  <2>4. Cardinality(M) <= MaxSize
    <3>. HIDE DEF M, U
    <3>. QED BY <1>7, <2>2, <2>3, SizesAssumption
  <2>. QED BY <2>4 DEF Size
<1>9. \A x \in live' : Size(x)' <= MaxSize
  BY <1>2, <1>5, <1>8 DEF Room, Size
<1>10. Cardinality(Members(op.src) \cup Members(op.dst))' <= MaxSize
  BY <1>6, <1>7
<1>. QED BY <1>2, <1>9, <1>10 DEF Room

LEMMA MergeDropRoom == IInv /\ Room /\ MergeDrop => Room'
<1>. SUFFICES ASSUME IInv, Room, MergeDrop PROVE Room'
  OBVIOUS
<1>1. /\ op.pc = "copy" /\ live' = live \ {op.src} /\ parts' = Collected(parts, live')
      /\ op' = Return /\ auto' = auto /\ parts \in [Parts -> Stored] /\ live' \in SUBSET Parts
  BY DEF MergeDrop, IInv, Typed
<1>2. \A x \in live' : Members(x)' = Members(x)
  BY <1>1, CollectedLive DEF Members
<1>3. op'.pc \in {"free", "splits", "merges"}
  BY <1>1, ReturnType DEF IInv
<1>. QED BY <1>1, <1>2, <1>3, OnlyLess

(* A partition that overflows is never left for a rebalance to split. *)
LEMMA SplitPhaseRoom == IInv /\ Room /\ SplitPhase => Room'
<1>. SUFFICES ASSUME IInv, Room, SplitPhase, auto PROVE Room'
  BY DEF SplitPhase, Room
<1>1. op.pc = "splits" /\ UNCHANGED <<parts, live, auto>> /\ op \in Op
  BY DEF SplitPhase, IInv, Typed
<1>2. \A p \in live : Size(p) <= MaxSize /\ Size(p) \in Nat
  BY <1>1, MembersFinite DEF Room
<1>3. \E p \in op.pids : op' = [op EXCEPT !.pids = @ \ {p}]
  BY <1>1, <1>2, SizesAssumption DEF SplitPhase
<1>4. op'.pc = "splits"
  BY <1>1, <1>3 DEF Op
<1>. QED BY <1>1, <1>4, OnlyLess DEF Members

(* The other steps that move no vector. *)
LEMMA PhaseRoom == IInv /\ Room /\ (Rebalance \/ MergePhase \/ MigratePhase \/ NextPhase) => Room'
<1>. SUFFICES ASSUME IInv, Room, Rebalance \/ MergePhase \/ MigratePhase \/ NextPhase PROVE Room'
  OBVIOUS
<1>1. /\ op.pc \in {"free"} \cup Phases \cup {"move"} /\ UNCHANGED <<parts, live, auto>> /\ op \in Op
  BY DEF Rebalance, MergePhase, MigratePhase, NextPhase, Lock, IInv, Typed, Phases
<1>2. op'.pc \notin {"split", "copy", "land"}
  <2>1. CASE Rebalance
    BY <2>1 DEF Rebalance, Free
  <2>2. CASE MergePhase
    BY <1>1, <2>2 DEF MergePhase, Op
  <2>3. CASE MigratePhase
    BY <1>1, <2>3 DEF MigratePhase, Op
  <2>4. CASE NextPhase
    <3>1. \/ \E pc \in {"merges", "migrates"}, pids \in {live, op.pids} :
               op' = [Free EXCEPT !.pc = pc, !.pids = pids]
          \/ op' = Free
      BY <2>4 DEF NextPhase
    <3>2. CASE op' = Free
      BY <3>2 DEF Free
    <3>3. CASE \E pc \in {"merges", "migrates"}, pids \in {live, op.pids} :
                 op' = [Free EXCEPT !.pc = pc, !.pids = pids]
      BY <3>3 DEF Free
    <3>. QED BY <3>1, <3>2, <3>3
  <2>. QED BY <2>1, <2>2, <2>3, <2>4
<1>. QED BY <1>1, <1>2, OnlyLess DEF Members, Phases

(* A vector leaves only for a partition that has room for it. *)
LEMMA MoveRoom == IInv /\ Room /\ Move => Room'
<1>. SUFFICES ASSUME IInv, Room, Move PROVE Room'
  OBVIOUS
<1>1. /\ op.pc = "move" /\ op.src \in Parts /\ live \subseteq Parts /\ UNCHANGED <<live, auto>>
      /\ op \in Op /\ parts \in [Parts -> Stored]
  BY DEF Move, IInv, Typed, Working
<1>2. PICK id \in op.todo :
        \/ op' = [op EXCEPT !.todo = @ \ {id}] /\ parts' = parts
        \/ \E q \in live \ {op.src} :
             /\ Size(q) < MaxSize
             /\ op' = [op EXCEPT !.pc = "land", !.id = id, !.vec = parts[op.src][id],
                                 !.dst = q, !.todo = @ \ {id}]
             /\ parts' = [parts EXCEPT ![op.src][id] = None]
  BY DEF Move
<1>3. CASE op' = [op EXCEPT !.todo = @ \ {id}] /\ parts' = parts
  <2>1. op'.pc = "move"
    BY <1>1, <1>3 DEF Op
  <2>. QED BY <1>1, <1>3, <2>1, OnlyLess DEF Members
<1>4. ASSUME NEW q \in live \ {op.src}, Size(q) < MaxSize,
             op' = [op EXCEPT !.pc = "land", !.id = id, !.vec = parts[op.src][id],
                              !.dst = q, !.todo = @ \ {id}],
             parts' = [parts EXCEPT ![op.src][id] = None]
      PROVE  Room'
  <2>. SUFFICES ASSUME auto PROVE Room'
    BY <1>1 DEF Room
  <2>1. op'.pc = "land" /\ op'.dst = q
    BY <1>1, <1>4 DEF Op
  <2>2. \A p \in live : Members(p)' \subseteq Members(p)
    BY <1>1, <1>4 DEF Members, Stored
  <2>3. \A p \in live : Size(p)' <= MaxSize
    BY <1>1, <2>2, NoLarger, SizesAssumption DEF Room
  <2>4. Members(op.dst)' = Members(q)
    BY <1>1, <1>4, <2>1 DEF Members
  <2>5. Size(op.dst)' < MaxSize
    BY <1>4, <2>4 DEF Size
  <2>. QED BY <1>1, <2>1, <2>3, <2>5 DEF Room
<1>. QED BY <1>2, <1>3, <1>4

LEMMA LandRoom == IInv /\ Room /\ Land => Room'
<1>. SUFFICES ASSUME IInv, Room, Land, auto PROVE Room'
  BY DEF Land, Room
<1>1. /\ op.pc = "land" /\ op'.pc = "move" /\ UNCHANGED <<live, auto>> /\ live \subseteq Parts
      /\ op.dst \in live /\ op.id \in Ids /\ parts \in [Parts -> Stored]
      /\ parts' = [parts EXCEPT ![op.dst][op.id] = op.vec]
  BY DEF Land, IInv, Typed, Working, Op
<1>2. PICK dst \in live, id \in Ids : dst = op.dst /\ id = op.id
  BY <1>1
<1>3. \A p \in live : p # dst => Members(p)' = Members(p)
  BY <1>1, <1>2 DEF Members
<1>4. Members(dst)' \subseteq Members(dst) \cup {id}
  <2>1. parts'[dst] = [parts[dst] EXCEPT ![id] = op.vec] /\ parts[dst] \in Stored
    BY <1>1, <1>2
  <2>. QED BY <2>1 DEF Members, Stored
<1>5. Size(dst)' <= MaxSize
  <2>1. Size(dst) < MaxSize
    BY <1>1, <1>2 DEF Room
  <2>2. Size(dst)' <= Size(dst) + 1 /\ Size(dst) \in Nat /\ Size(dst)' \in Nat
    BY <1>4, OneLarger
  <2>. QED BY <2>1, <2>2, SizesAssumption
<1>6. \A p \in live : p # dst => Size(p)' <= MaxSize
  BY <1>1, <1>3 DEF Room, Size
<1>. QED BY <1>1, <1>5, <1>6 DEF Room

(* The partitions of the index are what they were: reads, searches, and    *)
(* stuttering.                                                             *)
LEMMA SameRoom ==
  ASSUME IInv, Room, UNCHANGED <<live, op, auto>>, \A p \in live : parts'[p] = parts[p]
  PROVE  Room'
<1>1. \A p \in live : Members(p)' = Members(p)
  BY DEF Members
<1>2. op.pc \in {"split", "copy"} => Members(op.src)' = Members(op.src)
  BY DEF IInv, Working, Members
<1>3. op.pc \in {"copy", "land"} => Members(op.dst)' = Members(op.dst)
  BY DEF IInv, Working, Members
<1>. QED BY <1>1, <1>2, <1>3 DEF Room, Size

LEMMA RoomInductive == IInv /\ Room /\ [Next]_vars => Room'
<1>. SUFFICES ASSUME IInv, Room, [Next]_vars PROVE Room'
  OBVIOUS
<1>1. CASE \E id \in Ids : Delete(id) \/ \E vec \in Vectors : Insert(id, vec)
  BY <1>1, InsertRoom, DeleteRoom
<1>2. CASE Add
  <2>1. /\ op.pc = "add" /\ Empty \in Stored
        /\ \A p \in live : p \in Parts /\ parts[p] \in Stored
    BY <1>2 DEF Add, IInv, Typed, Empty, Stored
  <2>2. ASSUME NEW p \in live, AddTo(p, parts[p]) PROVE Room'
    BY <2>1, <2>2, AddRoom
  <2>3. ASSUME NEW p \in Parts, New(p), AddTo(p, Empty) PROVE Room'
    <3>1. p \notin live
      BY <2>3 DEF New
    <3>. QED BY <2>1, <2>3, <3>1, AddRoom
  <2>. QED BY <1>2, <2>2, <2>3, Zenon DEF Add
<1>3. CASE Split
  <2>1. PICK A \in (SUBSET Members(op.src)) \ {{}, Members(op.src)}, p, q \in Parts :
          p # q /\ New(p) /\ New(q) /\ SplitInto(A, p, q)
    BY <1>3, Zenon DEF Split
  <2>2. op.pc = "split" /\ A \in SUBSET Members(op.src) /\ A # {} /\ A # Members(op.src)
    BY <1>3, Zenon DEF Split
  <2>. QED BY <2>1, <2>2, SplitRoom
<1>4. CASE Merge \/ MergeCopy \/ MergeDrop
  BY <1>4, MergeRoom, MergeCopyRoom, MergeDropRoom
<1>5. CASE SplitPhase \/ Rebalance \/ MergePhase \/ MigratePhase \/ NextPhase
  BY <1>5, SplitPhaseRoom, PhaseRoom
<1>6. CASE Move \/ Land \/ Clear
  BY <1>6, MoveRoom, LandRoom, ClearRoom
<1>7. ASSUME NEW r \in Readers, SearchRead(r) PROVE Room'
  <2>1. UNCHANGED <<live, op, auto>> /\ \A p \in live : parts'[p] = parts[p]
    BY <1>7 DEF SearchRead, IInv, Typed
  <2>. QED BY <2>1, SameRoom
<1>8. ASSUME NEW r \in Readers, SearchStart(r) \/ SearchFetch(r) \/ SearchReturn(r) PROVE Room'
  <2>1. UNCHANGED <<live, op, auto, parts>>
    BY <1>8 DEF SearchStart, SearchFetch, SearchReturn
  <2>. QED BY <2>1, SameRoom
<1>9. CASE UNCHANGED vars
  BY <1>9, SameRoom DEF vars
<1>. QED BY <1>1, <1>2, <1>3, <1>4, <1>5, <1>6, <1>7, <1>8, <1>9 DEF Next, WriterStep

(* With auto_rebalance, split_partition, merge_partition and the migration *)
(* of rebalance (src/dynavec/spfresh.py) leave no partition larger than    *)
(* max_partition_size, for any sizes, ids and sequence of operations.      *)
THEOREM PartitionsStaySmall == Spec => []SizeBounded
<1>1. Room => SizeBounded
  BY DEF Room, SizeBounded
<1>. QED BY <1>1, InitIInv, Inductive, RoomInit, RoomInductive, PTL DEF Spec
----------------------------------------------------------------------------
(* Searches no writer overlaps.  Such a search has only seen the index as  *)
(* it is: its hits are there, and what it has still to find is in the      *)
(* partitions it has still to read.                                        *)

Exact(r) ==
  LET s == search[r]
  IN s.pc # "idle" /\ s.overlaps = 0 =>
       /\ op.pc = "free" /\ s.todo \subseteq live
       /\ s.at = None \/ s.at \in live
       /\ s.pc = "fetch" => s.at = None
       /\ \A h \in s.hits : h.part \in live /\ h.vec = parts[h.part][h.id]
       /\ Cardinality(live) <= Probes =>
            \A p \in live, id \in Ids :
              \/ parts[p][id] = None \/ p \in s.todo \/ p = s.at
              \/ [part |-> p, id |-> id, vec |-> parts[p][id]] \in s.hits

ExactInv == \A r \in Readers : Exact(r)

LEMMA ExactInit == Init => ExactInv
BY DEF Init, ExactInv, Exact, NoSearch

(* Whoever takes the lock overlaps every search under way. *)
LEMMA LockExact ==
  ASSUME SearchInv, NEW more, Lock(more)
  PROVE  ExactInv'
<1>. SUFFICES ASSUME NEW r \in Readers, search'[r].pc # "idle" PROVE search'[r].overlaps # 0
  BY DEF ExactInv, Exact
<1>1. search[r] \in Search /\ search[r].overlaps \in Nat
  BY SizesAssumption DEF SearchInv, Search
<1>2. search[r].pc # "idle" /\ search'[r] = [search[r] EXCEPT !.overlaps = @ + 1, !.seen = @ \cup more]
  BY DEF Lock
<1>3. search'[r].overlaps = search[r].overlaps + 1
  BY <1>1, <1>2 DEF Search
<1>. QED BY <1>1, <1>3

(* While it holds the lock, every search under way has been overlapped. *)
LEMMA WriterExact ==
  ASSUME ExactInv, op.pc # "free", search' = search
  PROVE  ExactInv'
BY DEF ExactInv, Exact

(* One search steps; the others, and the partitions of the index, stay.    *)
LEMMA OneExact ==
  ASSUME ExactInv, NEW r \in Readers, UNCHANGED <<live, op>>,
         \A p \in live : parts'[p] = parts[p],
         \A x \in Readers \ {r} : search'[x] = search[x],
         Exact(r)'
  PROVE  ExactInv'
<1>. SUFFICES ASSUME NEW x \in Readers \ {r} PROVE Exact(x)'
  BY DEF ExactInv
<1>1. Exact(x) /\ search'[x] = search[x]
  BY DEF ExactInv
<1>. QED BY <1>1 DEF Exact

(* With no more partitions than n_probe, all are chosen. *)
LEMMA AllProbed ==
  ASSUME live \subseteq Parts, NEW P \in SUBSET live, P = live \/ Cardinality(P) = Probes,
         Cardinality(live) <= Probes
  PROVE  P = live
<1>1. IsFiniteSet(live) /\ Cardinality(live) \in Nat
  BY SPFiniteAssumption, FS_Subset, FS_CardinalityType
<1>2. IsFiniteSet(P) /\ Cardinality(P) <= Cardinality(live) /\ Cardinality(P) \in Nat
  BY <1>1, FS_Subset, FS_CardinalityType
<1>3. ASSUME Cardinality(P) = Probes PROVE P = live
  <2>1. Cardinality(live) = Cardinality(P)
    BY <1>1, <1>2, <1>3, SizesAssumption
  <2>. QED BY <1>1, <2>1, FS_Subset
<1>. QED BY <1>3

LEMMA SearchStartExact ==
  ASSUME IInv, ExactInv, SearchInv, NEW r \in Readers, SearchStart(r)
  PROVE  ExactInv'
<1>1. PICK P \in SUBSET live :
        /\ P = live \/ Cardinality(P) = Probes
        /\ search' = [search EXCEPT ![r] = [NoSearch EXCEPT !.pc = "fetch", !.todo = P, !.seen = Current]]
  BY DEF SearchStart
<1>2. op.pc = "free" /\ UNCHANGED <<parts, live, op>> /\ live \subseteq Parts
  BY DEF SearchStart, IInv, Typed
<1>3. /\ \A x \in Readers \ {r} : search'[x] = search[x]
      /\ search'[r].pc = "fetch" /\ search'[r].todo = P /\ search'[r].at = None /\ search'[r].hits = {}
  BY <1>1 DEF SearchInv, NoSearch
<1>4. Cardinality(live) <= Probes => P = live
  BY <1>1, <1>2, AllProbed
<1>5. Exact(r)'
  BY <1>2, <1>3, <1>4 DEF Exact
<1>. QED BY <1>2, <1>3, <1>5, OneExact

(* A search that no writer has overlapped finds its partitions there. *)
LEMMA SearchFetchExact ==
  ASSUME IInv, ExactInv, SearchInv, NEW r \in Readers, SearchFetch(r)
  PROVE  ExactInv'
<1>1. PICK p \in search[r].todo :
        search' = IF p \in live
                  THEN [search EXCEPT ![r].pc = "read", ![r].at = p, ![r].todo = @ \ {p}]
                  ELSE [search EXCEPT ![r].todo = @ \ {p}]
  BY DEF SearchFetch
<1>2. /\ op.pc = "free" /\ UNCHANGED <<parts, live, op>> /\ search[r].pc = "fetch"
      /\ search \in [Readers -> Search] /\ search[r] \in Search /\ Exact(r) /\ live \subseteq Parts
  BY DEF SearchFetch, SearchInv, ExactInv, IInv, Typed
<1>3. \A x \in Readers \ {r} : search'[x] = search[x]
  BY <1>1, <1>2
<1>4. Exact(r)'
  <2>1. CASE p \in live
    <3>1. /\ search'[r].pc = "read" /\ search'[r].at = p /\ search'[r].todo = search[r].todo \ {p}
          /\ search'[r].hits = search[r].hits /\ search'[r].overlaps = search[r].overlaps
      BY <1>1, <1>2, <2>1 DEF Search
    <3>. QED BY <1>2, <2>1, <3>1 DEF Exact
  <2>2. CASE p \notin live
    <3>1. search'[r].pc = "fetch" /\ search'[r].overlaps = search[r].overlaps
      BY <1>1, <1>2, <2>2 DEF Search
    <3>. QED BY <1>2, <2>2, <3>1 DEF Exact
  <2>. QED BY <2>1, <2>2
<1>. QED BY <1>2, <1>3, <1>4, OneExact

LEMMA SearchReadExact ==
  ASSUME IInv, ExactInv, SearchInv, NEW r \in Readers, SearchRead(r)
  PROVE  ExactInv'
<1>. DEFINE o == search[r]
            p == o.at
            found == {[part |-> p, id |-> id, vec |-> parts[p][id]] : id \in Members(p)}
<1>1. /\ o \in Search /\ o.pc = "read" /\ p \in Parts /\ Exact(r)
      /\ UNCHANGED <<live, op>> /\ parts \in [Parts -> Stored] /\ live \subseteq Parts
      /\ search \in [Readers -> Search]
      /\ search' = [search EXCEPT ![r].pc = "fetch", ![r].at = None, ![r].hits = @ \cup found]
  BY DEF SearchRead, SearchInv, IInv, Typed, ExactInv
<1>2. \A x \in live : parts'[x] = parts[x]
  BY <1>1 DEF SearchRead
<1>3. \A x \in Readers \ {r} : search'[x] = search[x]
  BY <1>1
<1>4. /\ search'[r].pc = "fetch" /\ search'[r].at = None /\ search'[r].todo = o.todo
      /\ search'[r].overlaps = o.overlaps /\ search'[r].hits = o.hits \cup found
  <2>. HIDE DEF found
  <2>. QED BY <1>1 DEF Search
<1>5. /\ \A h \in found : h.part = p /\ h.vec = parts[p][h.id]
      /\ \A id \in Ids : parts[p][id] # None => [part |-> p, id |-> id, vec |-> parts[p][id]] \in found
  BY DEF Members
<1>. HIDE DEF found
<1>6. Exact(r)'
  <2>. SUFFICES ASSUME o.overlaps = 0
                PROVE  /\ op.pc = "free" /\ o.todo \subseteq live
                       /\ \A h \in o.hits \cup found : h.part \in live /\ h.vec = parts'[h.part][h.id]
                       /\ Cardinality(live) <= Probes =>
                            \A x \in live, id \in Ids :
                              \/ parts'[x][id] = None \/ x \in o.todo
                              \/ [part |-> x, id |-> id, vec |-> parts'[x][id]] \in o.hits \cup found
    BY <1>1, <1>4 DEF Exact
  <2>1. /\ op.pc = "free" /\ o.todo \subseteq live /\ p \in live
        /\ \A h \in o.hits : h.part \in live /\ h.vec = parts[h.part][h.id]
        /\ Cardinality(live) <= Probes =>
             \A x \in live, id \in Ids :
               \/ parts[x][id] = None \/ x \in o.todo \/ x = p
               \/ [part |-> x, id |-> id, vec |-> parts[x][id]] \in o.hits
    BY <1>1 DEF Exact
  <2>. QED BY <1>2, <1>5, <2>1
<1>. QED BY <1>1, <1>2, <1>3, <1>6, OneExact

LEMMA SearchReturnExact ==
  ASSUME IInv, ExactInv, SearchInv, NEW r \in Readers, SearchReturn(r)
  PROVE  ExactInv'
<1>1. /\ search' = [search EXCEPT ![r] = NoSearch] /\ search \in [Readers -> Search]
      /\ UNCHANGED <<parts, live, op>>
  BY DEF SearchReturn, SearchInv
<1>2. search'[r].pc = "idle" /\ \A x \in Readers \ {r} : search'[x] = search[x]
  BY <1>1 DEF NoSearch
<1>3. Exact(r)'
  BY <1>2 DEF Exact
<1>. QED BY <1>1, <1>2, <1>3, OneExact

LEMMA ExactInductive == IInv /\ SearchInv /\ ExactInv /\ [Next]_vars => ExactInv'
<1>. SUFFICES ASSUME IInv, SearchInv, ExactInv, [Next]_vars PROVE ExactInv'
  OBVIOUS
<1>1. CASE \E id \in Ids : Delete(id) \/ \E vec \in Vectors : Insert(id, vec)
  BY <1>1, LockExact DEF Delete, Insert
<1>2. CASE Clear \/ Rebalance
  BY <1>2, LockExact DEF Clear, Rebalance
<1>3. CASE WriterStep
  <2>1. op.pc # "free"
    <3>1. Split => op.pc = "split"
      BY Zenon DEF Split
    <3>. QED BY <1>3, <3>1 DEF WriterStep, Add, Merge, MergeCopy, MergeDrop, SplitPhase, MergePhase,
                              MigratePhase, Move, Land, NextPhase
  <2>2. Add => search' = search
    <3>1. \A p, content : AddTo(p, content) => search' = search
      BY DEF AddTo
    <3>. QED BY <3>1, Zenon DEF Add
  <2>3. Split => search' = search
    <3>1. \A A, p, q : SplitInto(A, p, q) => search' = search
      BY DEF SplitInto
    <3>. QED BY <3>1, Zenon DEF Split
  <2>4. search' = search
    BY <1>3, <2>2, <2>3 DEF WriterStep, Merge, MergeCopy, MergeDrop, SplitPhase, MergePhase,
                MigratePhase, Move, Land, NextPhase
  <2>. QED BY <2>1, <2>4, WriterExact
<1>4. CASE \E r \in Readers : SearchStart(r) \/ SearchFetch(r) \/ SearchRead(r) \/ SearchReturn(r)
  BY <1>4, SearchStartExact, SearchFetchExact, SearchReadExact, SearchReturnExact
<1>5. CASE UNCHANGED vars
  BY <1>5 DEF vars, ExactInv, Exact
<1>. QED BY <1>1, <1>2, <1>3, <1>4, <1>5 DEF Next

(* A search of spfresh.py that no writer overlaps and that may probe every *)
(* partition returns every vector of the index, once and from the          *)
(* partition it is in, whatever was inserted, split, merged and migrated   *)
(* before.                                                                 *)
THEOREM UndisturbedSearchesComplete == Spec => []QuietSearchExact
<1>1. IInv /\ SearchInv /\ ExactInv => QuietSearchExact
  <2>. SUFFICES ASSUME IInv, SearchInv, ExactInv, NEW r \in Readers,
                       search[r].pc = "fetch", search[r].todo = {}, search[r].overlaps = 0,
                       Cardinality(live) <= Probes
                PROVE  search[r].hits = {[part |-> home[id], id |-> id, vec |-> Held(id)] :
                                           id \in {i \in Ids : home[i] # None}}
    BY DEF QuietSearchExact
  <2>. DEFINE hits == search[r].hits
  <2>1. /\ op.pc = "free" /\ live \subseteq Parts /\ parts \in [Parts -> Stored]
        /\ \A h \in hits : h.part \in live /\ h.vec = parts[h.part][h.id]
        /\ \A p \in live, id \in Ids :
             parts[p][id] = None \/ [part |-> p, id |-> id, vec |-> parts[p][id]] \in hits
        /\ hits \in SUBSET [part : Parts, id : Ids, vec : Vectors]
    <3>1. Exact(r) /\ search[r] \in Search
      BY DEF ExactInv, SearchInv
    <3>2. search[r].at = None
      BY <3>1 DEF Exact
    <3>. QED BY <3>1, <3>2 DEF Exact, IInv, Typed, Search
  <2>2. \A id \in Ids, p \in Parts : home[id] = p <=> p \in live /\ parts[p][id] # None
    BY <2>1 DEF IInv, PlacedThroughout, Found
  <2>3. \A id \in Ids : home[id] # None => home[id] \in live /\ Held(id) = parts[home[id]][id]
    BY <2>1, <2>2 DEF IInv, Typed, Held
  <2>4. ASSUME NEW h \in hits
        PROVE  home[h.id] # None /\ h = [part |-> home[h.id], id |-> h.id, vec |-> Held(h.id)]
    <3>1. h \in [part : Parts, id : Ids, vec : Vectors] /\ h.part \in live /\ h.vec = parts[h.part][h.id]
      BY <2>1
    <3>2. home[h.id] = h.part
      BY <2>2, <3>1
    <3>. QED BY <2>3, <3>1, <3>2
  <2>5. ASSUME NEW id \in Ids, home[id] # None
        PROVE  [part |-> home[id], id |-> id, vec |-> Held(id)] \in hits
    <3>1. home[id] \in live /\ parts[home[id]][id] # None /\ Held(id) = parts[home[id]][id]
      BY <2>1, <2>2, <2>3, <2>5
    <3>. QED BY <2>1, <3>1
  <2>6. \A h \in hits : h.id \in Ids
    BY <2>1
  <2>. HIDE DEF hits
  <2>7. hits = {[part |-> home[id], id |-> id, vec |-> Held(id)] : id \in {i \in Ids : home[i] # None}}
    BY <2>4, <2>5, <2>6
  <2>. QED BY <2>7 DEF hits
<1>. QED BY <1>1, InitIInv, Inductive, SearchInvInit, SearchInductive, ExactInit, ExactInductive,
            PTL DEF Spec
=============================================================================
