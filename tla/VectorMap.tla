----------------------------- MODULE VectorMap -----------------------------
(***************************************************************************)
(* What an in-memory vector index promises, whatever its layout: a map     *)
(* from ids to vectors.  A call takes effect at once; the work it leaves   *)
(* behind, and maintenance, are carried out while the index is busy and    *)
(* change nothing.                                                         *)
(***************************************************************************)
CONSTANTS Ids, Vectors, None

VARIABLES map, busy

Init == map = [id \in Ids |-> None] /\ busy = FALSE

Insert(id, vec) ==
  ~busy /\ map' = [map EXCEPT ![id] = vec] /\ busy' \in BOOLEAN

Delete(id) ==
  ~busy /\ map' = [map EXCEPT ![id] = None] /\ busy' \in BOOLEAN

Clear == ~busy /\ map' = [id \in Ids |-> None] /\ UNCHANGED busy

Maintain == busy' = ~busy /\ UNCHANGED map

Next ==
  \/ \E id \in Ids, vec \in Vectors : Insert(id, vec)
  \/ \E id \in Ids : Delete(id)
  \/ Clear \/ Maintain

Spec == Init /\ [][Next]_<<map, busy>>
============================================================================
