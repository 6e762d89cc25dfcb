----------------------------- MODULE MCSPFresh -----------------------------
(* Instances of SPFresh for TLC. *)
EXTENDS SPFresh, TLC

(* Ids, vectors and partition objects are interchangeable. *)
Symmetry == Permutations(Ids) \cup Permutations(Vectors) \cup Permutations(Parts)
============================================================================
