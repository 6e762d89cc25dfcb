---------------------------- MODULE MCReadPath -----------------------------
(* Instances of ReadPath for TLC. *)
EXTENDS ReadPath, TLC

(* Threads, namespaces, documents and versions are interchangeable. *)
Symmetry == Permutations(Clients) \cup Permutations(Namespaces)
              \cup Permutations(Docs) \cup Permutations(Copies)
============================================================================
