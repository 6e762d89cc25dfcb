--------------------------- MODULE MCHybridStore ---------------------------
(***************************************************************************)
(* Small instances of HybridStore: batches of one chunk, which give upsert *)
(* a task for each store.                                                  *)
(***************************************************************************)
EXTENDS HybridStore

CONSTANTS c1, c2, d1, d2

OneDocBatches == {<<{d1}>>}
============================================================================
