--------------------------- MODULE MCModelManager ---------------------------
(***************************************************************************)
(* Small instances of ModelManager: models and calls are interchangeable.   *)
(***************************************************************************)
EXTENDS ModelManager, TLC

Symmetry == Permutations(Models) \cup Permutations(Calls)
=============================================================================
