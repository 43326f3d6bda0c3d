--------------------------- MODULE MCModelRegistry ---------------------------
(* An instance of ModelRegistry: callers and local models are alike. *)
EXTENDS ModelRegistry, TLC

Symmetry == Permutations(Tasks) \cup Permutations(LocalModels)
=============================================================================
