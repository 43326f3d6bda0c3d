-------------------------- MODULE MCSemanticCache --------------------------
(* The instance of SemanticCache that TLC checks: its sets are symmetric.  *)
EXTENDS SemanticCacheClaims, TLC

Symmetry ==
    Permutations(Analyses) \union Permutations(Kbs)
        \union Permutations(Topics) \union Permutations(Spaces)
============================================================================
