------------------------ MODULE SemanticCacheClaims ------------------------
(***************************************************************************)
(* Statements of the repository about its answer cache that the code does  *)
(* not keep.                                                               *)
(***************************************************************************)
EXTENDS SemanticCache

\* kb_service.py:162: "Cached answers must never outlive the evidence that
\* produced them."  Once a removal of evidence has invalidated the cache, every
\* answer in it was verified after that removal.
NoneOutlivesItsEvidence ==
    \A entry \in entries :
        LET a == entry.by
        IN Kb(a) \notin purging => basis[a] = removals[Kb(a)]
============================================================================
