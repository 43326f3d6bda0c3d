-------------------------- MODULE MCKnowledgeBase --------------------------
(* The instance of KnowledgeBase that TLC checks.                          *)
EXTENDS KnowledgeBase, TLC

CONSTANTS c0, c2 \* contents without text and of two chunks
Symmetry == Permutations(Kbs \ Created) \union Permutations(Docs) \union Permutations(Requests)
MCSize == [c \in Contents |-> IF c = c0 THEN 0 ELSE 2]
============================================================================
