--------------------------- MODULE MCKnowledgeBase ---------------------------
(* Small instances of KnowledgeBase for TLC.                               *)
EXTENDS KnowledgeBase, TLC

Symmetry == Permutations(Events) \cup Permutations(Contents) \cup Permutations(Labels)
              \cup Permutations(Scopes)
=============================================================================
