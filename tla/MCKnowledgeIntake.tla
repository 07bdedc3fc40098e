------------------------- MODULE MCKnowledgeIntake -------------------------
(* Instances of KnowledgeIntake for TLC.                                   *)
EXTENDS KnowledgeIntake, TLC

Symmetry == Permutations(Workers) \cup Permutations(Requests) \cup Permutations(Keys)

=============================================================================
