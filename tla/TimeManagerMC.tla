--------------------------- MODULE TimeManagerMC ---------------------------
(* Instances of TimeManager for TLC *)
EXTENDS TimeManager, TLC

Symmetry == Permutations(Task)
=============================================================================
