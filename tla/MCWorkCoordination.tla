------------------------- MODULE MCWorkCoordination -------------------------
(* WorkCoordination with symmetric workers and tasks. *)
EXTENDS WorkCoordination, TLC
Symmetry == Permutations(Workers) \cup Permutations(Tasks)
=============================================================================
