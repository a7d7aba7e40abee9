--------------------------- MODULE MCAppliedTasks ---------------------------
(* Small instances of AppliedTasks for TLC.                                 *)
EXTENDS AppliedTasks, TLC

Symmetry == Permutations(Worker)
=============================================================================
