-------------------------- MODULE MCMediaGeneration --------------------------
(* Small instances of MediaGeneration for TLC.                              *)
EXTENDS MediaGeneration, TLC

Symmetry == Permutations(Worker)
=============================================================================
