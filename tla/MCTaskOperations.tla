-------------------------- MODULE MCTaskOperations --------------------------
(* Small instances of TaskOperations for TLC.                               *)
EXTENDS TaskOperations, TLC

Symmetry == Permutations(Delivery) \cup Permutations(Key) \cup Permutations(Signature)
            \cup Permutations(Campaign) \cup Permutations(Task) \cup Permutations(Actor)
=============================================================================
