----------------------------- MODULE MCCaseRuns -----------------------------
(* Small instances of CaseRuns for TLC.                                     *)
EXTENDS CaseRuns, TLC

Symmetry == Permutations(Worker)
=============================================================================
