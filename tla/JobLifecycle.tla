---------------------------- MODULE JobLifecycle ----------------------------
(***************************************************************************)
(* What the job queue promises to everything that enqueues work, free of   *)
(* leases, workers, heartbeats and attempt rows: the life of each job and   *)
(* the budget of attempts it has left.                                      *)
(***************************************************************************)
EXTENDS Naturals

CONSTANTS Job, InitialBudget

VARIABLES state,   \* [Job -> status as GET /jobs/{id} shows it]
          budget   \* [Job -> attempts that may still be started]

lifecycleVars == <<state, budget>>

LifecycleInit ==
    /\ state = [j \in Job |-> "ABSENT"]
    /\ budget = [j \in Job |-> InitialBudget]

Move(j, from, to) == state[j] = from /\ state'[j] = to

(* Starting an attempt spends one unit of budget; only a job that has some    *)
(* left is ever put back in the queue by a failure, and a job out of budget   *)
(* gets exactly one more attempt from an operator.  SUCCEEDED is final.       *)
Spends(j)  == budget[j] > 0 /\ budget'[j] = budget[j] - 1
Refills(j) == budget'[j] = IF budget[j] = 0 THEN 1 ELSE budget[j]
Keeps(j)   == budget'[j] = budget[j]

Transition(j) ==
    \/ Move(j, "ABSENT", "PENDING") /\ Keeps(j)
    \/ Move(j, "PENDING", "RUNNING") /\ Spends(j)
    \/ Move(j, "PENDING", "DEAD_LETTER") /\ Spends(j)
    \/ Move(j, "PENDING", "CANCELLED") /\ Keeps(j)
    \/ Move(j, "RUNNING", "PENDING") /\ budget[j] > 0 /\ Keeps(j)
    \/ \E outcome \in {"SUCCEEDED", "CANCELLED", "DEAD_LETTER"} :
          Move(j, "RUNNING", outcome) /\ Keeps(j)
    \/ \E settled \in {"CANCELLED", "DEAD_LETTER"} :
          Move(j, settled, "PENDING") /\ Refills(j)

Stays(j) == state'[j] = state[j] /\ budget'[j] = budget[j]

(* The queue leases and reclaims in batches: several jobs may move at once.   *)
LifecycleNext ==
    /\ state' = [j \in Job |-> state'[j]]
    /\ budget' = [j \in Job |-> budget'[j]]
    /\ \A j \in Job : Transition(j) \/ Stays(j)

LifecycleSpec == LifecycleInit /\ [][LifecycleNext]_lifecycleVars
=============================================================================
