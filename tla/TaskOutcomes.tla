---------------------------- MODULE TaskOutcomes ----------------------------
(***************************************************************************)
(* Applied tasks as the components around them see them: a task is requested, *)
(* completed, and put back by the retry of its job.  How it gets there is       *)
(* AppliedTasks' matter; Webhooks and ImpactFeedback are about what it is       *)
(* requested by and what is made of it.                                       *)
(***************************************************************************)
EXTENDS Integers, FiniteSets

CONSTANT Task   \* rows of applied_workflow_tasks, each with its job

VARIABLE task   \* [Task -> status of the task]

(* Between PENDING and the end, whatever it is, a task is OPEN.                 *)
OutcomeStatus == {"NONE", "OPEN", "COMPLETED"}

OutcomesInit == task = [t \in Task |-> "NONE"]

TaskCompletes(t) == task[t] = "OPEN" /\ task' = [task EXCEPT ![t] = "COMPLETED"]

(* The reset that follows a retry may come when the task has completed again      *)
(* (AppliedTasks!ApiWrites).                                                  *)
RetryTask(t) == task[t] = "COMPLETED" /\ task' = [task EXCEPT ![t] = "OPEN"]

OutcomesStep == \E t \in Task : TaskCompletes(t) \/ RetryTask(t)
=============================================================================
