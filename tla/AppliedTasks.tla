---------------------------- MODULE AppliedTasks ----------------------------
(***************************************************************************)
(* Data analysis and document processing (app/jobs/handlers.py,            *)
(* app/service/applied_workflow_service.py) under the job queue: the        *)
(* handler's two transactions on its task, the terminal reconciler          *)
(* (app/jobs/lifecycle.py), and the operator's retry and cancel             *)
(* (app/api/jobs.py), which write the task in a second transaction.         *)
(*                                                                         *)
(* Nobody locks a task: each transaction reads the row, decides, and writes *)
(* it at its commit, and it writes the status only if it differs from the   *)
(* one it read (the session's unit of work).  So a read and its write are   *)
(* two steps here.  Every job works on one task, which goes by its name.    *)
(***************************************************************************)
EXTENDS JobQueue

CONSTANT RequestLimit   \* bound of the model: operator requests in flight for a job

ASSUME AppliedAssumption == MediaJob = {} /\ RequestLimit \in Nat

VARIABLES task,       \* [Job -> status of its task]
          results,    \* jobs whose task holds a result
          announced,  \* jobs whose *_COMPLETED event is in the outbox
          work,       \* [Job -> what coroutines that began on the task are about]
          api         \* [Job -> operator requests between their two transactions]

taskVars == <<task, results, announced, work, api>>
appliedVars == <<jobs, execs, taskVars>>

TaskStatus == {"NONE", "PENDING", "PROCESSING", "COMPLETED", "FAILED", "CANCELLED"}

(* The status a transaction has read; the coroutine is about to mark the task *)
(* or to complete it, works or has completed it, or is about to reconcile it.  *)
Work == [attempt : 1..AttemptLimit,
         at : {"marking", "working", "completing", "done", "reconciling"},
         seen : TaskStatus]

Request == [kind : {"retry", "cancel"}, seen : TaskStatus \cup {"UNREAD"}]

AppliedTypeOK ==
    /\ TypeOK
    /\ task \in [Job -> TaskStatus]
    /\ results \subseteq Job
    /\ announced \subseteq Job
    /\ work \in [Job -> SUBSET Work]
    /\ api \in [Job -> SUBSET Request]

-----------------------------------------------------------------------------
(* A handler that finds its task COMPLETED returns at once.                   *)
NothingToDo(j) == task[j] = "COMPLETED"

(* What the reconciler leaves alone.                                          *)
Settled(j) == task[j] \in {"COMPLETED", "CANCELLED"}

Idling(e) == \A x \in work[e.job] : x.attempt # e.attempt

At(e, at, seen) == [attempt |-> e.attempt, at |-> at, seen |-> seen]

Begin(e, at) == work' = [work EXCEPT ![e.job] = @ \cup {At(e, at, task[e.job])}]

Advance(e, x, y) == work' = [work EXCEPT ![e.job] = (@ \ {x}) \cup {y}]

(* A transaction that did not commit is rolled back.                          *)
Drop(e) == work' = [work EXCEPT ![e.job] = {x \in @ : x.attempt # e.attempt}]

Write(j, seen, status) ==
    task' = IF seen = status THEN task ELSE [task EXCEPT ![j] = status]

TerminalStatus(e) == IF e.pc = "reconcile_cancel" THEN "CANCELLED" ELSE "FAILED"

-----------------------------------------------------------------------------
AppliedInit ==
    /\ Init
    /\ task = [j \in Job |-> "NONE"]
    /\ results = {}
    /\ announced = {}
    /\ work = [j \in Job |-> {}]
    /\ api = [j \in Job |-> {}]

(* The upload inserts task and job together, under the task's own key.       *)
RequestTask(j) ==
    /\ jobs[j].status = "ABSENT"
    /\ Enqueue(j)
    /\ task' = [task EXCEPT ![j] = "PENDING"]
    /\ UNCHANGED <<results, announced, work, api>>

ReadTask(w, e) ==
    /\ e.pc = "handler"
    /\ Idling(e)
    /\ ~CancellationRequested(jobs[e.job], w)
    /\ ~NothingToDo(e.job)
    /\ Begin(e, "marking")
    /\ UNCHANGED <<jobs, execs, task, results, announced, api>>

MarkProcessing(w, e) ==
    /\ e.pc = "handler"
    /\ \E seen \in TaskStatus :
         /\ At(e, "marking", seen) \in work[e.job]
         /\ Write(e.job, seen, "PROCESSING")
         /\ Advance(e, At(e, "marking", seen), At(e, "working", "NONE"))
    /\ UNCHANGED <<jobs, execs, results, announced, api>>

(* After the analysis and a checkpoint, `complete' reads the task again.     *)
ReadForComplete(w, e) ==
    /\ e.pc = "handler"
    /\ ~CancellationRequested(jobs[e.job], w)
    /\ At(e, "working", "NONE") \in work[e.job]
    /\ Advance(e, At(e, "working", "NONE"), At(e, "completing", task[e.job]))
    /\ UNCHANGED <<jobs, execs, task, results, announced, api>>

(* Mutant: complete commits by itself, and the event comes if nothing fails.  *)
CompleteTaskCommits(w, e) ==
    /\ e.pc = "handler"
    /\ \E seen \in TaskStatus :
         /\ At(e, "completing", seen) \in work[e.job]
         /\ Write(e.job, seen, "COMPLETED")
         /\ Advance(e, At(e, "completing", seen), At(e, "done", "NONE"))
    /\ results' = results \cup {e.job}
    /\ announced' \in {announced, announced \cup {e.job}}
    /\ UNCHANGED <<jobs, execs, api>>

(* Status, result and event are one transaction; the job's lease is not       *)
(* looked at, and the event's key is the same whichever attempt sends it.      *)
CompleteTask(w, e) ==
    /\ e.pc = "handler"
    /\ \E seen \in TaskStatus :
         /\ At(e, "completing", seen) \in work[e.job]
         /\ Write(e.job, seen, "COMPLETED")
         /\ Advance(e, At(e, "completing", seen), At(e, "done", "NONE"))
    /\ results' = results \cup {e.job}
    /\ announced' = announced \cup {e.job}
    /\ UNCHANGED <<jobs, execs, api>>

HandlerDone(w, e) ==
    /\ HandlerReturns(w, e)
    /\ At(e, "done", "NONE") \in work[e.job] \/ (Idling(e) /\ NothingToDo(e.job))
    /\ Drop(e)
    /\ UNCHANGED <<task, results, announced, api>>

(* The checkpoints come before each transaction and after the handler.       *)
HandlerStopped(w, e) ==
    /\ \/ HandlerRaises(w, e)
       \/ /\ CheckpointCancels(w, e)
          /\ e.pc = "handler" => Idling(e) \/ At(e, "working", "NONE") \in work[e.job]
    /\ Drop(e)
    /\ UNCHANGED <<task, results, announced, api>>

AppliedHeartbeat(w, e) ==
    /\ Heartbeat(w, e)
    /\ IF execs' = execs THEN UNCHANGED work ELSE Drop(e)
    /\ UNCHANGED <<task, results, announced, api>>

AppliedSettle(w, e) ==
    /\ \/ CheckpointPasses(w, e)
       \/ Complete(w, e)
       \/ Fail(w, e)
       \/ MarkCancelled(w, e)
       \/ Abandon(w, e)
       \/ Abort(w, e) /\ (e.pc = "handler" => Idling(e))
    /\ Drop(e)
    /\ UNCHANGED <<task, results, announced, api>>

ReconcileReads(w, e) ==
    /\ e.pc \in {"reconcile_fail", "reconcile_cancel"}
    /\ Idling(e)
    /\ ~Settled(e.job)
    /\ Begin(e, "reconciling")
    /\ UNCHANGED <<jobs, execs, task, results, announced, api>>

ReconcileEnds(w, e) ==
    /\ Reconciled(w, e)
    /\ \/ Idling(e) /\ Settled(e.job) /\ UNCHANGED task
       \/ \E seen \in TaskStatus :
            /\ At(e, "reconciling", seen) \in work[e.job]
            /\ Write(e.job, seen, TerminalStatus(e))
    /\ Drop(e)
    /\ UNCHANGED <<results, announced, api>>

AppliedCrash(w) ==
    /\ Crash(w)
    /\ work' = [j \in Job |->
                  {x \in work[j] : \A e \in execs[w] : e.job = j => e.attempt # x.attempt}]
    /\ UNCHANGED <<task, results, announced, api>>

AppliedQueueStep ==
    /\ \/ ReclaimStale
       \/ \E w \in Worker : Lease(w)
       \/ \E j \in Job : LeaseAges(j) \/ BackoffElapses(j)
    /\ UNCHANGED taskVars

-----------------------------------------------------------------------------
(* Operators.                                                               *)

Asked(kind, seen) == [kind |-> kind, seen |-> seen]

CancelTask(j) ==
    /\ Cardinality(api[j]) < RequestLimit
    /\ \/ Cancel(j)
       \/ jobs[j].status \in {"CANCELLED", "SUCCEEDED"} /\ UNCHANGED <<jobs, execs>>
    /\ api' = [api EXCEPT ![j] = IF jobs'[j].status = "CANCELLED"
                                 THEN @ \cup {Asked("cancel", "UNREAD")} ELSE @]
    /\ UNCHANGED <<task, results, announced, work>>

RetryTask(j) ==
    /\ Cardinality(api[j]) < RequestLimit
    /\ Retry(j)
    /\ api' = [api EXCEPT ![j] = @ \cup {Asked("retry", "UNREAD")}]
    /\ UNCHANGED <<task, results, announced, work>>

(* prepare_retry resets the task whatever it reads; reconcile may do nothing. *)
ApiReads(j) ==
    /\ \E kind \in {"retry", "cancel"} :
         /\ Asked(kind, "UNREAD") \in api[j]
         /\ api' = [api EXCEPT ![j] =
                      (@ \ {Asked(kind, "UNREAD")})
                      \cup (IF kind = "cancel" /\ Settled(j)
                            THEN {} ELSE {Asked(kind, task[j])})]
    /\ UNCHANGED <<jobs, execs, task, results, announced, work>>

ApiWrites(j) ==
    /\ \E kind \in {"retry", "cancel"}, seen \in TaskStatus :
         /\ Asked(kind, seen) \in api[j]
         /\ api' = [api EXCEPT ![j] = @ \ {Asked(kind, seen)}]
         /\ Write(j, seen, IF kind = "cancel" THEN "CANCELLED" ELSE "PENDING")
    /\ UNCHANGED <<jobs, execs, results, announced, work>>

ApiDies(j) ==
    /\ api[j] # {}
    /\ api' = [api EXCEPT ![j] = {}]
    /\ UNCHANGED <<jobs, execs, task, results, announced, work>>

AppliedWorkerStep(w, e) ==
    \/ ReadTask(w, e) \/ MarkProcessing(w, e)
    \/ ReadForComplete(w, e) \/ CompleteTask(w, e)
    \/ HandlerDone(w, e) \/ HandlerStopped(w, e)
    \/ AppliedHeartbeat(w, e) \/ AppliedSettle(w, e)
    \/ ReconcileReads(w, e) \/ ReconcileEnds(w, e)

AppliedJobStep(j) ==
    \/ RequestTask(j) \/ CancelTask(j) \/ RetryTask(j)
    \/ ApiReads(j) \/ ApiWrites(j) \/ ApiDies(j)

AppliedNext ==
    \/ AppliedQueueStep
    \/ \E w \in Worker : AppliedCrash(w)
    \/ \E w \in Worker : \E e \in execs[w] : AppliedWorkerStep(w, e)
    \/ \E j \in Job : AppliedJobStep(j)

AppliedSpec == AppliedInit /\ [][AppliedNext]_appliedVars

-----------------------------------------------------------------------------
(* PROPERTIES                                                               *)

(* Whatever stale workers, reconcilers and operators write between the reads  *)
(* and the writes of others: a task shown as COMPLETED, or whose job is, has a *)
(* result, and its event was put into the outbox (jobs/handlers.py).           *)
CompletionIsAnnounced ==
    \A j \in Job :
        task[j] = "COMPLETED" \/ jobs[j].status = "SUCCEEDED"
        => j \in results /\ j \in announced

(* "Success, exhausted retries, and cancellation reconcile both job and task  *)
(* to consistent terminal states" (docs/data-analysis-guide.md): the task of   *)
(* a job that SUCCEEDED is COMPLETED.  The code does not have this property:  *)
(* see Known behaviour in the README.                                         *)
SuccessIsConsistent ==
    \A j \in Job : jobs[j].status = "SUCCEEDED" => task[j] = "COMPLETED"
=============================================================================
