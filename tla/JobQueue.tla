------------------------------ MODULE JobQueue ------------------------------
(***************************************************************************)
(* The PostgreSQL job queue (app/repositories/job_repository.py,           *)
(* app/jobs/queue.py) together with the asyncio workers that drain it      *)
(* (app/jobs/worker.py).                                                   *)
(*                                                                         *)
(* A row of background_jobs, with its job_attempts, is one record of       *)
(* `jobs'.  Every repository method is a function from a row to a row and  *)
(* every committed transaction is one action.  `execs' holds the _process  *)
(* coroutines alive in each worker process: several coroutines of one      *)
(* worker, and coroutines of attempts that were long since reclaimed, can  *)
(* be alive at the same time.                                              *)
(*                                                                         *)
(* Time is abstracted to what the queue compares it with: a lease is       *)
(* fresh, ageing or expired, and a pending row is due or backing off.      *)
(***************************************************************************)
EXTENDS Naturals, Sequences, FiniteSets

CONSTANTS Job,           \* idempotency keys: one row at most per key
          UnknownTypeJob,\* rows whose job_type this release cannot parse
          MediaJob,      \* image and storyboard jobs, which clean up after themselves
          Worker,        \* worker ids
          NoWorker,      \* locked_by IS NULL
          MaxAttempts,   \* settings.job_max_attempts
          BatchSize,     \* settings.job_batch_size
          AttemptLimit   \* bound of the model: attempts an operator may force

ASSUME ConstantsAssumption ==
    /\ UnknownTypeJob \subseteq Job
    /\ MediaJob \subseteq Job
    /\ NoWorker \notin Worker
    /\ MaxAttempts \in Nat \ {0}
    /\ BatchSize \in Nat \ {0}
    /\ AttemptLimit \in Nat
    /\ MaxAttempts <= AttemptLimit

VARIABLES jobs,   \* [Job -> row], a row with status ABSENT is not in the table
          execs   \* [Worker -> set of running _process coroutines]

vars == <<jobs, execs>>

JobStatus == {"ABSENT", "PENDING", "RUNNING", "SUCCEEDED", "CANCELLED", "DEAD_LETTER"}
AttemptStatus == {"RUNNING", "SUCCEEDED", "FAILED", "CANCELLED"}
LeaseState == {"none", "fresh", "ageing", "expired"}

Attempt == [worker : Worker, status : AttemptStatus]

Row == [status : JobStatus,
        attempt_count : 0..AttemptLimit,
        max_attempts : 1..AttemptLimit,
        cancel_requested : BOOLEAN,
        locked_by : Worker \cup {NoWorker},
        lease : LeaseState,
        due : BOOLEAN,
        attempts : Seq(Attempt)]

(* Where a _process coroutine stands: its handler runs; the handler has      *)
(* returned; the checkpoint after it has passed; it is about to record a     *)
(* retryable or a final failure, or a cancellation; it has recorded a dead    *)
(* letter or a cancellation and is about to run the JobTerminalReconciler;    *)
(* its heartbeat (lost) or its media handler (unowned) found the lease gone.  *)
ExecPc == {"handler", "returned", "checked", "fail_retry", "fail_final", "cancelling",
           "reconcile_fail", "reconcile_cancel", "lost", "unowned"}

(* `awaited' says that the gather of the current run_once still waits for it. *)
Exec == [job : Job, attempt : 1..AttemptLimit, pc : ExecPc, awaited : BOOLEAN]

TypeOK ==
    /\ jobs \in [Job -> Row]
    /\ execs \in [Worker -> SUBSET Exec]

-----------------------------------------------------------------------------
(* Rows: one operator per repository method.                                *)

Absent == [status |-> "ABSENT", attempt_count |-> 0, max_attempts |-> MaxAttempts,
           cancel_requested |-> FALSE, locked_by |-> NoWorker, lease |-> "none",
           due |-> TRUE, attempts |-> <<>>]

(* Mutant: the fence forgets whose lease it is.                               *)
OwnsAnyLease(r, w) == r.status = "RUNNING" /\ r.lease \in {"fresh", "ageing"}

OwnsLiveLease(r, w) ==
    /\ r.status = "RUNNING"
    /\ r.locked_by = w
    /\ r.lease \in {"fresh", "ageing"}

CancellationRequested(r, w) ==
    /\ r.status = "RUNNING"
    /\ r.locked_by = w
    /\ r.cancel_requested

Leasable(r) ==
    /\ r.status = "PENDING"
    /\ r.due
    /\ ~r.cancel_requested

(* _finish_attempt raises JobConflictError unless the open attempt exists.   *)
AttemptOpen(r) ==
    /\ r.attempt_count \in DOMAIN r.attempts
    /\ r.attempts[r.attempt_count].status = "RUNNING"

FinishAttempt(r, w, s) ==
    [r EXCEPT !.attempts = [@ EXCEPT ![r.attempt_count] = [worker |-> w, status |-> s]]]

ClearLease(r) == [r EXCEPT !.locked_by = NoWorker, !.lease = "none"]

(* Mutant: a job leased again goes on with its last attempt.                  *)
LeaseRowReusesAttempt(r, w) ==
    LET open == [worker |-> w, status |-> "RUNNING"]
        leased == [r EXCEPT !.status = "RUNNING", !.locked_by = w, !.lease = "fresh"]
    IN  IF r.attempt_count = 0
        THEN [leased EXCEPT !.attempt_count = 1, !.attempts = <<open>>]
        ELSE [leased EXCEPT !.attempts[r.attempt_count] = open]

LeaseRow(r, w) ==
    [r EXCEPT !.status = "RUNNING",
              !.locked_by = w,
              !.lease = "fresh",
              !.attempt_count = @ + 1,
              !.attempts = Append(@, [worker |-> w, status |-> "RUNNING"])]

CompleteRow(r, w) ==
    ClearLease(FinishAttempt([r EXCEPT !.status = "SUCCEEDED"], w, "SUCCEEDED"))

(* Mutant: attempts are compared with <= instead of <.                        *)
FailRowOffByOne(r, w, retryable) ==
    LET f == ClearLease(FinishAttempt(r, w, "FAILED"))
    IN  IF retryable /\ r.attempt_count <= r.max_attempts
        THEN [f EXCEPT !.status = "PENDING", !.due = FALSE]
        ELSE [f EXCEPT !.status = "DEAD_LETTER"]

(* A failed attempt goes back to the queue with a backoff, or is buried.  The *)
(* cancel_requested flag of the row survives both.                            *)
FailRow(r, w, retryable) ==
    LET f == ClearLease(FinishAttempt(r, w, "FAILED"))
    IN  IF retryable /\ r.attempt_count < r.max_attempts
        THEN [f EXCEPT !.status = "PENDING", !.due = FALSE]
        ELSE [f EXCEPT !.status = "DEAD_LETTER"]

ReclaimRow(r) == FailRow(r, r.locked_by, TRUE)

MarkCancelledRow(r, w) ==
    ClearLease(FinishAttempt([r EXCEPT !.status = "CANCELLED", !.cancel_requested = TRUE],
                             w, "CANCELLED"))

CancelRow(r) ==
    [r EXCEPT !.cancel_requested = TRUE,
              !.status = IF @ = "PENDING" THEN "CANCELLED" ELSE @]

(* Mutant: a retry never grants an attempt.                                   *)
RetryRowNeverExtends(r) ==
    ClearLease([r EXCEPT !.status = "PENDING", !.cancel_requested = FALSE, !.due = TRUE])

RetryRow(r) ==
    ClearLease([r EXCEPT !.status = "PENDING",
                         !.cancel_requested = FALSE,
                         !.due = TRUE,
                         !.max_attempts = IF r.attempt_count >= @
                                          THEN r.attempt_count + 1 ELSE @])

-----------------------------------------------------------------------------
(* Coroutines of a worker process.                                          *)

(* run_once does not return, so nothing more is leased, while its gather      *)
(* still awaits a coroutine.                                                  *)
Idle(w) == \A e \in execs[w] : ~e.awaited

Goto(w, e, pc) == execs' = [execs EXCEPT ![w] = (@ \ {e}) \cup {[e EXCEPT !.pc = pc]}]

Finish(w, e) == execs' = [execs EXCEPT ![w] = @ \ {e}]

(* gather is called without return_exceptions: the first exception out of an  *)
(* awaited coroutine ends run_once, and its siblings run on with nobody       *)
(* waiting for them.                                                          *)
Raise(w, e) ==
    execs' = [execs EXCEPT ![w] =
                IF e.awaited
                THEN {[x EXCEPT !.awaited = FALSE] : x \in @ \ {e}}
                ELSE @ \ {e}]

(* The finally block of _process writes a worker heartbeat, which may fail.   *)
Leave(w, e) == Finish(w, e) \/ Raise(w, e)

(* The handler task is not done: it runs, or a media handler is cleaning up.  *)
HandlerAlive(e) ==
    \/ e.pc = "handler"
    \/ e.job \in MediaJob /\ e.pc \in {"fail_retry", "fail_final", "unowned"}

Started(j, n) == [job |-> j, attempt |-> n, pc |-> "handler", awaited |-> TRUE]

-----------------------------------------------------------------------------
Init ==
    /\ jobs = [j \in Job |-> Absent]
    /\ execs = [w \in Worker |-> {}]

(* An insert under the unique idempotency key, or the existing row.          *)
Enqueue(j) ==
    /\ jobs' = IF jobs[j].status = "ABSENT"
               THEN [jobs EXCEPT ![j].status = "PENDING"] ELSE jobs
    /\ UNCHANGED execs

(* Mutant: only jobs with attempts left are reclaimed.                        *)
ReclaimStaleWithBudget ==
    \E j \in Job :
        /\ jobs[j].status = "RUNNING" /\ jobs[j].lease = "expired"
        /\ jobs[j].attempt_count < jobs[j].max_attempts
        /\ AttemptOpen(jobs[j])
        /\ jobs' = [jobs EXCEPT ![j] = ReclaimRow(@)]
        /\ UNCHANGED execs

(* Any worker's run_once, or the operator's reconcile endpoint.              *)
ReclaimStale ==
    \E S \in SUBSET {j \in Job : jobs[j].status = "RUNNING" /\ jobs[j].lease = "expired"} :
        /\ S # {} /\ Cardinality(S) <= BatchSize
        /\ \A j \in S : AttemptOpen(jobs[j])
        /\ jobs' = [j \in Job |-> IF j \in S THEN ReclaimRow(jobs[j]) ELSE jobs[j]]
        /\ UNCHANGED execs

(* The rows locked by somebody else are skipped, so any batch may come.  A    *)
(* row of unknown type is leased and buried in the same transaction.          *)
Lease(w) ==
    /\ Idle(w)
    /\ \E S \in SUBSET {j \in Job : Leasable(jobs[j])} :
        /\ S # {} /\ Cardinality(S) <= BatchSize
        /\ jobs' = [j \in Job |->
                      IF j \notin S THEN jobs[j]
                      ELSE IF j \in UnknownTypeJob
                           THEN FailRow(LeaseRow(jobs[j], w), w, FALSE)
                           ELSE LeaseRow(jobs[j], w)]
        /\ execs' = [execs EXCEPT ![w] =
                      @ \cup {Started(j, jobs[j].attempt_count + 1) : j \in S \ UnknownTypeJob}]

(* One turn of _heartbeat_loop while the handler runs.  A renewal restores    *)
(* the lease; a cancellation or a lost lease cancels the handler.             *)
Heartbeat(w, e) ==
    /\ HandlerAlive(e)
    /\ LET r == jobs[e.job]
       IN  \/ /\ CancellationRequested(r, w)
              /\ Goto(w, e, "cancelling")
              /\ UNCHANGED jobs
           \/ /\ ~CancellationRequested(r, w)
              /\ OwnsLiveLease(r, w)
              /\ jobs' = [jobs EXCEPT ![e.job].lease = "fresh"]
              /\ UNCHANGED execs
           \/ /\ ~CancellationRequested(r, w)
              /\ ~OwnsLiveLease(r, w)
              /\ Goto(w, e, "lost")
              /\ UNCHANGED jobs

HandlerReturns(w, e) ==
    /\ e.pc = "handler"
    /\ Goto(w, e, "returned")
    /\ UNCHANGED jobs

(* An exception of the handler, or of the database under the steps that      *)
(* follow it, classified by classify_job_error.                              *)
HandlerRaises(w, e) ==
    /\ e.pc \in {"handler", "returned", "checked"}
    /\ \E pc \in {"fail_retry", "fail_final"} : Goto(w, e, pc)
    /\ UNCHANGED jobs

(* MediaAttemptLeaseLostError: the fence of the media handlers, which also    *)
(* compares the attempt.                                                      *)
HandlerDisowned(w, e) ==
    /\ e.pc = "handler"
    /\ e.job \in MediaJob
    /\ ~(OwnsLiveLease(jobs[e.job], w) /\ e.attempt = jobs[e.job].attempt_count)
    /\ Goto(w, e, "unowned")
    /\ UNCHANGED jobs

(* The cleanup of a media handler fails: its error replaces the first one.    *)
CleanupFails(w, e) ==
    /\ e.job \in MediaJob
    /\ e.pc \in {"fail_retry", "fail_final", "cancelling", "unowned"}
    /\ Goto(w, e, "fail_final")
    /\ UNCHANGED jobs

(* A checkpoint, inside the handler or after it, sees the cancellation.      *)
CheckpointCancels(w, e) ==
    /\ e.pc = "handler" \/ (e.pc = "returned" /\ e.job \notin MediaJob)
    /\ CancellationRequested(jobs[e.job], w)
    /\ Goto(w, e, "cancelling")
    /\ UNCHANGED jobs

CheckpointPasses(w, e) ==
    /\ e.pc = "returned"
    /\ e.job \notin MediaJob
    /\ ~CancellationRequested(jobs[e.job], w)
    /\ Goto(w, e, "checked")
    /\ UNCHANGED jobs

(* What a media job has instead of that checkpoint: the reconciler finds the  *)
(* asset finished, or settles it as FAILED and raises.                        *)
EnsureSuccess(w, e, consistent) ==
    /\ e.pc = "returned"
    /\ e.job \in MediaJob
    /\ Goto(w, e, IF consistent THEN "checked" ELSE "fail_final")
    /\ UNCHANGED jobs

(* A refused completion is a retryable JobLeaseLostError, caught by _process. *)
Complete(w, e) ==
    /\ e.pc = "checked"
    /\ \/ /\ OwnsLiveLease(jobs[e.job], w)
          /\ AttemptOpen(jobs[e.job])
          /\ jobs' = [jobs EXCEPT ![e.job] = CompleteRow(@, w)]
          /\ Leave(w, e)
       \/ /\ ~OwnsLiveLease(jobs[e.job], w)
          /\ Goto(w, e, "fail_retry")
          /\ UNCHANGED jobs

(* A refused failure is a JobLeaseLostError out of _process; a dead letter    *)
(* is followed by the reconciler, in a transaction of its own.                *)
Fail(w, e) ==
    /\ e.pc \in {"fail_retry", "fail_final"}
    /\ \/ /\ OwnsLiveLease(jobs[e.job], w)
          /\ AttemptOpen(jobs[e.job])
          /\ LET r == FailRow(jobs[e.job], w, e.pc = "fail_retry")
             IN  /\ jobs' = [jobs EXCEPT ![e.job] = r]
                 /\ IF r.status = "DEAD_LETTER"
                    THEN Goto(w, e, "reconcile_fail") ELSE Leave(w, e)
       \/ /\ ~OwnsLiveLease(jobs[e.job], w)
          /\ Raise(w, e)
          /\ UNCHANGED jobs

MarkCancelled(w, e) ==
    /\ e.pc = "cancelling"
    /\ \/ /\ OwnsLiveLease(jobs[e.job], w)
          /\ AttemptOpen(jobs[e.job])
          /\ jobs' = [jobs EXCEPT ![e.job] = MarkCancelledRow(@, w)]
          /\ Goto(w, e, "reconcile_cancel")
       \/ /\ ~OwnsLiveLease(jobs[e.job], w)
          /\ Raise(w, e)
          /\ UNCHANGED jobs

(* The second transaction of _fail and _cancel: it writes the resources the   *)
(* job works on (AppliedTasks, MediaGeneration), never the job itself.        *)
Reconciled(w, e) ==
    /\ e.pc \in {"reconcile_fail", "reconcile_cancel"}
    /\ Leave(w, e)
    /\ UNCHANGED jobs

(* A coroutine without its lease leaves the job to whoever holds it.          *)
Abandon(w, e) ==
    /\ e.pc \in {"lost", "unowned"}
    /\ Leave(w, e)
    /\ UNCHANGED jobs

(* The database fails under a step of _process that nothing catches (the      *)
(* worker heartbeats, or a second failure while recording the first).         *)
Abort(w, e) ==
    /\ Raise(w, e)
    /\ UNCHANGED jobs

(* The process dies and is started again with the same worker id.            *)
Crash(w) ==
    /\ execs[w] # {}
    /\ execs' = [execs EXCEPT ![w] = {}]
    /\ UNCHANGED jobs

(* POST /jobs/{id}/cancel; a CANCELLED or SUCCEEDED job is left as it is and  *)
(* a DEAD_LETTER one is a conflict.                                           *)
Cancel(j) ==
    /\ jobs[j].status \in {"PENDING", "RUNNING"}
    /\ jobs' = [jobs EXCEPT ![j] = CancelRow(@)]
    /\ UNCHANGED execs

(* POST /jobs/{id}/retry                                                      *)
Retry(j) ==
    /\ jobs[j].status \in {"DEAD_LETTER", "CANCELLED"}
    /\ jobs[j].attempt_count < AttemptLimit
    /\ jobs' = [jobs EXCEPT ![j] = RetryRow(@)]
    /\ UNCHANGED execs

LeaseAges(j) ==
    /\ jobs[j].lease \in {"fresh", "ageing"}
    /\ jobs' = [jobs EXCEPT ![j].lease = IF @ = "fresh" THEN "ageing" ELSE "expired"]
    /\ UNCHANGED execs

BackoffElapses(j) ==
    /\ jobs[j].status = "PENDING"
    /\ ~jobs[j].due
    /\ jobs' = [jobs EXCEPT ![j].due = TRUE]
    /\ UNCHANGED execs

ExecStep(w, e) ==
    \/ HandlerReturns(w, e) \/ HandlerRaises(w, e) \/ HandlerDisowned(w, e)
    \/ CheckpointCancels(w, e) \/ CheckpointPasses(w, e)
    \/ \E consistent \in BOOLEAN : EnsureSuccess(w, e, consistent)
    \/ Complete(w, e) \/ Fail(w, e) \/ MarkCancelled(w, e)
    \/ Reconciled(w, e) \/ Abandon(w, e)

WorkerStep(w) ==
    \/ Lease(w)
    \/ Crash(w)
    \/ \E e \in execs[w] :
          Heartbeat(w, e) \/ ExecStep(w, e) \/ CleanupFails(w, e) \/ Abort(w, e)

JobStep(j) ==
    Enqueue(j) \/ Cancel(j) \/ Retry(j) \/ LeaseAges(j) \/ BackoffElapses(j)

Next ==
    \/ ReclaimStale
    \/ \E w \in Worker : WorkerStep(w)
    \/ \E j \in Job : JobStep(j)

Spec == Init /\ [][Next]_vars

(* Workers keep polling, handlers come to an end (their provider calls have   *)
(* timeouts) and the clock advances.  Heartbeats are not assumed to run.      *)
Fairness ==
    /\ WF_vars(ReclaimStale)
    /\ \A w \in Worker : WF_vars(Lease(w))
    /\ \A w \in Worker : WF_vars(\E e \in execs[w] : ExecStep(w, e))
    /\ \A j \in Job : WF_vars(LeaseAges(j)) /\ WF_vars(BackoffElapses(j))

FairSpec == Spec /\ Fairness

-----------------------------------------------------------------------------
(* PROPERTIES                                                               *)

(* job_attempts and background_jobs agree although _finish_attempt,           *)
(* lease_batch, reclaim_stale and retry each write only a part of them: one    *)
(* attempt per lease, an open one exactly while the job runs, leased to the    *)
(* same worker, and none ever SUCCEEDED but the last one of a SUCCEEDED job.   *)
(* Were it to fail, _finish_attempt would raise and reclaim_stale could        *)
(* reclaim nothing in that batch again.                                        *)
AttemptAudit ==
    \A j \in Job :
        LET r == jobs[j]
        IN  /\ Len(r.attempts) = r.attempt_count
            /\ \A n \in 1..Len(r.attempts) :
                 /\ r.attempts[n].status = "RUNNING"
                      <=> r.status = "RUNNING" /\ n = r.attempt_count
                 /\ r.attempts[n].status = "RUNNING" => r.attempts[n].worker = r.locked_by
                 /\ r.attempts[n].status = "SUCCEEDED"
                      => r.status = "SUCCEEDED" /\ n = r.attempt_count

(* A job waiting in the queue always has an attempt left to spend, however    *)
(* failures, reclaims, cancellations and forced retries alternate, and a      *)
(* row holds a lease exactly while it runs.                                    *)
AttemptBudget ==
    \A j \in Job :
        LET r == jobs[j]
        IN  /\ r.attempt_count <= r.max_attempts
            /\ r.status = "PENDING" => r.attempt_count < r.max_attempts
            /\ r.status = "RUNNING" <=> r.locked_by # NoWorker
            /\ r.status = "RUNNING" <=> r.lease # "none"

(* What the audit and the budget say of a row at once.                        *)
RowsAudited == AttemptAudit /\ AttemptBudget

(* The running attempt of a job is only ever executed by the worker that      *)
(* holds its lease, once: what lets the worker-id fence of complete, fail      *)
(* and mark_cancelled keep every other worker out.                             *)
CurrentAttemptOwned ==
    \A w \in Worker : \A e \in execs[w] :
        LET r == jobs[e.job]
        IN  /\ e.attempt <= r.attempt_count
            /\ r.attempts[e.attempt].worker = w
            /\ \A f \in execs[w] : f.job = e.job /\ f.attempt = e.attempt => f = e

(* No attempt changes hands: its terminal status is written under the id of   *)
(* the worker that leased it, whoever reclaims it and however late a stale     *)
(* coroutine wakes up (_finish_attempt overwrites worker_id).                  *)
AttemptsKeepTheirWorker ==
    [][\A j \in Job : \A n \in 1..Len(jobs[j].attempts) :
          /\ n <= Len(jobs'[j].attempts)
          /\ jobs'[j].attempts[n].worker = jobs[j].attempts[n].worker
          /\ jobs[j].attempts[n].status # "RUNNING"
               => jobs'[j].attempts[n] = jobs[j].attempts[n]]_vars

(* The execution that finishes a job SUCCEEDED is that of the job's current   *)
(* attempt: "Completion is fenced by worker ID and lease expiry, so a stale    *)
(* worker cannot finalize a reclaimed job" (docs/architecture-m6.md).          *)
OnlyCurrentAttemptCompletes ==
    [][\A j \in Job :
          jobs[j].status = "RUNNING" /\ jobs'[j].status = "SUCCEEDED"
          => \E w \in Worker : \E e \in execs[w] \ execs'[w] :
                e.job = j /\ e.attempt = jobs[j].attempt_count]_vars

(* The queue implements the life of a job that its callers rely on.          *)
Lifecycle == INSTANCE JobLifecycle WITH
    InitialBudget <- MaxAttempts,
    state <- [j \in Job |-> jobs[j].status],
    budget <- [j \in Job |-> jobs[j].max_attempts - jobs[j].attempt_count]

ImplementsLifecycle == Lifecycle!LifecycleSpec

(* A job that nobody asked to cancel is settled in the end, across crashes,   *)
(* lost leases and retries, or somebody asks to cancel it; and a running job,  *)
(* cancelled or not, stops running even if its worker is dead: the lease runs  *)
(* out and some worker reclaims it.  (A cancelled job may be left PENDING.)    *)
JobsSettle ==
    \A j \in Job :
        /\ jobs[j].status \in {"PENDING", "RUNNING"} /\ ~jobs[j].cancel_requested
             ~> \/ jobs[j].status \in {"SUCCEEDED", "DEAD_LETTER", "CANCELLED"}
                \/ jobs[j].cancel_requested
        /\ jobs[j].status = "RUNNING" ~> jobs[j].status # "RUNNING"
=============================================================================
