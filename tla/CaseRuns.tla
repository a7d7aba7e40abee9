------------------------------ MODULE CaseRuns ------------------------------
(***************************************************************************)
(* The jobs that go through the cases of an evaluation dataset, under the   *)
(* job queue: prompt experiments and provider comparisons                   *)
(* (app/prompt_management/runners.py) and evaluation runs                   *)
(* (app/evaluation/runner.py), with what operators do to them               *)
(* (prompt_management/service.py, service/provider_comparison_service.py,   *)
(* api/jobs.py) and the terminal reconciler (app/jobs/lifecycle.py).        *)
(*                                                                         *)
(* The runners lock the run when they start and when they conclude; in      *)
(* between nothing keeps a second runner out but, for evaluations, the      *)
(* status RUNNING.  The row of a case is read and then inserted or updated   *)
(* without a lock (evaluations: one upsert).  cancel_experiment, the        *)
(* reconciler and prepare_retry read the run without a lock and write the    *)
(* status if it differs from the one they read; those are two steps here.    *)
(***************************************************************************)
EXTENDS JobQueue

CONSTANTS Slots,        \* rows of a run: cases by variant, provider or alone
          RequestLimit  \* bound of the model: operator requests in flight for a run

ASSUME CaseRunsAssumption ==
    MediaJob = {} /\ UnknownTypeJob = {} /\ Slots \in Nat \ {0} /\ RequestLimit \in Nat

VARIABLES kind,      \* [Job -> what the job runs]
          run,       \* [Job -> status of its experiment, comparison or evaluation run]
          rows,      \* [Job -> [1..Slots -> the result row of the slot]]
          results,   \* runs with an experiment result, a report or aggregate metrics
          announced, \* experiments whose PROMPT_EXPERIMENT_COMPLETED is in the outbox
          campaigns, \* [Job -> slots a SYSTEM evaluation has created its campaign for]
          work,      \* [Job -> what coroutines that entered a runner are about]
          api        \* [Job -> operator requests between two transactions]

runVars == <<kind, run, rows, results, announced, campaigns, work, api>>
caseVars == <<jobs, execs, runVars>>

Kind == {"experiment", "comparison", "snapshot", "system"}

ExperimentStatus == {"DRAFT", "RUNNING", "COMPLETED", "FAILED", "CANCELLED"}

ComparisonStatus == {"DRAFT", "RUNNING", "COMPLETED", "FAILED", "CANCELLED"}

(* COMPLETED stands for the SUCCEEDED of an evaluation run.                   *)
EvaluationStatus == {"PENDING", "RUNNING", "COMPLETED", "FAILED", "CANCELLED"}

RunStatus == {"NONE"} \cup ExperimentStatus \cup ComparisonStatus \cup EvaluationStatus

(* A case that was carried out (whatever its verdict) or that ended in error. *)
RowStatus == {"NONE", "COMPLETED", "FAILED"}

(* `seen' is the status a transaction has read.                              *)
Work == [attempt : 1..AttemptLimit,
         at : {"next", "calling", "writing", "done", "reconciling"},
         slot : 1..Slots + 1,
         seen : RunStatus \cup RowStatus,
         outcome : {"COMPLETED", "FAILED"}]

Request == [kind : {"cancel", "cancel job", "retry job"}, seen : RunStatus \cup {"UNREAD"}]

CaseTypeOK ==
    /\ TypeOK
    /\ kind \in [Job -> Kind]
    /\ run \in [Job -> RunStatus]
    /\ rows \in [Job -> [1..Slots -> RowStatus]]
    /\ results \subseteq Job
    /\ announced \subseteq Job
    /\ campaigns \in [Job -> SUBSET (1..Slots)]
    /\ work \in [Job -> SUBSET Work]
    /\ api \in [Job -> SUBSET Request]

-----------------------------------------------------------------------------
Evaluation(j) == kind[j] \in {"snapshot", "system"}

Mine(e) == {x \in work[e.job] : x.attempt = e.attempt}

Idling(e) == Mine(e) = {}

Enter(e, at, seen) ==
    work' = [work EXCEPT ![e.job] =
               @ \cup {[attempt |-> e.attempt, at |-> at, slot |-> 1,
                        seen |-> seen, outcome |-> "COMPLETED"]}]

Advance(e, x, y) == work' = [work EXCEPT ![e.job] = (@ \ {x}) \cup {y}]

(* A transaction that did not commit is rolled back.                          *)
Drop(e) == work' = [work EXCEPT ![e.job] = @ \ Mine(e)]

Write(j, seen, status) ==
    run' = IF seen = status THEN run ELSE [run EXCEPT ![j] = status]

(* What a runner that locks the run finds it needs no more work.              *)
NothingToDo(j) == run[j] = "COMPLETED" \/ (run[j] = "CANCELLED" /\ ~Evaluation(j))

(* EvaluationConflictError: an evaluation that is RUNNING is somebody else's. *)
Occupied(j) == Evaluation(j) /\ run[j] = "RUNNING"

-----------------------------------------------------------------------------
CaseInit ==
    /\ Init
    /\ kind \in [Job -> Kind]
    /\ run = [j \in Job |-> "NONE"]
    /\ rows = [j \in Job |-> [s \in 1..Slots |-> "NONE"]]
    /\ results = {}
    /\ announced = {}
    /\ campaigns = [j \in Job |-> {}]
    /\ work = [j \in Job |-> {}]
    /\ api = [j \in Job |-> {}]

CreateAs(j, k, status) ==
    /\ kind[j] = k /\ run[j] = "NONE"
    /\ run' = [run EXCEPT ![j] = status]
    /\ UNCHANGED <<jobs, execs, kind, rows, results, announced, campaigns, work, api>>

CreateExperiment(j) == CreateAs(j, "experiment", "DRAFT")

CreateComparison(j) == CreateAs(j, "comparison", "DRAFT")

(* With its EVALUATION_REQUESTED event.                                       *)
RequestEvaluation(j) == \E k \in {"snapshot", "system"} : CreateAs(j, k, "PENDING")

(* Under the lock of the run, which goes to RUNNING with its job's row.       *)
SubmitAs(j, k) ==
    /\ kind[j] = k /\ run[j] = "DRAFT"
    /\ run' = [run EXCEPT ![j] = "RUNNING"]
    /\ Enqueue(j)
    /\ UNCHANGED <<kind, rows, results, announced, campaigns, work, api>>

RunExperiment(j) == SubmitAs(j, "experiment")

RunComparison(j) == SubmitAs(j, "comparison")

(* The outbox consumer of EVALUATION_REQUESTED, at least once.                *)
ConsumeRequest(j) ==
    /\ Evaluation(j)
    /\ run[j] # "NONE"
    /\ jobs[j].status = "ABSENT"
    /\ Enqueue(j)
    /\ UNCHANGED runVars

-----------------------------------------------------------------------------
(* The runners.                                                              *)

(* A locked run that is not settled goes to RUNNING and its cases are listed. *)
Start(w, e) ==
    /\ e.pc = "handler"
    /\ Idling(e)
    /\ run' = [run EXCEPT ![e.job] = "RUNNING"]
    /\ Enter(e, "next", "NONE")
    /\ UNCHANGED <<jobs, execs, kind, rows, results, announced, campaigns, api>>

StartExperiment(w, e) ==
    kind[e.job] = "experiment" /\ ~NothingToDo(e.job) /\ Start(w, e)

StartComparison(w, e) ==
    kind[e.job] = "comparison" /\ ~NothingToDo(e.job) /\ Start(w, e)

(* Mutant: an evaluation run left RUNNING is taken over.                      *)
StartEvaluationTakesOver(w, e) ==
    Evaluation(e.job) /\ ~NothingToDo(e.job) /\ Start(w, e)

StartEvaluation(w, e) ==
    Evaluation(e.job) /\ ~NothingToDo(e.job) /\ ~Occupied(e.job) /\ Start(w, e)

(* The conflict is not retryable.                                            *)
RefuseRun(w, e) ==
    /\ e.pc = "handler"
    /\ Idling(e)
    /\ Occupied(e.job)
    /\ Goto(w, e, "fail_final")
    /\ UNCHANGED <<jobs, runVars>>

(* The case before which the checkpoint passes.                              *)
Ahead(w, e) ==
    {x \in Mine(e) : /\ e.pc = "handler" /\ ~CancellationRequested(jobs[e.job], w)
                     /\ x.at = "next" /\ x.slot <= Slots}

SkipOrCall(e, x) ==
    Advance(e, x, IF rows[e.job][x.slot] = "COMPLETED"
                  THEN [x EXCEPT !.slot = @ + 1] ELSE [x EXCEPT !.at = "calling"])

LookUpExperimentCase(w, e) ==
    /\ kind[e.job] = "experiment"
    /\ \E x \in Ahead(w, e) : SkipOrCall(e, x)
    /\ UNCHANGED <<jobs, execs, kind, run, rows, results, announced, campaigns, api>>

LookUpProviderCase(w, e) ==
    /\ kind[e.job] = "comparison"
    /\ \E x \in Ahead(w, e) : SkipOrCall(e, x)
    /\ UNCHANGED <<jobs, execs, kind, run, rows, results, announced, campaigns, api>>

(* A SYSTEM case creates a campaign whose id is the case's: a second one fails. *)
BeginEvaluationCase(w, e) ==
    /\ Evaluation(e.job)
    /\ \E x \in Ahead(w, e) :
         /\ Advance(e, x, [x EXCEPT !.at = "calling",
                           !.outcome = IF x.slot \in campaigns[e.job]
                                       THEN "FAILED" ELSE "COMPLETED"])
         /\ campaigns' = IF kind[e.job] = "system"
                         THEN [campaigns EXCEPT ![e.job] = @ \cup {x.slot}] ELSE campaigns
    /\ UNCHANGED <<jobs, execs, kind, run, rows, results, announced, api>>

(* The answer of the provider, or any exception; then the row is read.        *)
CallReturns(w, e) ==
    /\ e.pc = "handler" /\ ~Evaluation(e.job)
    /\ \E x \in Mine(e) : \E o \in {"COMPLETED", "FAILED"} :
         /\ x.at = "calling"
         /\ Advance(e, x, [x EXCEPT !.at = "writing", !.outcome = o,
                                    !.seen = rows[e.job][x.slot]])
    /\ UNCHANGED <<jobs, execs, kind, run, rows, results, announced, campaigns, api>>

(* The snapshot, what the campaign's workflow left, or any exception.         *)
CaseCollected(w, e) ==
    /\ e.pc = "handler" /\ Evaluation(e.job)
    /\ \E x \in Mine(e) : \E o \in {x.outcome, "FAILED"} :
         /\ x.at = "calling"
         /\ Advance(e, x, [x EXCEPT !.at = "writing", !.outcome = o])
    /\ UNCHANGED <<jobs, execs, kind, run, rows, results, announced, campaigns, api>>

(* The client of a provider cannot be built: its cases fail without looking.  *)
FactoryFails(w, e) ==
    /\ e.pc = "handler"
    /\ kind[e.job] = "comparison"
    /\ \E x \in Mine(e) :
         /\ x.at = "next" /\ x.slot <= Slots
         /\ Advance(e, x, [x EXCEPT !.at = "writing", !.outcome = "FAILED",
                                    !.seen = rows[e.job][x.slot]])
    /\ UNCHANGED <<jobs, execs, kind, run, rows, results, announced, campaigns, api>>

Past(x) == [x EXCEPT !.at = "next", !.slot = @ + 1, !.seen = "NONE", !.outcome = "COMPLETED"]

(* An insert of what was not there, else an update of what was read.          *)
InsertOrUpdate(e, x) ==
    /\ x.seen # "NONE" \/ rows[e.job][x.slot] = "NONE"
    /\ rows' = IF x.seen = x.outcome THEN rows
               ELSE [rows EXCEPT ![e.job][x.slot] = x.outcome]

RecordExperimentCase(w, e) ==
    /\ e.pc = "handler" /\ kind[e.job] = "experiment"
    /\ \E x \in Mine(e) :
         /\ x.at = "writing" /\ x.outcome = "COMPLETED"
         /\ InsertOrUpdate(e, x)
         /\ Advance(e, x, Past(x))
    /\ UNCHANGED <<jobs, execs, kind, run, results, announced, campaigns, api>>

(* Mutant: a failure leaves no row.                                           *)
RecordProviderSuccess(w, e) ==
    /\ e.pc = "handler" /\ kind[e.job] = "comparison"
    /\ \E x \in Mine(e) :
         /\ x.at = "writing"
         /\ IF x.outcome = "FAILED" THEN UNCHANGED rows ELSE InsertOrUpdate(e, x)
         /\ Advance(e, x, Past(x))
    /\ UNCHANGED <<jobs, execs, kind, run, results, announced, campaigns, api>>

RecordProviderCase(w, e) ==
    /\ e.pc = "handler" /\ kind[e.job] = "comparison"
    /\ \E x \in Mine(e) :
         /\ x.at = "writing"
         /\ InsertOrUpdate(e, x)
         /\ Advance(e, x, Past(x))
    /\ UNCHANGED <<jobs, execs, kind, run, results, announced, campaigns, api>>

(* INSERT .. ON CONFLICT DO UPDATE, of the score of a case or of its error.   *)
UpsertResult(w, e) ==
    /\ e.pc = "handler" /\ Evaluation(e.job)
    /\ \E x \in Mine(e) :
         /\ x.at = "writing"
         /\ rows' = [rows EXCEPT ![e.job][x.slot] = x.outcome]
         /\ Advance(e, x, Past(x))
    /\ UNCHANGED <<jobs, execs, kind, run, results, announced, campaigns, api>>

(* The failure of a case of an experiment is recorded and raised.             *)
CaseFails(w, e) ==
    /\ HandlerRaises(w, e)
    /\ e.pc = "handler" /\ kind[e.job] = "experiment"
    /\ \E x \in Mine(e) :
         /\ x.at = "writing" /\ x.outcome = "FAILED"
         /\ InsertOrUpdate(e, x)
    /\ Drop(e)
    /\ UNCHANGED <<kind, run, results, announced, campaigns, api>>

(* The unique constraint refuses an insert: not retryable.                    *)
CaseCollides(w, e) ==
    /\ e.pc = "handler"
    /\ ~Evaluation(e.job)
    /\ \E x \in Mine(e) :
         x.at = "writing" /\ x.seen = "NONE" /\ rows[e.job][x.slot] # "NONE"
    /\ Goto(w, e, "fail_final")
    /\ Drop(e)
    /\ UNCHANGED <<jobs, kind, run, rows, results, announced, campaigns, api>>

AllFailed(j) == \A s \in 1..Slots : rows[j][s] # "COMPLETED"

LastDone(e) == {x \in Mine(e) : e.pc = "handler" /\ x.at = "next" /\ x.slot = Slots + 1}

(* Under the lock of the run, in one transaction.  A run that was cancelled    *)
(* is left alone.                                                             *)
ConcludeExperiment(w, e) ==
    /\ kind[e.job] = "experiment"
    /\ \E x \in LastDone(e) : Advance(e, x, [x EXCEPT !.at = "done"])
    /\ IF run[e.job] = "CANCELLED" THEN UNCHANGED <<run, results, announced>>
       ELSE /\ run' = [run EXCEPT ![e.job] = "COMPLETED"]
            /\ results' = results \cup {e.job}
            /\ announced' = announced \cup {e.job}
    /\ UNCHANGED <<jobs, execs, kind, rows, campaigns, api>>

ConcludeComparison(w, e) ==
    /\ kind[e.job] = "comparison"
    /\ \E x \in LastDone(e) : Advance(e, x, [x EXCEPT !.at = "done"])
    /\ \/ run[e.job] = "CANCELLED" /\ UNCHANGED <<run, results>>
       \/ /\ run[e.job] # "CANCELLED" /\ ~AllFailed(e.job)
          /\ run' = [run EXCEPT ![e.job] = "COMPLETED"]
          /\ results' = results \cup {e.job}
    /\ UNCHANGED <<jobs, execs, kind, rows, announced, campaigns, api>>

(* Whatever the status of the run has become.                                 *)
FinishEvaluation(w, e) ==
    /\ Evaluation(e.job)
    /\ \E x \in LastDone(e) : Advance(e, x, [x EXCEPT !.at = "done"])
    /\ run' = [run EXCEPT ![e.job] = "COMPLETED"]
    /\ results' = results \cup {e.job}
    /\ UNCHANGED <<jobs, execs, kind, rows, announced, campaigns, api>>

(* A RuntimeError: no provider carried out any case.                          *)
ComparisonFails(w, e) ==
    /\ kind[e.job] = "comparison" /\ run[e.job] # "CANCELLED" /\ AllFailed(e.job)
    /\ LastDone(e) # {}
    /\ Goto(w, e, "fail_final")
    /\ Drop(e)
    /\ UNCHANGED <<jobs, kind, run, rows, results, announced, campaigns, api>>

RunReturns(w, e) ==
    /\ HandlerReturns(w, e)
    /\ (Idling(e) /\ NothingToDo(e.job)) \/ \E x \in Mine(e) : x.at = "done"
    /\ Drop(e)
    /\ UNCHANGED <<kind, run, rows, results, announced, campaigns, api>>

(* A checkpoint, before a case or after the handler, sees the cancellation;    *)
(* an evaluation then settles itself.                                          *)
RunCancelled(w, e) ==
    /\ CheckpointCancels(w, e)
    /\ e.pc = "handler" => \E x \in Mine(e) : x.at = "next" /\ x.slot <= Slots
    /\ run' = IF e.pc = "handler" /\ Evaluation(e.job)
              THEN [run EXCEPT ![e.job] = "CANCELLED"] ELSE run
    /\ Drop(e)
    /\ UNCHANGED <<kind, rows, results, announced, campaigns, api>>

(* The database fails under the handler.  What escapes the loop of an         *)
(* evaluation settles it, if the database lets it.                             *)
RunRaises(w, e) ==
    /\ HandlerRaises(w, e)
    /\ run' \in IF e.pc = "handler" /\ Evaluation(e.job) /\ \E x \in Mine(e) : x.at # "done"
                THEN {run, [run EXCEPT ![e.job] = "FAILED"]} ELSE {run}
    /\ Drop(e)
    /\ UNCHANGED <<kind, rows, results, announced, campaigns, api>>

(* The handler task is cancelled from outside: nobody settles the run.        *)
RunHeartbeat(w, e) ==
    /\ Heartbeat(w, e)
    /\ IF execs' = execs THEN UNCHANGED work ELSE Drop(e)
    /\ UNCHANGED <<kind, run, rows, results, announced, campaigns, api>>

RunSettle(w, e) ==
    /\ \/ CheckpointPasses(w, e)
       \/ Complete(w, e)
       \/ Fail(w, e)
       \/ MarkCancelled(w, e)
       \/ Abandon(w, e)
       \/ Abort(w, e) /\ (e.pc = "handler" => Idling(e))
    /\ Drop(e)
    /\ UNCHANGED <<kind, run, rows, results, announced, campaigns, api>>

(* The reconciler does not look at the status it overwrites, and does nothing *)
(* for an evaluation.                                                          *)
ReconcileReads(w, e) ==
    /\ e.pc \in {"reconcile_fail", "reconcile_cancel"}
    /\ Idling(e)
    /\ ~Evaluation(e.job)
    /\ Enter(e, "reconciling", run[e.job])
    /\ UNCHANGED <<jobs, execs, kind, run, rows, results, announced, campaigns, api>>

ReconcileEnds(w, e) ==
    /\ Reconciled(w, e)
    /\ \/ Evaluation(e.job) /\ UNCHANGED run
       \/ \E x \in Mine(e) :
            Write(e.job, x.seen, IF e.pc = "reconcile_cancel" THEN "CANCELLED" ELSE "FAILED")
    /\ Drop(e)
    /\ UNCHANGED <<kind, rows, results, announced, campaigns, api>>

RunCrash(w) ==
    /\ Crash(w)
    /\ work' = [j \in Job |->
                  {x \in work[j] : \A e \in execs[w] : e.job = j => e.attempt # x.attempt}]
    /\ UNCHANGED <<kind, run, rows, results, announced, campaigns, api>>

CaseQueueStep ==
    /\ \/ ReclaimStale
       \/ \E w \in Worker : Lease(w)
       \/ \E j \in Job : LeaseAges(j) \/ BackoffElapses(j)
    /\ UNCHANGED runVars

-----------------------------------------------------------------------------
(* Operators.                                                               *)

Asked(what, seen) == [kind |-> what, seen |-> seen]

(* The job a run submitted before is cancelled with it, in one transaction;    *)
(* a DEAD_LETTER job is a conflict.                                            *)
CancelWithJob(j, seen) ==
    /\ seen = "RUNNING" => jobs[j].status # "DEAD_LETTER"
    /\ jobs' = IF seen = "RUNNING" /\ jobs[j].status \in {"PENDING", "RUNNING"}
               THEN [jobs EXCEPT ![j] = CancelRow(@)] ELSE jobs
    /\ run' = [run EXCEPT ![j] = "CANCELLED"]
    /\ UNCHANGED <<execs, kind, rows, results, announced, campaigns, work>>

(* Under the lock of the comparison.                                          *)
CancelComparison(j) ==
    /\ kind[j] = "comparison" /\ run[j] \in {"DRAFT", "RUNNING"}
    /\ CancelWithJob(j, run[j])
    /\ UNCHANGED api

(* cancel_experiment locks nothing.                                           *)
CancelReads(j) ==
    /\ kind[j] = "experiment" /\ run[j] \in {"DRAFT", "RUNNING"}
    /\ Cardinality(api[j]) < RequestLimit
    /\ api' = [api EXCEPT ![j] = @ \cup {Asked("cancel", run[j])}]
    /\ UNCHANGED <<jobs, execs, kind, run, rows, results, announced, campaigns, work>>

CancelWrites(j) ==
    \E seen \in {"DRAFT", "RUNNING"} :
        /\ Asked("cancel", seen) \in api[j]
        /\ CancelWithJob(j, seen)
        /\ api' = [api EXCEPT ![j] = @ \ {Asked("cancel", seen)}]

CancelJob(j) ==
    /\ Cardinality(api[j]) < RequestLimit
    /\ \/ Cancel(j)
       \/ jobs[j].status \in {"CANCELLED", "SUCCEEDED"} /\ UNCHANGED <<jobs, execs>>
    /\ api' = [api EXCEPT ![j] = IF jobs'[j].status = "CANCELLED" /\ ~Evaluation(j)
                                 THEN @ \cup {Asked("cancel job", "UNREAD")} ELSE @]
    /\ UNCHANGED <<kind, run, rows, results, announced, campaigns, work>>

RetryJob(j) ==
    /\ Cardinality(api[j]) < RequestLimit
    /\ Retry(j)
    /\ api' = [api EXCEPT ![j] = IF Evaluation(j)
                                 THEN @ ELSE @ \cup {Asked("retry job", "UNREAD")}]
    /\ UNCHANGED <<kind, run, rows, results, announced, campaigns, work>>

ApiReads(j) ==
    /\ \E what \in {"cancel job", "retry job"} :
         /\ Asked(what, "UNREAD") \in api[j]
         /\ api' = [api EXCEPT ![j] = (@ \ {Asked(what, "UNREAD")})
                                       \cup {Asked(what, run[j])}]
    /\ UNCHANGED <<jobs, execs, kind, run, rows, results, announced, campaigns, work>>

ApiWrites(j) ==
    /\ \E what \in {"cancel job", "retry job"}, seen \in RunStatus :
         /\ Asked(what, seen) \in api[j]
         /\ api' = [api EXCEPT ![j] = @ \ {Asked(what, seen)}]
         /\ Write(j, seen, IF what = "cancel job" THEN "CANCELLED" ELSE "RUNNING")
    /\ UNCHANGED <<jobs, execs, kind, rows, results, announced, campaigns, work>>

ApiDies(j) ==
    /\ api[j] # {}
    /\ api' = [api EXCEPT ![j] = {}]
    /\ UNCHANGED <<jobs, execs, kind, run, rows, results, announced, campaigns, work>>

CaseWorkerStep(w, e) ==
    \/ StartExperiment(w, e) \/ StartComparison(w, e) \/ StartEvaluation(w, e)
    \/ RefuseRun(w, e)
    \/ LookUpExperimentCase(w, e) \/ LookUpProviderCase(w, e) \/ BeginEvaluationCase(w, e)
    \/ CallReturns(w, e) \/ CaseCollected(w, e) \/ FactoryFails(w, e)
    \/ RecordExperimentCase(w, e) \/ RecordProviderCase(w, e) \/ UpsertResult(w, e)
    \/ CaseFails(w, e) \/ CaseCollides(w, e)
    \/ ConcludeExperiment(w, e) \/ ConcludeComparison(w, e) \/ FinishEvaluation(w, e)
    \/ ComparisonFails(w, e) \/ RunReturns(w, e)
    \/ RunCancelled(w, e) \/ RunRaises(w, e)
    \/ RunHeartbeat(w, e) \/ RunSettle(w, e)
    \/ ReconcileReads(w, e) \/ ReconcileEnds(w, e)

CaseJobStep(j) ==
    \/ CreateExperiment(j) \/ CreateComparison(j) \/ RequestEvaluation(j)
    \/ RunExperiment(j) \/ RunComparison(j) \/ ConsumeRequest(j)
    \/ CancelComparison(j) \/ CancelReads(j) \/ CancelWrites(j)
    \/ CancelJob(j) \/ RetryJob(j)
    \/ ApiReads(j) \/ ApiWrites(j) \/ ApiDies(j)

CaseNext ==
    \/ CaseQueueStep
    \/ \E w \in Worker : RunCrash(w)
    \/ \E w \in Worker : \E e \in execs[w] : CaseWorkerStep(w, e)
    \/ \E j \in Job : CaseJobStep(j)

CaseSpec == CaseInit /\ [][CaseNext]_caseVars

-----------------------------------------------------------------------------
(* PROPERTIES                                                               *)

(* However attempts overlap and whoever overwrites statuses and rows: a run    *)
(* that shows as COMPLETED, or that has a result, has a row for every case,    *)
(* and the result of an experiment is there exactly if it was announced         *)
(* (PromptExperimentRunner.run and _complete_experiment, EvaluationRunner).    *)
ResultsAreComplete ==
    /\ CaseTypeOK
    /\ \A j \in Job :
          /\ run[j] = "COMPLETED" => j \in results
          /\ j \in results => \A s \in 1..Slots : rows[j][s] # "NONE"
          /\ kind[j] = "experiment" => (j \in results <=> j \in announced)

(* An evaluation is run by one coroutine at a time, which finds it RUNNING     *)
(* whenever it settles it: that is why _finish, _fail and _cancel may write     *)
(* without looking; and the job of an evaluation only succeeds if the          *)
(* evaluation has (EvaluationRunner.run).                                      *)
EvaluationRunsAlone ==
    \A j \in Job :
        Evaluation(j)
        => /\ \A x \in work[j] :
                 x.at # "done" => run[j] = "RUNNING" /\ \A y \in work[j] : y.at # "done" => y = x
           /\ jobs[j].status = "SUCCEEDED" => run[j] = "COMPLETED"

(* "The worker executes cases and persists one idempotent result per run/case" *)
(* (docs/evaluation-guide.md): a case that was carried out stays so when the   *)
(* job of a SYSTEM evaluation is run again.  The code does not have this        *)
(* property: see Known behaviour in the README.                               *)
EvaluationIsIdempotent ==
    [][\A j \in Job : \A s \in 1..Slots :
          kind[j] = "system" /\ rows[j][s] = "COMPLETED" => rows'[j][s] = "COMPLETED"]_caseVars
=============================================================================
