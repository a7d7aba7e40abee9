--------------------------- MODULE MediaGeneration ---------------------------
(***************************************************************************)
(* Image and storyboard generation (app/media/service.py,                  *)
(* app/repositories/media_repository.py) under the job queue, with the     *)
(* terminal reconciler (app/jobs/lifecycle.py), the review of an asset and *)
(* the operator's retry and cancel (app/api/jobs.py), which act on the     *)
(* asset in a second transaction.                                          *)
(*                                                                         *)
(* Every job here generates one asset, so an asset goes by its job's name. *)
(* Job and worker steps are those of JobQueue; this module says what each   *)
(* of them does, or waits for, on the side of the asset.                   *)
(***************************************************************************)
EXTENDS JobQueue, FiniteSetsExt

ASSUME MediaAssumption == MediaJob = Job

VARIABLES asset,       \* [Job -> the media_assets row and the status of its task]
          media,       \* [Job -> media_generation_attempts, by attempt_number]
          events,      \* [Job -> idempotency keys of the asset in the outbox]
          generating,  \* [Job -> job attempts whose coroutine still owes its media row an end]
          api,         \* [Job -> operator requests between their two transactions]
          storyboards  \* jobs whose asset is a storyboard; the others are images

resources == <<asset, media, events, generating, api>>
mediaVars == <<jobs, execs, resources, storyboards>>

Finished == {"READY_FOR_REVIEW", "APPROVED", "REJECTED"}
AssetStatus == Finished \cup {"NONE", "REQUESTED", "GENERATING", "FAILED", "CANCELLED"}
TaskStatus == {"NONE", "PENDING", "PROCESSING", "COMPLETED", "FAILED", "CANCELLED"}
MediaAttempt == [worker : Worker, attempt : 1..AttemptLimit,
                 status : {"STARTED", "COMPLETED", "FAILED", "CANCELLED"}]

MediaTypeOK ==
    /\ TypeOK
    /\ asset \in [Job -> [status : AssetStatus, task : TaskStatus]]
    /\ media \in [Job -> Seq(MediaAttempt)]
    /\ events \in [Job -> SUBSET {"READY", "APPROVED", "REJECTED"}]
    /\ generating \in [Job -> SUBSET (1..AttemptLimit)]
    /\ api \in [Job -> SUBSET {"retry", "cancel"}]
    /\ storyboards \subseteq Job

-----------------------------------------------------------------------------
(* Asset rows and media attempts.                                           *)

Asset(status, task) == [status |-> status, task |-> task]

(* The media attempt of a job attempt: at most one, under its own number.     *)
RowsOf(j, n) == {i \in DOMAIN media[j] : media[j][i].attempt = n}
Attempted(e) == RowsOf(e.job, e.attempt) # {}
Number(e) == Max(RowsOf(e.job, e.attempt))

Generating(e) == e.attempt \in generating[e.job]
Released(e) == generating' = [generating EXCEPT ![e.job] = @ \ {e.attempt}]

(* The statuses at which the start of an attempt returns at once.             *)
Skipped(j) == IF j \in storyboards THEN {"READY_FOR_REVIEW"}
                                     ELSE {"READY_FOR_REVIEW", "APPROVED"}

HasStarted(j) == \E i \in DOMAIN media[j] : media[j][i].status = "STARTED"

(* Mutant: the expected state is not checked.                                 *)
TerminalizeAny(rows, I, s) ==
    [i \in DOMAIN rows |-> IF i \in I THEN [rows[i] EXCEPT !.status = s] ELSE rows[i]]

(* _mark_terminal: only a STARTED attempt changes.                            *)
Terminalize(rows, I, s) ==
    [i \in DOMAIN rows |-> IF i \in I /\ rows[i].status = "STARTED"
                           THEN [rows[i] EXCEPT !.status = s] ELSE rows[i]]

(* Mutant: the task is forgotten.                                             *)
ReconcileAssetOnly(j, s) ==
    /\ media' = [media EXCEPT ![j] = Terminalize(@, DOMAIN @, s)]
    /\ asset' = IF asset[j].status \in Finished THEN asset
                ELSE [asset EXCEPT ![j].status = s]

(* JobTerminalReconciler.reconcile: open attempts are closed, and an asset    *)
(* that has no finished output takes the status of its job.                   *)
Reconcile(j, s) ==
    /\ media' = [media EXCEPT ![j] = Terminalize(@, DOMAIN @, s)]
    /\ asset' = IF asset[j].status \in Finished THEN asset
                ELSE [asset EXCEPT ![j] = Asset(s, s)]

-----------------------------------------------------------------------------
MediaInit ==
    /\ Init
    /\ asset = [j \in Job |-> Asset("NONE", "NONE")]
    /\ media = [j \in Job |-> <<>>]
    /\ events = [j \in Job |-> {}]
    /\ generating = [j \in Job |-> {}]
    /\ api = [j \in Job |-> {}]
    /\ storyboards \in SUBSET Job

(* Asset, task and job are inserted together; a repeated request finds them.  *)
Request(j) ==
    /\ Enqueue(j)
    /\ asset' = IF jobs[j].status = "ABSENT"
                THEN [asset EXCEPT ![j] = Asset("REQUESTED", "PENDING")] ELSE asset
    /\ UNCHANGED <<media, events, generating, api>>

(* The STARTED row is committed before the provider is called.  Only the      *)
(* asset row is locked: the job's lease is not looked at.                      *)
StartAttempt(w, e) ==
    /\ e.pc = "handler"
    /\ ~Attempted(e)
    /\ asset[e.job].status \notin Skipped(e.job)
    /\ asset' = [asset EXCEPT ![e.job] = Asset("GENERATING", "PROCESSING")]
    /\ media' = [media EXCEPT ![e.job] =
                    Append(@, [worker |-> w, attempt |-> e.attempt, status |-> "STARTED"])]
    /\ generating' = [generating EXCEPT ![e.job] = @ \cup {e.attempt}]
    /\ UNCHANGED <<jobs, execs, events, api>>

(* The checks of the finalization under the locks of job, asset and attempt.  *)
Finalizable(e) ==
    /\ media[e.job][Number(e)].status = "STARTED"
    /\ Number(e) = e.attempt
    /\ asset[e.job] = Asset("GENERATING", "PROCESSING")

(* Mutant: the lease may be anybody's and of any attempt.                     *)
FencedByAnyLease(w, e) == OwnsAnyLease(jobs[e.job], w)

Fenced(w, e) == OwnsLiveLease(jobs[e.job], w) /\ e.attempt = jobs[e.job].attempt_count

(* Attempt, asset, task and ready event change in one transaction.            *)
Finalize(w, e) ==
    /\ e.pc = "handler"
    /\ Generating(e)
    /\ Fenced(w, e)
    /\ Finalizable(e)
    /\ asset' = [asset EXCEPT ![e.job] = Asset("READY_FOR_REVIEW", "COMPLETED")]
    /\ media' = [media EXCEPT ![e.job][Number(e)].status = "COMPLETED"]
    /\ events' = [events EXCEPT ![e.job] = @ \cup {"READY"}]
    /\ Released(e)
    /\ UNCHANGED <<jobs, execs, api>>

(* MediaAttemptStateConflictError, which is not retryable.                    *)
FinalizeRefused(w, e) ==
    /\ e.pc = "handler"
    /\ Generating(e)
    /\ Fenced(w, e)
    /\ ~Finalizable(e)
    /\ Goto(w, e, "fail_final")
    /\ UNCHANGED <<jobs, resources>>

(* _finish_attempt of a handler that raised or was cancelled.                 *)
Cleanup(w, e) ==
    /\ e.pc \in {"fail_retry", "fail_final", "cancelling", "lost", "unowned"}
    /\ Generating(e)
    /\ LET s == IF e.pc \in {"cancelling", "lost"} THEN "CANCELLED" ELSE "FAILED"
       IN  media' = [media EXCEPT ![e.job] = Terminalize(@, {Number(e)}, s)]
    /\ Released(e)
    /\ UNCHANGED <<jobs, execs, asset, events, api>>

(* ... which fails; nobody looks at the error of a handler whose lease is lost. *)
CleanupLost(w, e) ==
    /\ Generating(e)
    /\ CleanupFails(w, e) \/ (e.pc = "lost" /\ UNCHANGED <<jobs, execs>>)
    /\ Released(e)
    /\ UNCHANGED <<asset, media, events, api>>

(* A cancelled handler still runs its shielded cleanup, while a cleanup after *)
(* an error is itself cancelled.                                               *)
MediaHeartbeat(w, e) ==
    /\ Heartbeat(w, e)
    /\ e.pc = "handler" \/ Generating(e)
    /\ IF e.pc = "handler" \/ e \in execs'[w] THEN UNCHANGED generating ELSE Released(e)
    /\ UNCHANGED <<asset, media, events, api>>

(* The handler: it returns when it has finalized, or had nothing to do.       *)
MediaHandlerStep(w, e) ==
    /\ \/ /\ HandlerReturns(w, e)
          /\ ~Generating(e)
          /\ Attempted(e) \/ asset[e.job].status \in Skipped(e.job)
       \/ /\ HandlerRaises(w, e)
          /\ e.pc = "handler" => (Generating(e) \/ ~Attempted(e))
       \/ HandlerDisowned(w, e) /\ Generating(e)
       \/ CheckpointCancels(w, e) /\ (Generating(e) \/ ~Attempted(e))
    /\ UNCHANGED resources

(* ensure_success_consistency settles what it finds unfinished as FAILED.     *)
MediaEnsureSuccess(w, e) ==
    LET consistent == ~HasStarted(e.job) /\ asset[e.job].status \in Finished
    IN  /\ EnsureSuccess(w, e, consistent)
        /\ IF consistent THEN UNCHANGED <<asset, media>>
           ELSE /\ media' = [media EXCEPT ![e.job] = Terminalize(@, DOMAIN @, "FAILED")]
                /\ asset' = [asset EXCEPT ![e.job] = Asset("FAILED", "FAILED")]
        /\ UNCHANGED <<events, generating, api>>

(* The job is settled once the handler task is done.                          *)
MediaSettle(w, e) ==
    /\ ~Generating(e)
    /\ \/ Complete(w, e)
       \/ Fail(w, e)
       \/ MarkCancelled(w, e)
       \/ Abandon(w, e)
       \/ Abort(w, e) /\ (e.pc = "handler" => ~Attempted(e))
    /\ UNCHANGED resources

MediaReconciled(w, e) ==
    /\ Reconciled(w, e)
    /\ Reconcile(e.job, IF e.pc = "reconcile_cancel" THEN "CANCELLED" ELSE "FAILED")
    /\ UNCHANGED <<events, generating, api>>

MediaCrash(w) ==
    /\ Crash(w)
    /\ generating' = [j \in Job |-> generating[j] \ {e.attempt : e \in {x \in execs[w] : x.job = j}}]
    /\ UNCHANGED <<asset, media, events, api>>

(* Neither reclaiming nor leasing a job looks at its asset.                   *)
MediaQueueStep ==
    /\ \/ ReclaimStale
       \/ \E w \in Worker : Lease(w)
       \/ \E j \in Job : LeaseAges(j) \/ BackoffElapses(j)
    /\ UNCHANGED resources

-----------------------------------------------------------------------------
(* Operators and reviewers.                                                  *)

(* The reconciler only follows when the job is now CANCELLED, be it anew.     *)
CancelMedia(j) ==
    /\ Cancel(j) \/ (jobs[j].status = "CANCELLED" /\ UNCHANGED <<jobs, execs>>)
    /\ api' = [api EXCEPT ![j] = IF jobs'[j].status = "CANCELLED"
                                 THEN @ \cup {"cancel"} ELSE @]
    /\ UNCHANGED <<asset, media, events, generating>>

CancelReconciles(j) ==
    /\ "cancel" \in api[j]
    /\ Reconcile(j, "CANCELLED")
    /\ api' = [api EXCEPT ![j] = @ \ {"cancel"}]
    /\ UNCHANGED <<jobs, execs, events, generating>>

RetryMedia(j) ==
    /\ Retry(j)
    /\ api' = [api EXCEPT ![j] = @ \cup {"retry"}]
    /\ UNCHANGED <<asset, media, events, generating>>

(* prepare_retry resets the asset whatever its status has become.             *)
RetryPrepares(j) ==
    /\ "retry" \in api[j]
    /\ asset' = [asset EXCEPT ![j] = Asset("REQUESTED", "PENDING")]
    /\ api' = [api EXCEPT ![j] = @ \ {"retry"}]
    /\ UNCHANGED <<jobs, execs, media, events, generating>>

ApiDies(j) ==
    /\ api[j] # {}
    /\ api' = [api EXCEPT ![j] = {}]
    /\ UNCHANGED <<jobs, execs, asset, media, events, generating>>

(* The decision, its review row and its event are one transaction.  Nobody    *)
(* reviews an asset twice, but another reviewer may (uq_media_reviews_asset_   *)
(* actor).                                                                    *)
Review(j) ==
    /\ asset[j].status = "READY_FOR_REVIEW"
    /\ \E decision \in {"APPROVED", "REJECTED"} :
          /\ asset' = [asset EXCEPT ![j].status = decision]
          /\ events' = [events EXCEPT ![j] = @ \cup {decision}]
    /\ UNCHANGED <<jobs, execs, media, generating, api>>

MediaWorkerStep(w, e) ==
    \/ StartAttempt(w, e) \/ Finalize(w, e) \/ FinalizeRefused(w, e)
    \/ Cleanup(w, e) \/ CleanupLost(w, e)
    \/ MediaHeartbeat(w, e) \/ MediaHandlerStep(w, e)
    \/ MediaEnsureSuccess(w, e) \/ MediaSettle(w, e) \/ MediaReconciled(w, e)

MediaJobStep(j) ==
    \/ Request(j) \/ Review(j)
    \/ CancelMedia(j) \/ CancelReconciles(j)
    \/ RetryMedia(j) \/ RetryPrepares(j) \/ ApiDies(j)

(* The kind of an asset is the type of the job requested for it, for ever.   *)
MediaNext ==
    /\ \/ MediaQueueStep
       \/ \E w \in Worker : MediaCrash(w)
       \/ \E w \in Worker : \E e \in execs[w] : MediaWorkerStep(w, e)
       \/ \E j \in Job : MediaJobStep(j)
    /\ UNCHANGED storyboards

MediaSpec == MediaInit /\ [][MediaNext]_mediaVars

-----------------------------------------------------------------------------
(* PROPERTIES                                                               *)

(* Asset and task tell the same story although five transactions in two       *)
(* processes, some of them without a lock, write both (media/service.py,      *)
(* jobs/lifecycle.py) and a review writes only one.                            *)
AssetAndTaskAgree ==
    \A j \in Job :
        asset[j].task = CASE asset[j].status = "REQUESTED" -> "PENDING"
                          [] asset[j].status = "GENERATING" -> "PROCESSING"
                          [] asset[j].status \in Finished -> "COMPLETED"
                          [] OTHER -> asset[j].status

(* Whatever a user sees as produced was produced: an asset up for review or   *)
(* reviewed, and a job that SUCCEEDED, have a COMPLETED attempt and were       *)
(* announced, however attempts, reconciliations and retries overlapped.        *)
OutputIsRecorded ==
    \A j \in Job :
        asset[j].status \in Finished \/ jobs[j].status = "SUCCEEDED"
        => /\ "READY" \in events[j]
           /\ \E i \in DOMAIN media[j] : media[j][i].status = "COMPLETED"

(* The rows are well typed, and the audit of media attempts agrees with that  *)
(* of the job: no job attempt calls the provider twice, and a row names the    *)
(* worker that leased it.                                                      *)
MediaAttemptsAudit ==
    /\ MediaTypeOK
    /\ \A j \in Job : \A i \in DOMAIN media[j] :
          LET row == media[j][i]
          IN  /\ RowsOf(j, row.attempt) = {i}
              /\ row.attempt <= jobs[j].attempt_count
              /\ jobs[j].attempts[row.attempt].worker = row.worker

(* "A stale worker cannot write success or an outbox event"                   *)
(* (docs/media-workflow-guide.md): an attempt completes only while it is the   *)
(* open attempt of its job, the asset becomes ready only with it, and no       *)
(* closed attempt is ever written again.                                       *)
StaleCannotSucceed ==
    [][\A j \in Job :
        /\ asset[j].status # "READY_FOR_REVIEW" /\ asset'[j].status = "READY_FOR_REVIEW"
             => media'[j] # media[j]
        /\ \A i \in DOMAIN media[j] : media'[j][i] # media[j][i] =>
             /\ media[j][i].status = "STARTED"
             /\ media'[j][i].status = "COMPLETED" =>
                  /\ media[j][i].attempt = jobs[j].attempt_count
                  /\ jobs[j].status = "RUNNING"
                  /\ jobs[j].locked_by = media[j][i].worker]_mediaVars

(* "No media attempt remains STARTED after a terminal job state"              *)
(* (docs/media-workflow-guide.md), once everything under way has ended.  The   *)
(* code does not have this property: see Known behaviour in the README.        *)
TerminalJobsCloseAttempts ==
    \A j \in Job :
        /\ jobs[j].status \in {"SUCCEEDED", "DEAD_LETTER", "CANCELLED"}
        /\ api[j] = {}
        /\ \A w \in Worker : \A e \in execs[w] : e.job # j
        => ~HasStarted(j)
=============================================================================
