---------------------------- MODULE MediaProofs ----------------------------
(***************************************************************************)
(* Proofs about MediaGeneration for any sets of jobs and workers and any    *)
(* bounds.  Job and worker steps are those of JobQueue, so the queue's      *)
(* invariant holds here; on the side of the asset it is enough to look at    *)
(* what a step may write (MediaSound), one group of actions at a time.      *)
(***************************************************************************)
EXTENDS MediaGeneration, JobQueueProofs

MediaTypes ==
    /\ asset \in [Job -> [status : AssetStatus, task : TaskStatus]]
    /\ media \in [Job -> Seq(MediaAttempt)]
    /\ events \in [Job -> SUBSET {"READY", "APPROVED", "REJECTED"}]
    /\ generating \in [Job -> SUBSET (1..AttemptLimit)]
    /\ api \in [Job -> SUBSET {"retry", "cancel"}]
    /\ storyboards \subseteq Job

(* The task that goes with the status of an asset.                           *)
TaskOf(s) == CASE s = "REQUESTED" -> "PENDING"
               [] s = "GENERATING" -> "PROCESSING"
               [] s \in Finished -> "COMPLETED"
               [] OTHER -> s

(* An output was produced for the job and announced.                         *)
Out(j) ==
    /\ "READY" \in events[j]
    /\ \E i \in DOMAIN media[j] : media[j][i].status = "COMPLETED"

(* The reconciler has found the asset finished.                              *)
Checked(j) == \E w \in Worker : \E e \in execs[w] : e.job = j /\ e.pc = "checked"

(* A media attempt is that of a job attempt, alone, with its worker.          *)
RowSound(j, i) ==
    LET row == media[j][i]
    IN  /\ \A k \in DOMAIN media[j] : media[j][k].attempt = row.attempt => k = i
        /\ row.attempt <= jobs[j].attempt_count
        /\ jobs[j].attempts[row.attempt].worker = row.worker

(* Beside the properties themselves: a job that may yet succeed has its       *)
(* output, and a coroutine that owes its row an end has a row.                *)
MediaInv ==
    /\ Inv
    /\ MediaTypes
    /\ \A j \in Job : asset[j].task = TaskOf(asset[j].status)
    /\ \A j \in Job : \A i \in DOMAIN media[j] : RowSound(j, i)
    /\ \A j \in Job : \A n \in generating[j] :
          \E i \in DOMAIN media[j] : media[j][i].attempt = n
    /\ \A j \in Job :
          asset[j].status \in Finished \/ jobs[j].status = "SUCCEEDED" \/ Checked(j)
          => Out(j)

-----------------------------------------------------------------------------
(* The queue is left as it is, or takes a step of its own.                   *)

LEMMA MediaCoroutineIsQueueStep ==
  ASSUME NEW w \in Worker, NEW e \in execs[w],
         Heartbeat(w, e) \/ ExecStep(w, e) \/ CleanupFails(w, e) \/ Abort(w, e)
  PROVE  Next
  BY DEF WorkerStep, Next

LEMMA MediaOperatorIsQueueStep ==
  ASSUME NEW j \in Job, JobStep(j)
  PROVE  Next
  BY DEF Next

(* Every action of MediaGeneration is a step of JobQueue, or none.            *)
LEMMA MediaStepIsQueueStep ==
  ASSUME [MediaNext]_mediaVars
  PROVE  [Next]_vars
<1>1. CASE MediaQueueStep
  BY <1>1 DEF MediaQueueStep, Next, WorkerStep, JobStep
<1>2. ASSUME NEW w \in Worker, MediaCrash(w)
      PROVE  Next
  BY <1>2 DEF MediaCrash, Next, WorkerStep
<1>3. ASSUME NEW w \in Worker, NEW e \in execs[w], MediaWorkerStep(w, e)
      PROVE  [Next]_vars
  <2>1. CASE StartAttempt(w, e) \/ Finalize(w, e) \/ Cleanup(w, e)
    BY <2>1 DEF StartAttempt, Finalize, Cleanup, vars
  <2>2. CASE FinalizeRefused(w, e)
    <3>1. HandlerRaises(w, e)
      BY <2>2 DEF FinalizeRefused, HandlerRaises
    <3>2. QED
      BY <3>1, MediaCoroutineIsQueueStep DEF ExecStep
  <2>3. CASE CleanupLost(w, e)
    BY <2>3, MediaCoroutineIsQueueStep DEF CleanupLost, vars
  <2>4. CASE MediaHeartbeat(w, e)
    BY <2>4, MediaCoroutineIsQueueStep DEF MediaHeartbeat
  <2>5. CASE MediaHandlerStep(w, e)
    BY <2>5, MediaCoroutineIsQueueStep DEF MediaHandlerStep, ExecStep
  <2>6. CASE MediaEnsureSuccess(w, e)
    <3>1. \E consistent \in BOOLEAN : EnsureSuccess(w, e, consistent)
      BY <2>6 DEF MediaEnsureSuccess
    <3>2. QED
      BY <3>1, MediaCoroutineIsQueueStep DEF ExecStep
  <2>7. CASE MediaSettle(w, e)
    BY <2>7, MediaCoroutineIsQueueStep DEF MediaSettle, ExecStep
  <2>8. CASE MediaReconciled(w, e)
    BY <2>8, MediaCoroutineIsQueueStep DEF MediaReconciled, ExecStep
  <2>9. QED
    BY <1>3, <2>1, <2>2, <2>3, <2>4, <2>5, <2>6, <2>7, <2>8 DEF MediaWorkerStep
<1>4. ASSUME NEW j \in Job, MediaJobStep(j)
      PROVE  [Next]_vars
  <2>1. CASE Request(j) \/ CancelMedia(j) \/ RetryMedia(j)
    BY <2>1, MediaOperatorIsQueueStep DEF Request, CancelMedia, RetryMedia, JobStep, vars
  <2>2. CASE Review(j) \/ CancelReconciles(j) \/ RetryPrepares(j) \/ ApiDies(j)
    BY <2>2 DEF Review, CancelReconciles, RetryPrepares, ApiDies, vars
  <2>3. QED
    BY <1>4, <2>1, <2>2 DEF MediaJobStep
<1>5. CASE UNCHANGED mediaVars
  BY <1>5 DEF mediaVars, vars
<1>6. QED
  BY <1>1, <1>2, <1>3, <1>4, <1>5 DEF MediaNext

(* Everything proved of the queue holds of the queue under the assets.       *)
THEOREM MediaIsAQueue == MediaSpec => Spec
<1>1. MediaInit => Init
  BY DEF MediaInit
<1>2. [MediaNext]_mediaVars => [Next]_vars
  BY MediaStepIsQueueStep
<1>3. QED
  BY <1>1, <1>2, PTL DEF MediaSpec, Spec

-----------------------------------------------------------------------------
(* Who becomes checked.                                                      *)

NobodyChecked == \A j \in Job : Checked(j)' => Checked(j)

(* A coroutine that moves on, but not past the consistency check.            *)
LEMMA GotoChecksNobody ==
  ASSUME execs \in [Worker -> SUBSET Exec], NEW w \in Worker, NEW e \in execs[w],
         NEW pc, pc # "checked", Goto(w, e, pc)
  PROVE  NobodyChecked
<1> DEFINE g == [e EXCEPT !.pc = pc]
<1>1. e \in Exec
  OBVIOUS
<1>2. g.pc = pc
  BY <1>1 DEF Exec
<1>3. /\ \A v \in Worker : v # w => execs'[v] = execs[v]
      /\ execs'[w] = (execs[w] \ {e}) \cup {g}
  BY DEF Goto
<1> HIDE DEF g
<1>4. \A v \in Worker : \A f \in execs'[v] : f.pc = "checked" => f \in execs[v]
  BY <1>2, <1>3
<1>5. QED
  BY <1>4 DEF NobodyChecked, Checked

(* A coroutine that ends, with or without an exception.                       *)
LEMMA LeaveChecksNobody ==
  ASSUME execs \in [Worker -> SUBSET Exec], NEW w \in Worker, NEW e \in execs[w],
         Leave(w, e)
  PROVE  NobodyChecked
<1>1. \A v \in Worker : v # w => execs'[v] = execs[v]
  BY DEF Leave, Finish, Raise
<1>2. ASSUME NEW f \in execs'[w]
      PROVE  \E x \in execs[w] : f.job = x.job /\ f.pc = x.pc
  <2>1. CASE execs'[w] = execs[w] \ {e}
    BY <1>2, <2>1
  <2>2. CASE execs'[w] = {[x EXCEPT !.awaited = FALSE] : x \in execs[w] \ {e}}
    <3>1. PICK x \in execs[w] \ {e} : f = [x EXCEPT !.awaited = FALSE]
      BY <1>2, <2>2
    <3>2. x \in Exec
      OBVIOUS
    <3>3. f.job = x.job /\ f.pc = x.pc
      BY <3>1, <3>2 DEF Exec
    <3>4. QED
      BY <3>3
  <2>3. QED
    BY <2>1, <2>2 DEF Leave, Finish, Raise
<1>3. \A v \in Worker : \A f \in execs'[v] : \E x \in execs[v] : f.job = x.job /\ f.pc = x.pc
  BY <1>1, <1>2
<1>4. QED
  BY <1>3 DEF NobodyChecked, Checked

(* Leasing, crashing, reclaiming, time and the operators check nobody.       *)
LEMMA QueueStepsCheckNobody ==
  ASSUME execs \in [Worker -> SUBSET Exec],
         \/ ReclaimStale
         \/ \E w \in Worker : Lease(w) \/ Crash(w)
         \/ \E j \in Job : JobStep(j)
  PROVE  NobodyChecked
<1>1. ASSUME NEW w \in Worker, Lease(w)
      PROVE  NobodyChecked
  <2>1. PICK S \in SUBSET {j \in Job : Leasable(jobs[j])} :
            execs' = [execs EXCEPT ![w] = execs[w] \cup
                  {Started(j, jobs[j].attempt_count + 1) : j \in S \ UnknownTypeJob}]
    BY <1>1 DEF Lease
  <2>2. /\ \A v \in Worker : v # w => execs'[v] = execs[v]
        /\ \A f \in execs'[w] : f \in execs[w] \/ f.pc = "handler"
    BY <2>1 DEF Started
  <2>3. QED
    BY <2>2 DEF NobodyChecked, Checked
<1>2. ASSUME NEW w \in Worker, Crash(w)
      PROVE  NobodyChecked
  <2>1. \A v \in Worker : execs'[v] \subseteq execs[v]
    BY <1>2 DEF Crash
  <2>2. QED
    BY <2>1 DEF NobodyChecked, Checked
<1>3. CASE UNCHANGED execs
  BY <1>3 DEF NobodyChecked, Checked
<1>4. QED
  BY <1>1, <1>2, <1>3
  DEF ReclaimStale, JobStep, Enqueue, Cancel, Retry, LeaseAges, BackoffElapses

(* Nor does a coroutine, but for the consistency check.                      *)
LEMMA CoroutineStepsCheckNobody ==
  ASSUME Inv, NEW w \in Worker, NEW e \in execs[w],
         \/ Heartbeat(w, e) \/ HandlerReturns(w, e) \/ HandlerRaises(w, e)
         \/ HandlerDisowned(w, e) \/ CheckpointCancels(w, e) \/ CleanupFails(w, e)
         \/ Complete(w, e) \/ Fail(w, e) \/ MarkCancelled(w, e) \/ Reconciled(w, e)
         \/ Abandon(w, e) \/ Abort(w, e)
  PROVE  NobodyChecked
<1>1. execs \in [Worker -> SUBSET Exec]
  BY DEF Inv, QueueInv, TypeOK
<1>2. ASSUME UNCHANGED execs PROVE NobodyChecked
  BY <1>2 DEF NobodyChecked, Checked
<1>3. ASSUME NEW pc, pc # "checked", Goto(w, e, pc) PROVE NobodyChecked
  BY <1>1, <1>3, GotoChecksNobody
<1>4. ASSUME Leave(w, e) PROVE NobodyChecked
  BY <1>1, <1>4, LeaveChecksNobody
<1>5. CASE Heartbeat(w, e)
  <2>1. UNCHANGED execs \/ Goto(w, e, "cancelling") \/ Goto(w, e, "lost")
    BY <1>5 DEF Heartbeat
  <2>2. QED
    BY <1>2, <1>3, <2>1
<1>6. CASE \/ HandlerReturns(w, e) \/ HandlerRaises(w, e) \/ HandlerDisowned(w, e)
           \/ CheckpointCancels(w, e) \/ CleanupFails(w, e)
  <2>1. \E pc \in {"returned", "fail_retry", "fail_final", "unowned", "cancelling"} :
           Goto(w, e, pc)
    BY <1>6
    DEF HandlerReturns, HandlerRaises, HandlerDisowned, CheckpointCancels, CleanupFails
  <2>2. QED
    BY <1>3, <2>1
<1>7. CASE Complete(w, e) \/ Fail(w, e) \/ MarkCancelled(w, e)
  <2>1. Leave(w, e) \/ \E pc \in {"fail_retry", "reconcile_fail", "reconcile_cancel"} :
                          Goto(w, e, pc)
    BY <1>7 DEF Complete, Fail, MarkCancelled, Leave
  <2>2. QED
    BY <1>3, <1>4, <2>1
<1>8. CASE Reconciled(w, e) \/ Abandon(w, e) \/ Abort(w, e)
  BY <1>4, <1>8 DEF Reconciled, Abandon, Abort, Leave
<1>9. QED
  BY <1>5, <1>6, <1>7, <1>8

-----------------------------------------------------------------------------
(* What a step may do to assets and media attempts.                          *)

(* The attempt is the open one of its job.                                   *)
Current(j, row) ==
    /\ row.attempt = jobs[j].attempt_count
    /\ jobs[j].status = "RUNNING"
    /\ jobs[j].locked_by = row.worker

Rewrites(j, row, new) ==
    /\ new.attempt = row.attempt /\ new.worker = row.worker
    /\ new # row => /\ row.status = "STARTED"
                    /\ new.status = "COMPLETED" => Current(j, row)

RowsKept(j) ==
    /\ DOMAIN media'[j] = DOMAIN media[j]
    /\ \A i \in DOMAIN media[j] : Rewrites(j, media[j][i], media'[j][i])

RowAdded(j) ==
    \E w \in Worker, n \in 1..AttemptLimit :
        /\ \A i \in DOMAIN media[j] : media[j][i].attempt # n
        /\ n <= jobs[j].attempt_count
        /\ jobs[j].attempts[n].worker = w
        /\ media'[j] = Append(media[j], [worker |-> w, attempt |-> n, status |-> "STARTED"])

MediaSound ==
    /\ MediaTypes'
    /\ \A j \in Job : asset'[j].task = TaskOf(asset'[j].status)
    /\ \A j \in Job : RowsKept(j) \/ RowAdded(j)
    /\ \A j \in Job : \A n \in generating'[j] :
          n \in generating[j] \/ \E i \in DOMAIN media'[j] : media'[j][i].attempt = n
    /\ \A j \in Job : events[j] \subseteq events'[j]
    /\ \A j \in Job : asset'[j].status \in Finished => asset[j].status \in Finished \/ Out(j)'
    /\ \A j \in Job :
          asset[j].status # "READY_FOR_REVIEW" /\ asset'[j].status = "READY_FOR_REVIEW"
          => media'[j] # media[j]
    /\ \A j \in Job : jobs'[j].status = "SUCCEEDED"
          => jobs[j].status = "SUCCEEDED" \/ Checked(j)
    /\ \A j \in Job : Checked(j)' => Checked(j) \/ asset[j].status \in Finished

LEMMA MediaSoundKeepsInv ==
  ASSUME MediaInv, [Next]_vars, MediaSound
  PROVE  MediaInv'
<1>1. Inv /\ Inv' /\ MediaTypes /\ MediaTypes'
  BY InvNext DEF MediaInv, MediaSound
<1>2. ASSUME NEW j \in Job
      PROVE  \A i \in DOMAIN media[j] :
               /\ i \in DOMAIN media'[j]
               /\ Rewrites(j, media[j][i], media'[j][i])
  <2>1. CASE RowsKept(j)
    BY <2>1 DEF RowsKept
  <2>2. CASE RowAdded(j)
    <3>1. PICK w \in Worker, n \in 1..AttemptLimit :
             media'[j] = Append(media[j], [worker |-> w, attempt |-> n, status |-> "STARTED"])
      BY <2>2 DEF RowAdded
    <3>2. media[j] \in Seq(MediaAttempt)
      BY <1>1 DEF MediaTypes
    <3>3. \A i \in DOMAIN media[j] : i \in DOMAIN media'[j] /\ media'[j][i] = media[j][i]
      BY <3>1, <3>2
    <3>4. QED
      BY <3>3 DEF Rewrites
  <2>3. QED
    BY <2>1, <2>2 DEF MediaSound
<1>3. \A j \in Job : Out(j) => Out(j)'
  <2>1. ASSUME NEW j \in Job, NEW i \in DOMAIN media[j], media[j][i].status = "COMPLETED"
        PROVE  i \in DOMAIN media'[j] /\ media'[j][i].status = "COMPLETED"
    BY <1>2, <2>1 DEF Rewrites
  <2>2. QED
    BY <2>1 DEF Out, MediaSound
<1>4. \A j \in Job : \A n \in generating'[j] :
          \E i \in DOMAIN media'[j] : media'[j][i].attempt = n
  <2>1. ASSUME NEW j \in Job, NEW n \in generating[j]
        PROVE  \E i \in DOMAIN media'[j] : media'[j][i].attempt = n
    <3>1. PICK i \in DOMAIN media[j] : media[j][i].attempt = n
      BY DEF MediaInv
    <3>2. i \in DOMAIN media'[j] /\ media'[j][i].attempt = n
      BY <1>2, <3>1 DEF Rewrites
    <3>3. QED
      BY <3>2
  <2>2. QED
    BY <2>1 DEF MediaSound
<1>5. \A j \in Job :
          asset'[j].status \in Finished \/ jobs'[j].status = "SUCCEEDED" \/ Checked(j)'
          => Out(j)'
  BY <1>3 DEF MediaInv, MediaSound
<1>6. ASSUME NEW j \in Job, NEW i \in DOMAIN media'[j]
      PROVE  RowSound(j, i)'
  <2>0. /\ \A k \in DOMAIN media[j] : media[j][k] \in MediaAttempt
        /\ media[j] \in Seq(MediaAttempt)
    BY <1>1 DEF MediaTypes
  <2>1. ASSUME NEW k \in DOMAIN media[j]
        PROVE  /\ media[j][k].attempt \in 1..AttemptLimit
               /\ media[j][k].attempt <= jobs'[j].attempt_count
               /\ jobs'[j].attempts[media[j][k].attempt].worker = media[j][k].worker
    <3>1. media[j][k].attempt \in 1..AttemptLimit
      BY <2>0 DEF MediaAttempt
    <3>2. RowSound(j, k)
      BY DEF MediaInv
    <3>3. QED
      BY <1>1, <3>1, <3>2, AttemptsStay DEF Inv, RowSound
  <2>2. CASE RowsKept(j)
    <3>1. i \in DOMAIN media[j] /\ RowSound(j, i)
      BY <2>2 DEF RowsKept, MediaInv
    <3>2. /\ DOMAIN media'[j] = DOMAIN media[j]
          /\ \A k \in DOMAIN media[j] : /\ media'[j][k].attempt = media[j][k].attempt
                                        /\ media'[j][k].worker = media[j][k].worker
      BY <2>2 DEF RowsKept, Rewrites
    <3>3. QED
      BY <2>1, <3>1, <3>2 DEF RowSound
  <2>3. CASE RowAdded(j)
    <3>1. PICK w \in Worker, n \in 1..AttemptLimit :
             /\ \A k \in DOMAIN media[j] : media[j][k].attempt # n
             /\ n <= jobs[j].attempt_count
             /\ jobs[j].attempts[n].worker = w
             /\ media'[j] = Append(media[j],
                               [worker |-> w, attempt |-> n, status |-> "STARTED"])
      BY <2>3 DEF RowAdded
    <3> DEFINE row == [worker |-> w, attempt |-> n, status |-> "STARTED"]
               last == Len(media[j]) + 1
    <3>2. row.worker = w /\ row.attempt = n
      OBVIOUS
    <3>3. /\ media'[j] = Append(media[j], row)
      BY <3>1
    <3> HIDE DEF row
    <3>4. /\ DOMAIN media'[j] = DOMAIN media[j] \cup {last}
          /\ last \notin DOMAIN media[j]
          /\ media'[j][last] = row
          /\ \A k \in DOMAIN media[j] : media'[j][k] = media[j][k]
      BY <2>0, <3>3
    <3> HIDE DEF last
    <3>5. /\ n <= jobs'[j].attempt_count
          /\ jobs'[j].attempts[n].worker = w
      BY <1>1, <3>1, AttemptsStay DEF Inv
    <3>6. CASE i = last
      BY <3>1, <3>2, <3>4, <3>5, <3>6 DEF RowSound
    <3>7. CASE i \in DOMAIN media[j]
      <4>1. RowSound(j, i)
        BY <3>7 DEF MediaInv
      <4>2. media'[j][i] = media[j][i] /\ media[j][i].attempt # n
        BY <3>1, <3>4, <3>7
      <4>3. \A k \in DOMAIN media'[j] : media'[j][k].attempt = media'[j][i].attempt => k = i
        BY <3>2, <3>4, <3>7, <4>1, <4>2 DEF RowSound
      <4>4. QED
        BY <2>1, <3>7, <4>2, <4>3 DEF RowSound
    <3>8. QED
      BY <3>4, <3>6, <3>7
  <2>4. QED
    BY <2>2, <2>3 DEF MediaSound
<1>7. QED
  BY <1>1, <1>4, <1>5, <1>6 DEF MediaInv, MediaSound

-----------------------------------------------------------------------------
(* The part of MediaSound that says nothing of assets and attempts.          *)
Bookkeeping ==
    /\ UNCHANGED storyboards
    /\ generating' \in [Job -> SUBSET (1..AttemptLimit)]
    /\ \A j \in Job : generating'[j] \subseteq generating[j]
    /\ api' \in [Job -> SUBSET {"retry", "cancel"}]
    /\ \A j \in Job : jobs'[j].status = "SUCCEEDED"
          => jobs[j].status = "SUCCEEDED" \/ Checked(j)
    /\ \A j \in Job : Checked(j)' => Checked(j) \/ asset[j].status \in Finished

LEMMA QuietIsSound ==
  ASSUME MediaInv, Bookkeeping, UNCHANGED <<asset, media, events>>
  PROVE  MediaSound
<1>1. MediaTypes /\ \A j \in Job : asset[j].task = TaskOf(asset[j].status)
  BY DEF MediaInv
<1>2. MediaTypes'
  BY <1>1 DEF MediaTypes, Bookkeeping
<1>3. \A j \in Job : RowsKept(j)
  BY DEF RowsKept, Rewrites
<1>4. QED
  BY <1>1, <1>2, <1>3 DEF MediaSound, Bookkeeping

(* _mark_terminal keeps what it does not close, and completes nothing.        *)
LEMMA TerminalizedRows ==
  ASSUME NEW rows \in Seq(MediaAttempt), NEW I, NEW s \in {"FAILED", "CANCELLED"}
  PROVE  /\ Terminalize(rows, I, s) \in Seq(MediaAttempt)
         /\ DOMAIN Terminalize(rows, I, s) = DOMAIN rows
         /\ \A i \in DOMAIN rows :
              LET new == Terminalize(rows, I, s)[i]
              IN  /\ new.attempt = rows[i].attempt /\ new.worker = rows[i].worker
                  /\ new # rows[i] => rows[i].status = "STARTED" /\ new.status # "COMPLETED"
<1> DEFINE t == Terminalize(rows, I, s)
           new(i) == IF i \in I /\ rows[i].status = "STARTED"
                     THEN [rows[i] EXCEPT !.status = s] ELSE rows[i]
<1>1. t = [i \in 1..Len(rows) |-> new(i)] /\ DOMAIN rows = 1..Len(rows) /\ Len(rows) \in Nat
  BY DEF Terminalize
<1>2. ASSUME NEW i \in 1..Len(rows)
      PROVE  /\ new(i) \in MediaAttempt
             /\ new(i).attempt = rows[i].attempt /\ new(i).worker = rows[i].worker
             /\ new(i) # rows[i] => rows[i].status = "STARTED" /\ new(i).status # "COMPLETED"
  <2>1. rows[i] \in MediaAttempt
    BY <1>1
  <2>2. QED
    BY <2>1 DEF MediaAttempt
<1> HIDE DEF t, new
<1>3. t \in [1..Len(rows) -> MediaAttempt]
  BY <1>1, <1>2
<1>4. t \in Seq(MediaAttempt)
  BY <1>1, <1>3
<1>5. \A i \in DOMAIN rows : t[i] = new(i)
  BY <1>1
<1>6. DOMAIN t = DOMAIN rows
  BY <1>1
<1>7. QED
  BY <1>1, <1>2, <1>4, <1>5, <1>6 DEF t

LEMMA AssetTypes ==
  ASSUME MediaTypes, NEW j \in Job, NEW s \in AssetStatus, NEW a,
         a = Asset(s, TaskOf(s)), asset' = [asset EXCEPT ![j] = a]
  PROVE  /\ asset' \in [Job -> [status : AssetStatus, task : TaskStatus]]
         /\ asset'[j].status = s
         /\ \A i \in Job : i # j => asset'[i] = asset[i]
         /\ asset'[j].task = TaskOf(asset'[j].status)
<1>1. TaskOf(s) \in TaskStatus
  BY DEF TaskOf, TaskStatus, AssetStatus, Finished
<1>2. a \in [status : AssetStatus, task : TaskStatus] /\ a.status = s /\ a.task = TaskOf(s)
  BY <1>1 DEF Asset
<1>3. QED
  BY <1>2 DEF MediaTypes

(* Closing attempts, with or without failing or cancelling the asset.        *)
LEMMA TerminalizeIsSound ==
  ASSUME MediaInv, Bookkeeping, UNCHANGED events,
         NEW j \in Job, NEW I, NEW s \in {"FAILED", "CANCELLED"},
         media' = [media EXCEPT ![j] = Terminalize(media[j], I, s)],
         UNCHANGED asset \/ asset' = [asset EXCEPT ![j] = Asset(s, s)]
  PROVE  MediaSound
<1>1. MediaTypes /\ \A i \in Job : asset[i].task = TaskOf(asset[i].status)
  BY DEF MediaInv
<1> DEFINE t == Terminalize(media[j], I, s)
<1>2. /\ t \in Seq(MediaAttempt) /\ DOMAIN t = DOMAIN media[j]
      /\ \A i \in DOMAIN media[j] :
           /\ t[i].attempt = media[j][i].attempt /\ t[i].worker = media[j][i].worker
           /\ t[i] # media[j][i] => media[j][i].status = "STARTED" /\ t[i].status # "COMPLETED"
  BY <1>1, TerminalizedRows DEF MediaTypes
<1>3. media' = [media EXCEPT ![j] = t]
  OBVIOUS
<1> HIDE DEF t
<1>4. /\ media' \in [Job -> Seq(MediaAttempt)]
      /\ media'[j] = t /\ \A i \in Job : i # j => media'[i] = media[i]
  BY <1>1, <1>2, <1>3 DEF MediaTypes
<1>5. \A i \in Job : RowsKept(i)
  BY <1>2, <1>4 DEF RowsKept, Rewrites
<1>6. /\ asset' \in [Job -> [status : AssetStatus, task : TaskStatus]]
      /\ \A i \in Job : asset'[i].task = TaskOf(asset'[i].status)
      /\ \A i \in Job : asset'[i].status \in Finished => asset'[i] = asset[i]
  <2>1. CASE UNCHANGED asset
    BY <1>1, <2>1 DEF MediaTypes
  <2>2. CASE asset' = [asset EXCEPT ![j] = Asset(s, s)]
    <3>1. s \in AssetStatus /\ TaskOf(s) = s /\ s \notin Finished
      BY DEF AssetStatus, TaskOf, Finished
    <3>2. Asset(s, s) = Asset(s, TaskOf(s))
      BY <3>1
    <3>3. QED
      BY <1>1, <2>2, <3>1, <3>2, AssetTypes
  <2>3. QED
    BY <2>1, <2>2
<1>7. MediaTypes'
  BY <1>1, <1>4, <1>6 DEF MediaTypes, Bookkeeping
<1>8. "READY_FOR_REVIEW" \in Finished
  BY DEF Finished
<1>9. QED
  BY <1>5, <1>6, <1>7, <1>8 DEF MediaSound, Bookkeeping

(* The row an attempt has, which is the only one of its number.              *)
LEMMA NumberOfAttempt ==
  ASSUME MediaInv, NEW e, e.job \in Job, Attempted(e)
  PROVE  /\ Number(e) \in DOMAIN media[e.job]
         /\ media[e.job][Number(e)].attempt = e.attempt
<1> DEFINE R == RowsOf(e.job, e.attempt)
<1>1. PICK i \in DOMAIN media[e.job] : media[e.job][i].attempt = e.attempt
  BY DEF Attempted, RowsOf
<1>2. R = {i}
  BY <1>1 DEF MediaInv, RowSound, RowsOf
<1>3. i \in Nat
  BY DEF MediaInv, MediaTypes
<1> HIDE DEF R
<1>4. Max(R) = i
  BY <1>2, <1>3 DEF Max
<1>5. QED
  BY <1>1, <1>4 DEF Number, R

-----------------------------------------------------------------------------
(* One lemma per group of actions.                                           *)

(* Nothing of the queue changes, so nobody succeeds.                         *)
LEMMA QueueAtRest ==
  ASSUME UNCHANGED <<jobs, execs>>
  PROVE  /\ \A j \in Job : jobs'[j].status = "SUCCEEDED" => jobs[j].status = "SUCCEEDED"
         /\ NobodyChecked
  BY DEF NobodyChecked, Checked

(* What a coroutine releases is one of the attempts of its job.              *)
LEMMA ReleaseKeepsTypes ==
  ASSUME MediaTypes, NEW e, e.job \in Job, Released(e) \/ UNCHANGED generating
  PROVE  /\ generating' \in [Job -> SUBSET (1..AttemptLimit)]
         /\ \A j \in Job : generating'[j] \subseteq generating[j]
<1>1. generating \in [Job -> SUBSET (1..AttemptLimit)]
  BY DEF MediaTypes
<1>2. CASE UNCHANGED generating
  BY <1>1, <1>2
<1>3. CASE Released(e)
  <2> DEFINE G == generating[e.job] \ {e.attempt}
  <2>1. generating' = [generating EXCEPT ![e.job] = G]
    BY <1>3 DEF Released
  <2>2. G \subseteq generating[e.job] /\ G \in SUBSET (1..AttemptLimit)
    BY <1>1
  <2> HIDE DEF G
  <2>3. QED
    BY <1>1, <2>1, <2>2
<1>4. QED
  BY <1>2, <1>3

LEMMA MediaQueueStepSound ==
  ASSUME MediaInv, UNCHANGED storyboards,
         MediaQueueStep \/ \E w \in Worker : MediaCrash(w)
  PROVE  MediaSound
<1>1. Inv /\ MediaTypes /\ execs \in [Worker -> SUBSET Exec]
  BY DEF MediaInv, Inv, QueueInv, TypeOK
<1>2. NothingFinishes /\ NobodyChecked
  BY <1>1, QueueStepsFinishNothing, QueueStepsCheckNobody
  DEF MediaQueueStep, MediaCrash, JobStep
<1>3. UNCHANGED <<asset, media, events, api>>
  BY DEF MediaQueueStep, MediaCrash, resources
<1>4. /\ generating' \in [Job -> SUBSET (1..AttemptLimit)]
      /\ \A j \in Job : generating'[j] \subseteq generating[j]
  BY <1>1 DEF MediaQueueStep, MediaCrash, resources, MediaTypes
<1>5. Bookkeeping
  BY <1>1, <1>2, <1>3, <1>4 DEF Bookkeeping, NothingFinishes, NobodyChecked, MediaTypes
<1>6. QED
  BY <1>3, <1>5, QuietIsSound

(* Steps of a coroutine that write neither asset nor attempt.                *)
LEMMA QuietCoroutinesSound ==
  ASSUME MediaInv, UNCHANGED storyboards, NEW w \in Worker, NEW e \in execs[w],
         \/ FinalizeRefused(w, e) \/ CleanupLost(w, e) \/ MediaHeartbeat(w, e)
         \/ MediaHandlerStep(w, e) \/ MediaSettle(w, e)
  PROVE  MediaSound
<1>1. Inv /\ MediaTypes /\ e.job \in Job
  BY DEF MediaInv, Inv, QueueInv, TypeOK, Exec
<1>2. /\ UNCHANGED <<asset, media, events, api>>
      /\ Released(e) \/ UNCHANGED generating
  BY DEF FinalizeRefused, CleanupLost, MediaHeartbeat, MediaHandlerStep, MediaSettle, resources
<1>3. \/ UNCHANGED <<jobs, execs>>
      \/ HandlerReturns(w, e)
      \/ Complete(w, e)
      \/ \/ Heartbeat(w, e) \/ HandlerRaises(w, e) \/ HandlerDisowned(w, e)
         \/ CheckpointCancels(w, e) \/ CleanupFails(w, e)
         \/ Fail(w, e) \/ MarkCancelled(w, e) \/ Abandon(w, e) \/ Abort(w, e)
  BY DEF FinalizeRefused, HandlerRaises, CleanupLost, MediaHeartbeat, MediaHandlerStep,
         MediaSettle
<1>4. NobodyChecked
  BY <1>1, <1>3, QueueAtRest, CoroutineStepsCheckNobody
<1>5. \A j \in Job : jobs'[j].status = "SUCCEEDED" => jobs[j].status = "SUCCEEDED" \/ Checked(j)
  <2>1. CASE UNCHANGED jobs
    BY <2>1
  <2>2. CASE HandlerReturns(w, e)
    BY <2>1, <2>2 DEF HandlerReturns
  <2>3. CASE Complete(w, e)
    <3>1. /\ e.pc = "checked"
          /\ \A j \in Job : jobs'[j].status = "SUCCEEDED"
               => jobs[j].status = "SUCCEEDED" \/ j = e.job
      BY <1>1, <2>3, CompleteFinishesItsJob
    <3>2. Checked(e.job)
      BY <3>1 DEF Checked
    <3>3. QED
      BY <3>1, <3>2
  <2>4. CASE \/ Heartbeat(w, e) \/ HandlerRaises(w, e) \/ HandlerDisowned(w, e)
             \/ CheckpointCancels(w, e) \/ CleanupFails(w, e)
             \/ Fail(w, e) \/ MarkCancelled(w, e) \/ Abandon(w, e) \/ Abort(w, e)
    <3>1. NothingFinishes
      BY <1>1, <2>4, ExecStepsFinishNothing
    <3>2. QED
      BY <3>1 DEF NothingFinishes
  <2>5. QED
    BY <1>3, <2>1, <2>2, <2>3, <2>4
<1>6. /\ generating' \in [Job -> SUBSET (1..AttemptLimit)]
      /\ \A j \in Job : generating'[j] \subseteq generating[j]
  BY <1>1, <1>2, ReleaseKeepsTypes
<1>7. Bookkeeping
  BY <1>1, <1>2, <1>4, <1>5, <1>6 DEF Bookkeeping, NobodyChecked, MediaTypes
<1>8. QED
  BY <1>2, <1>7, QuietIsSound

(* Cleaning up, reconciling and checking for consistency close attempts.     *)
LEMMA ClosingSound ==
  ASSUME MediaInv, UNCHANGED storyboards, NEW w \in Worker, NEW e \in execs[w],
         Cleanup(w, e) \/ MediaReconciled(w, e) \/ MediaEnsureSuccess(w, e)
  PROVE  MediaSound
<1>1. Inv /\ MediaTypes /\ e.job \in Job /\ execs \in [Worker -> SUBSET Exec]
  BY DEF MediaInv, Inv, QueueInv, TypeOK, Exec
<1>2. UNCHANGED <<events, api>> /\ (Released(e) \/ UNCHANGED generating)
  BY DEF Cleanup, MediaReconciled, MediaEnsureSuccess
<1>3. /\ generating' \in [Job -> SUBSET (1..AttemptLimit)]
      /\ \A j \in Job : generating'[j] \subseteq generating[j]
  BY <1>1, <1>2, ReleaseKeepsTypes
<1>4. ASSUME \A j \in Job : jobs'[j].status = "SUCCEEDED" => jobs[j].status = "SUCCEEDED",
             \A j \in Job : Checked(j)' => Checked(j) \/ asset[j].status \in Finished
      PROVE  Bookkeeping
  BY <1>1, <1>2, <1>3, <1>4 DEF Bookkeeping, MediaTypes
<1>5. CASE Cleanup(w, e)
  <2>1. UNCHANGED <<jobs, execs, asset>>
    BY <1>5 DEF Cleanup
  <2>2. Bookkeeping
    BY <1>4, <2>1, QueueAtRest DEF NobodyChecked
  <2>3. PICK s \in {"FAILED", "CANCELLED"} :
           media' = [media EXCEPT ![e.job] = Terminalize(media[e.job], {Number(e)}, s)]
    BY <1>5 DEF Cleanup
  <2>4. QED
    BY <1>1, <1>2, <2>1, <2>2, <2>3, TerminalizeIsSound
<1>6. CASE MediaReconciled(w, e)
  <2>1. NothingFinishes /\ NobodyChecked
    BY <1>1, <1>6, ExecStepsFinishNothing, CoroutineStepsCheckNobody DEF MediaReconciled
  <2>2. Bookkeeping
    BY <1>4, <2>1 DEF NobodyChecked, NothingFinishes
  <2>3. PICK s \in {"FAILED", "CANCELLED"} : Reconcile(e.job, s)
    BY <1>6 DEF MediaReconciled
  <2>4. QED
    BY <1>1, <1>2, <2>2, <2>3, TerminalizeIsSound DEF Reconcile
<1>7. CASE MediaEnsureSuccess(w, e)
  <2>1. UNCHANGED jobs
    BY <1>7 DEF MediaEnsureSuccess, EnsureSuccess
  <2>2. CASE ~HasStarted(e.job) /\ asset[e.job].status \in Finished
    <3>1. Goto(w, e, "checked") /\ UNCHANGED <<asset, media>>
      BY <1>7, <2>2 DEF MediaEnsureSuccess, EnsureSuccess
    <3> DEFINE g == [e EXCEPT !.pc = "checked"]
    <3>2. g.job = e.job
      BY <1>1 DEF Exec
    <3>3. /\ \A v \in Worker : v # w => execs'[v] = execs[v]
          /\ execs'[w] = (execs[w] \ {e}) \cup {g}
      BY <1>1, <3>1 DEF Goto
    <3> HIDE DEF g
    <3>4. \A j \in Job : Checked(j)' => Checked(j) \/ j = e.job
      BY <3>2, <3>3 DEF Checked
    <3>5. Bookkeeping
      BY <1>4, <2>1, <2>2, <3>4
    <3>6. QED
      BY <1>2, <3>1, <3>5, QuietIsSound
  <2>3. CASE ~(~HasStarted(e.job) /\ asset[e.job].status \in Finished)
    <3>1. /\ Goto(w, e, "fail_final")
          /\ media' = [media EXCEPT ![e.job] =
                          Terminalize(media[e.job], DOMAIN media[e.job], "FAILED")]
          /\ asset' = [asset EXCEPT ![e.job] = Asset("FAILED", "FAILED")]
      BY <1>7, <2>3 DEF MediaEnsureSuccess, EnsureSuccess
    <3>2. NobodyChecked
      BY <1>1, <3>1, GotoChecksNobody
    <3>3. Bookkeeping
      BY <1>4, <2>1, <3>2 DEF NobodyChecked
    <3>4. QED
      BY <1>1, <1>2, <3>1, <3>3, TerminalizeIsSound
  <2>4. QED
    BY <2>2, <2>3
<1>8. QED
  BY <1>5, <1>6, <1>7

(* An attempt starts under a number no row has yet.                          *)
LEMMA StartSound ==
  ASSUME MediaInv, UNCHANGED storyboards, NEW w \in Worker, NEW e \in execs[w],
         StartAttempt(w, e)
  PROVE  MediaSound
<1> DEFINE j == e.job
           n == e.attempt
           row == [worker |-> w, attempt |-> n, status |-> "STARTED"]
<1>1. /\ MediaTypes /\ j \in Job /\ n \in 1..AttemptLimit
      /\ \A i \in Job : asset[i].task = TaskOf(asset[i].status)
  BY DEF MediaInv, Inv, QueueInv, TypeOK, Exec
<1>2. n <= jobs[j].attempt_count /\ jobs[j].attempts[n].worker = w
  BY DEF MediaInv, Inv, ExecInv, OwnerOf
<1>3. /\ asset' = [asset EXCEPT ![j] = Asset("GENERATING", "PROCESSING")]
      /\ media' = [media EXCEPT ![j] = Append(media[j], row)]
      /\ generating' = [generating EXCEPT ![j] = generating[j] \cup {n}]
      /\ UNCHANGED <<jobs, execs, events, api>>
      /\ ~Attempted(e)
  BY DEF StartAttempt
<1>4. \A i \in DOMAIN media[j] : media[j][i].attempt # n
  BY <1>3 DEF Attempted, RowsOf
<1>5. row \in MediaAttempt /\ row.attempt = n
  BY <1>1 DEF MediaAttempt
<1> HIDE DEF row
<1>6. media[j] \in Seq(MediaAttempt)
  BY <1>1 DEF MediaTypes
<1>7. /\ Append(media[j], row) \in Seq(MediaAttempt)
      /\ Len(media[j]) + 1 \in DOMAIN Append(media[j], row)
      /\ Append(media[j], row)[Len(media[j]) + 1] = row
      /\ Append(media[j], row) # media[j]
  BY <1>5, <1>6
<1>8. /\ media' \in [Job -> Seq(MediaAttempt)]
      /\ media'[j] = Append(media[j], row) /\ \A i \in Job : i # j => media'[i] = media[i]
  BY <1>1, <1>3, <1>7 DEF MediaTypes
<1>9. RowAdded(j)
  BY <1>1, <1>2, <1>4, <1>8 DEF RowAdded, row
<1>10. \A i \in Job : RowsKept(i) \/ RowAdded(i)
  BY <1>8, <1>9 DEF RowsKept, Rewrites
<1>11. /\ "GENERATING" \in AssetStatus \ Finished
       /\ Asset("GENERATING", "PROCESSING") = Asset("GENERATING", TaskOf("GENERATING"))
  BY DEF AssetStatus, TaskOf, Finished
<1>12. /\ asset' \in [Job -> [status : AssetStatus, task : TaskStatus]]
       /\ asset'[j].status = "GENERATING"
       /\ \A i \in Job : i # j => asset'[i] = asset[i]
       /\ asset'[j].task = TaskOf(asset'[j].status)
  BY <1>1, <1>3, <1>11, AssetTypes
<1>13. \A i \in Job : asset'[i].status \in Finished => asset'[i] = asset[i]
  BY <1>11, <1>12
<1>14. /\ generating' \in [Job -> SUBSET (1..AttemptLimit)]
       /\ \A i \in Job : \A m \in generating'[i] : m \in generating[i] \/ (i = j /\ m = n)
  <2> DEFINE G == generating[j] \cup {n}
  <2>1. generating' = [generating EXCEPT ![j] = G]
    BY <1>3
  <2>2. G \in SUBSET (1..AttemptLimit) /\ \A m \in G : m \in generating[j] \/ m = n
    BY <1>1 DEF MediaTypes
  <2> HIDE DEF G
  <2>3. QED
    BY <1>1, <2>1, <2>2 DEF MediaTypes
<1>15. \E i \in DOMAIN media'[j] : media'[j][i].attempt = n
  BY <1>5, <1>7, <1>8
<1>16. MediaTypes'
  BY <1>1, <1>3, <1>8, <1>12, <1>14 DEF MediaTypes
<1>17. "READY_FOR_REVIEW" \in Finished
  BY DEF Finished
<1>18. \A i \in Job : asset'[i].task = TaskOf(asset'[i].status)
  BY <1>1, <1>12
<1>19. /\ \A i \in Job : jobs'[i].status = "SUCCEEDED" => jobs[i].status = "SUCCEEDED"
       /\ \A i \in Job : Checked(i)' => Checked(i)
  BY <1>3, QueueAtRest DEF NobodyChecked
<1>20. \A i \in Job : \A m \in generating'[i] :
          m \in generating[i] \/ \E k \in DOMAIN media'[i] : media'[i][k].attempt = m
  BY <1>14, <1>15
<1> HIDE DEF j, n
<1>21. QED
  BY <1>3, <1>10, <1>13, <1>16, <1>17, <1>18, <1>19, <1>20 DEF MediaSound

(* What the fence of the finalization lets through is the open attempt.      *)
LEMMA FinalizeSound ==
  ASSUME MediaInv, UNCHANGED storyboards, NEW w \in Worker, NEW e \in execs[w],
         Finalize(w, e)
  PROVE  MediaSound
<1> DEFINE j == e.job
           k == Number(e)
           row == media[j][k]
           new == [row EXCEPT !.status = "COMPLETED"]
           rows == [media[j] EXCEPT ![k] = new]
<1>1. /\ MediaTypes /\ j \in Job
      /\ \A i \in Job : asset[i].task = TaskOf(asset[i].status)
  BY DEF MediaInv, Inv, QueueInv, TypeOK, Exec
<1>2. /\ e.attempt \in generating[j]
      /\ OwnsLiveLease(jobs[j], w) /\ e.attempt = jobs[j].attempt_count
      /\ row.status = "STARTED"
      /\ asset' = [asset EXCEPT ![j] = Asset("READY_FOR_REVIEW", "COMPLETED")]
      /\ media' = [media EXCEPT ![j] = rows]
      /\ events' = [events EXCEPT ![j] = events[j] \cup {"READY"}]
      /\ Released(e)
      /\ UNCHANGED <<jobs, execs, api>>
  BY DEF Finalize, Generating, Fenced, Finalizable
<1>3. Attempted(e)
  <2>1. PICK i \in DOMAIN media[j] : media[j][i].attempt = e.attempt
    BY <1>1, <1>2 DEF MediaInv
  <2>2. QED
    BY <2>1 DEF Attempted, RowsOf
<1>4. k \in DOMAIN media[j] /\ row.attempt = e.attempt
  BY <1>1, <1>3, NumberOfAttempt
<1>5. media[j] \in Seq(MediaAttempt) /\ row \in MediaAttempt
  BY <1>1, <1>4 DEF MediaTypes
<1>6. Current(j, row)
  <2>1. RowSound(j, k)
    BY <1>1, <1>4 DEF MediaInv
  <2>2. jobs[j].attempts[jobs[j].attempt_count].worker = row.worker
    BY <1>2, <1>4, <2>1 DEF RowSound
  <2>3. jobs[j].status = "RUNNING" /\ jobs[j].locked_by = w
    BY <1>2 DEF OwnsLiveLease
  <2>4. jobs[j].attempts[e.attempt].worker = w
    BY DEF MediaInv, Inv, ExecInv, OwnerOf
  <2>5. QED
    BY <1>2, <1>4, <2>2, <2>3, <2>4 DEF Current
<1>7. /\ new \in MediaAttempt /\ new.status = "COMPLETED"
      /\ new.attempt = row.attempt /\ new.worker = row.worker
  BY <1>5 DEF MediaAttempt
<1> HIDE DEF k, new
<1>8. /\ rows \in Seq(MediaAttempt) /\ DOMAIN rows = DOMAIN media[j]
      /\ rows[k] = new /\ \A i \in DOMAIN media[j] : i # k => rows[i] = media[j][i]
  BY <1>4, <1>5, <1>7
<1> HIDE DEF rows
<1>9. /\ media' \in [Job -> Seq(MediaAttempt)]
      /\ media'[j] = rows /\ \A i \in Job : i # j => media'[i] = media[i]
  BY <1>1, <1>2, <1>8 DEF MediaTypes
<1>10. \A i \in Job : RowsKept(i)
  <2>1. RowsKept(j)
    BY <1>2, <1>4, <1>6, <1>7, <1>8, <1>9 DEF RowsKept, Rewrites
  <2>2. QED
    BY <1>9, <2>1 DEF RowsKept, Rewrites
<1>11. /\ "READY_FOR_REVIEW" \in AssetStatus
       /\ Asset("READY_FOR_REVIEW", "COMPLETED")
            = Asset("READY_FOR_REVIEW", TaskOf("READY_FOR_REVIEW"))
  BY DEF AssetStatus, TaskOf, Finished
<1>12. /\ asset' \in [Job -> [status : AssetStatus, task : TaskStatus]]
       /\ \A i \in Job : i # j => asset'[i] = asset[i]
       /\ asset'[j].task = TaskOf(asset'[j].status)
  BY <1>1, <1>2, <1>11, AssetTypes
<1>13. /\ events' \in [Job -> SUBSET {"READY", "APPROVED", "REJECTED"}]
       /\ "READY" \in events'[j]
       /\ \A i \in Job : events[i] \subseteq events'[i]
  <2> DEFINE E == events[j] \cup {"READY"}
  <2>1. events' = [events EXCEPT ![j] = E]
    BY <1>2
  <2>2. E \in SUBSET {"READY", "APPROVED", "REJECTED"} /\ "READY" \in E /\ events[j] \subseteq E
    BY <1>1 DEF MediaTypes
  <2> HIDE DEF E
  <2>3. QED
    BY <1>1, <2>1, <2>2 DEF MediaTypes
<1>14. Out(j)'
  <2>1. k \in DOMAIN media'[j] /\ media'[j][k].status = "COMPLETED"
    BY <1>4, <1>7, <1>8, <1>9
  <2>2. QED
    BY <1>13, <2>1 DEF Out
<1>15. /\ generating' \in [Job -> SUBSET (1..AttemptLimit)]
       /\ \A i \in Job : generating'[i] \subseteq generating[i]
  BY <1>1, <1>2, ReleaseKeepsTypes
<1>16. MediaTypes'
  BY <1>1, <1>2, <1>9, <1>12, <1>13, <1>15 DEF MediaTypes
<1>17. media'[j] # media[j]
  BY <1>2, <1>7, <1>8, <1>9
<1>18. /\ \A i \in Job : asset'[i].status \in Finished => asset[i].status \in Finished \/ Out(i)'
       /\ \A i \in Job :
            asset[i].status # "READY_FOR_REVIEW" /\ asset'[i].status = "READY_FOR_REVIEW"
            => media'[i] # media[i]
       /\ \A i \in Job : asset'[i].task = TaskOf(asset'[i].status)
  <2>1. ASSUME NEW i \in Job
        PROVE  (i = j => Out(i)' /\ media'[i] # media[i]) /\ (i # j => asset'[i] = asset[i])
    BY <1>12, <1>14, <1>17
  <2>2. QED
    BY <1>1, <1>12, <2>1
<1>19. /\ \A i \in Job : jobs'[i].status = "SUCCEEDED" => jobs[i].status = "SUCCEEDED"
       /\ \A i \in Job : Checked(i)' => Checked(i)
  BY <1>2, QueueAtRest DEF NobodyChecked
<1> HIDE DEF j
<1>20. QED
  BY <1>10, <1>13, <1>15, <1>16, <1>18, <1>19 DEF MediaSound

(* A write of the asset that produces nothing, and what else operators do.    *)
LEMMA AssetWriteIsSound ==
  ASSUME MediaInv, UNCHANGED <<media, generating, storyboards>>,
         NEW j \in Job, NEW s \in AssetStatus,
         asset' = [asset EXCEPT ![j] = Asset(s, TaskOf(s))],
         s # "READY_FOR_REVIEW",
         s \in Finished => asset[j].status \in Finished,
         events' \in [Job -> SUBSET {"READY", "APPROVED", "REJECTED"}],
         \A i \in Job : events[i] \subseteq events'[i],
         api' \in [Job -> SUBSET {"retry", "cancel"}],
         \A i \in Job : jobs'[i].status = "SUCCEEDED" => jobs[i].status = "SUCCEEDED",
         NobodyChecked
  PROVE  MediaSound
<1>1. MediaTypes /\ \A i \in Job : asset[i].task = TaskOf(asset[i].status)
  BY DEF MediaInv
<1>2. /\ asset' \in [Job -> [status : AssetStatus, task : TaskStatus]]
      /\ asset'[j].status = s
      /\ \A i \in Job : i # j => asset'[i] = asset[i]
      /\ asset'[j].task = TaskOf(asset'[j].status)
  BY <1>1, AssetTypes
<1>3. MediaTypes'
  BY <1>1, <1>2 DEF MediaTypes
<1>4. \A i \in Job : RowsKept(i)
  BY DEF RowsKept, Rewrites
<1>5. QED
  BY <1>1, <1>2, <1>3, <1>4 DEF MediaSound, NobodyChecked

(* Requests between two transactions, of which each job has one of a kind.    *)
LEMMA ApiTypes ==
  ASSUME MediaTypes, NEW j \in Job, NEW A \in SUBSET {"retry", "cancel"},
         api' = [api EXCEPT ![j] = A]
  PROVE  api' \in [Job -> SUBSET {"retry", "cancel"}]
  BY DEF MediaTypes

LEMMA OperatorsAreSound ==
  ASSUME MediaInv, UNCHANGED storyboards, NEW j \in Job, MediaJobStep(j)
  PROVE  MediaSound
<1>1. /\ Inv /\ MediaTypes /\ execs \in [Worker -> SUBSET Exec]
      /\ api[j] \in SUBSET {"retry", "cancel"}
      /\ asset[j] \in [status : AssetStatus, task : TaskStatus]
      /\ \A i \in Job : asset[i].task = TaskOf(asset[i].status)
  BY DEF MediaInv, Inv, QueueInv, TypeOK, MediaTypes
<1>2. UNCHANGED generating
  BY DEF MediaJobStep, Request, Review, CancelMedia, CancelReconciles, RetryMedia,
         RetryPrepares, ApiDies
<1>3. /\ \A i \in Job : jobs'[i].status = "SUCCEEDED" => jobs[i].status = "SUCCEEDED"
      /\ NobodyChecked
  <2>1. CASE UNCHANGED <<jobs, execs>>
    BY <2>1, QueueAtRest
  <2>2. CASE JobStep(j)
    BY <1>1, <2>2, QueueStepsFinishNothing, QueueStepsCheckNobody DEF NothingFinishes
  <2>3. QED
    BY <2>1, <2>2
    DEF MediaJobStep, Request, Review, CancelMedia, CancelReconciles, RetryMedia,
        RetryPrepares, ApiDies, JobStep
<1>4. ASSUME UNCHANGED <<asset, media, events>>,
             api' \in [Job -> SUBSET {"retry", "cancel"}]
      PROVE  MediaSound
  <2>1. Bookkeeping
    BY <1>1, <1>2, <1>3, <1>4 DEF Bookkeeping, MediaTypes, NobodyChecked
  <2>2. QED
    BY <1>4, <2>1, QuietIsSound
<1>5. CASE Request(j)
  <2>1. CASE jobs[j].status = "ABSENT"
    <3>1. /\ "REQUESTED" \in AssetStatus \ Finished /\ TaskOf("REQUESTED") = "PENDING"
      BY DEF AssetStatus, TaskOf, Finished
    <3>2. /\ asset' = [asset EXCEPT ![j] = Asset("REQUESTED", TaskOf("REQUESTED"))]
          /\ UNCHANGED <<media, events, api>>
      BY <1>5, <2>1, <3>1 DEF Request
    <3>3. QED
      BY <1>1, <1>2, <1>3, <3>1, <3>2, AssetWriteIsSound DEF MediaTypes
  <2>2. CASE jobs[j].status # "ABSENT"
    BY <1>1, <1>4, <1>5, <2>2 DEF Request, MediaTypes
  <2>3. QED
    BY <2>1, <2>2
<1>6. CASE Review(j)
  <2>1. PICK decision \in {"APPROVED", "REJECTED"} :
           /\ asset' = [asset EXCEPT ![j].status = decision]
           /\ events' = [events EXCEPT ![j] = events[j] \cup {decision}]
    BY <1>6 DEF Review
  <2>2. /\ asset[j].status = "READY_FOR_REVIEW" /\ asset[j].status \in Finished
        /\ asset[j].task = "COMPLETED"
        /\ UNCHANGED <<media, api>>
    BY <1>1, <1>6 DEF Review, TaskOf, Finished
  <2>3. /\ decision \in AssetStatus \ {"READY_FOR_REVIEW"} /\ TaskOf(decision) = "COMPLETED"
    BY DEF AssetStatus, TaskOf, Finished
  <2>4. asset' = [asset EXCEPT ![j] = Asset(decision, TaskOf(decision))]
    <3>1. [asset[j] EXCEPT !.status = decision] = Asset(decision, TaskOf(decision))
      BY <1>1, <2>2, <2>3 DEF Asset
    <3>2. QED
      BY <2>1, <3>1
  <2>5. /\ events' \in [Job -> SUBSET {"READY", "APPROVED", "REJECTED"}]
        /\ \A i \in Job : events[i] \subseteq events'[i]
    <3> DEFINE E == events[j] \cup {decision}
    <3>1. events' = [events EXCEPT ![j] = E]
      BY <2>1
    <3>2. E \in SUBSET {"READY", "APPROVED", "REJECTED"} /\ events[j] \subseteq E
      BY <1>1 DEF MediaTypes
    <3> HIDE DEF E
    <3>3. QED
      BY <1>1, <3>1, <3>2 DEF MediaTypes
  <2>6. QED
    BY <1>1, <1>2, <1>3, <2>2, <2>3, <2>4, <2>5, AssetWriteIsSound DEF MediaTypes
<1>7. CASE CancelMedia(j)
  <2> DEFINE A == IF jobs'[j].status = "CANCELLED" THEN api[j] \cup {"cancel"} ELSE api[j]
  <2>1. A \in SUBSET {"retry", "cancel"}
    BY <1>1
  <2>2. api' = [api EXCEPT ![j] = A] /\ UNCHANGED <<asset, media, events>>
    BY <1>7 DEF CancelMedia
  <2> HIDE DEF A
  <2>3. QED
    BY <1>1, <1>4, <2>1, <2>2, ApiTypes
<1>8. CASE RetryMedia(j)
  <2> DEFINE A == api[j] \cup {"retry"}
  <2>1. A \in SUBSET {"retry", "cancel"}
    BY <1>1
  <2>2. api' = [api EXCEPT ![j] = A] /\ UNCHANGED <<asset, media, events>>
    BY <1>8 DEF RetryMedia
  <2> HIDE DEF A
  <2>3. QED
    BY <1>1, <1>4, <2>1, <2>2, ApiTypes
<1>9. CASE ApiDies(j)
  BY <1>1, <1>4, <1>9, ApiTypes DEF ApiDies
<1>10. CASE CancelReconciles(j)
  <2> DEFINE A == api[j] \ {"cancel"}
  <2>1. A \in SUBSET {"retry", "cancel"}
    BY <1>1
  <2>2. api' = [api EXCEPT ![j] = A] /\ UNCHANGED <<jobs, execs, events>>
    BY <1>10 DEF CancelReconciles
  <2> HIDE DEF A
  <2>3. Bookkeeping
    BY <1>1, <1>2, <1>3, <2>1, <2>2, ApiTypes DEF Bookkeeping, MediaTypes, NobodyChecked
  <2>4. QED
    BY <1>10, <2>2, <2>3, TerminalizeIsSound DEF CancelReconciles, Reconcile
<1>11. CASE RetryPrepares(j)
  <2> DEFINE A == api[j] \ {"retry"}
  <2>1. A \in SUBSET {"retry", "cancel"}
    BY <1>1
  <2>2. /\ "REQUESTED" \in AssetStatus \ Finished /\ TaskOf("REQUESTED") = "PENDING"
    BY DEF AssetStatus, TaskOf, Finished
  <2>3. /\ api' = [api EXCEPT ![j] = A] /\ UNCHANGED <<media, events>>
        /\ asset' = [asset EXCEPT ![j] = Asset("REQUESTED", TaskOf("REQUESTED"))]
    BY <1>11, <2>2 DEF RetryPrepares
  <2> HIDE DEF A
  <2>4. "REQUESTED" # "READY_FOR_REVIEW"
    OBVIOUS
  <2>5. QED
    BY <1>1, <1>2, <1>3, <2>1, <2>2, <2>3, <2>4, ApiTypes, AssetWriteIsSound DEF MediaTypes
<1>12. QED
  BY <1>5, <1>6, <1>7, <1>8, <1>9, <1>10, <1>11 DEF MediaJobStep

-----------------------------------------------------------------------------
LEMMA MediaInvInit == MediaInit => MediaInv
<1> SUFFICES ASSUME MediaInit PROVE MediaInv
  OBVIOUS
<1>1. Init /\ Inv
  BY InvInit DEF MediaInit
<1>2. MediaTypes
  BY DEF MediaInit, MediaTypes, Asset, AssetStatus, TaskStatus
<1>3. \A j \in Job : /\ asset[j].status = "NONE" /\ asset[j].task = "NONE"
                     /\ media[j] = <<>> /\ generating[j] = {}
                     /\ jobs[j].status = "ABSENT"
  BY <1>1 DEF MediaInit, Init, Absent, Asset
<1>4. \A j \in Job : ~Checked(j)
  BY <1>1 DEF Init, Checked
<1>5. TaskOf("NONE") = "NONE" /\ "NONE" \notin Finished
  BY DEF TaskOf, Finished
<1>6. QED
  BY <1>1, <1>2, <1>3, <1>4, <1>5 DEF MediaInv

(* Every action keeps within what MediaSound allows.                          *)
LEMMA MediaStepIsSound ==
  ASSUME MediaInv, MediaNext
  PROVE  MediaSound
<1>1. UNCHANGED storyboards
  BY DEF MediaNext
<1>2. ASSUME NEW w \in Worker, NEW e \in execs[w], MediaWorkerStep(w, e)
      PROVE  MediaSound
  BY <1>1, <1>2, StartSound, FinalizeSound, QuietCoroutinesSound, ClosingSound
  DEF MediaWorkerStep
<1>3. QED
  BY <1>1, <1>2, MediaQueueStepSound, OperatorsAreSound DEF MediaNext

LEMMA MediaInvNext == MediaInv /\ [MediaNext]_mediaVars => MediaInv'
<1> SUFFICES ASSUME MediaInv, [MediaNext]_mediaVars PROVE MediaInv'
  OBVIOUS
<1>1. [Next]_vars
  BY MediaStepIsQueueStep
<1>2. CASE MediaNext
  BY <1>1, <1>2, MediaStepIsSound, MediaSoundKeepsInv
<1>3. CASE UNCHANGED mediaVars
  BY <1>3, <1>1, InvNext
  DEF mediaVars, resources, MediaInv, MediaTypes, RowSound, Checked, Out
<1>4. QED
  BY <1>2, <1>3

LEMMA MediaInvHolds == MediaSpec => []MediaInv
  BY MediaInvInit, MediaInvNext, PTL DEF MediaSpec

(* Asset and task agree (media/service.py, jobs/lifecycle.py), although a      *)
(* review writes only the asset: it finds a finished one, whose task is        *)
(* COMPLETED, and leaves a finished one.                                       *)
THEOREM AssetsAndTasksAgree == MediaSpec => []AssetAndTaskAgree
<1>1. MediaInv => AssetAndTaskAgree
  BY DEF MediaInv, AssetAndTaskAgree, TaskOf
<1>2. QED
  BY <1>1, MediaInvHolds, PTL

(* An asset shown as produced, and a job that SUCCEEDED, have a completed      *)
(* attempt and a ready event, although the reconciler, the finalization and    *)
(* the completion of the job are three transactions (media/service.py,         *)
(* jobs/lifecycle.py, jobs/worker.py).                                         *)
THEOREM OutputsAreRecorded == MediaSpec => []OutputIsRecorded
<1>1. MediaInv => OutputIsRecorded
  BY DEF MediaInv, OutputIsRecorded, Out
<1>2. QED
  BY <1>1, MediaInvHolds, PTL

(* The media attempts are those of the job's attempts, one for each at most,   *)
(* under the worker that leased it (media_generation_attempts).                *)
THEOREM MediaIsAudited == MediaSpec => []MediaAttemptsAudit
<1>1. MediaInv => MediaTypeOK
  BY DEF MediaInv, MediaTypes, MediaTypeOK, Inv, QueueInv
<1>2. ASSUME MediaInv, NEW j \in Job, NEW i \in DOMAIN media[j]
      PROVE  LET row == media[j][i]
             IN  /\ RowsOf(j, row.attempt) = {i}
                 /\ row.attempt <= jobs[j].attempt_count
                 /\ jobs[j].attempts[row.attempt].worker = row.worker
  <2>1. RowSound(j, i)
    BY <1>2 DEF MediaInv
  <2>2. QED
    BY <2>1 DEF RowSound, RowsOf
<1>3. MediaInv => MediaAttemptsAudit
  BY <1>1, <1>2 DEF MediaAttemptsAudit
<1>4. QED
  BY <1>3, MediaInvHolds, PTL

(* A stale worker completes no attempt and makes no asset ready, and a closed  *)
(* attempt is closed for good (finalize and mark_terminal of                   *)
(* media_repository.py).                                                       *)
THEOREM StaleWorkersFail == MediaSpec => StaleCannotSucceed
<1> DEFINE A ==
      \A j \in Job :
        /\ asset[j].status # "READY_FOR_REVIEW" /\ asset'[j].status = "READY_FOR_REVIEW"
             => media'[j] # media[j]
        /\ \A i \in DOMAIN media[j] : media'[j][i] # media[j][i] =>
             /\ media[j][i].status = "STARTED"
             /\ media'[j][i].status = "COMPLETED" =>
                  /\ media[j][i].attempt = jobs[j].attempt_count
                  /\ jobs[j].status = "RUNNING"
                  /\ jobs[j].locked_by = media[j][i].worker
<1>1. MediaInv /\ MediaNext => A
  <2> SUFFICES ASSUME MediaInv, MediaNext, NEW j \in Job
               PROVE  /\ \/ ~(asset[j].status # "READY_FOR_REVIEW"
                               /\ asset'[j].status = "READY_FOR_REVIEW")
                         \/ media'[j] # media[j]
                      /\ \A i \in DOMAIN media[j] : Rewrites(j, media[j][i], media'[j][i])
    BY DEF Rewrites, Current
  <2>1. MediaSound /\ media[j] \in Seq(MediaAttempt)
    BY MediaStepIsSound DEF MediaInv, MediaTypes
  <2>2. CASE RowsKept(j)
    BY <2>1, <2>2 DEF RowsKept, MediaSound
  <2>3. CASE RowAdded(j)
    <3>1. PICK row : media'[j] = Append(media[j], row)
      BY <2>3 DEF RowAdded
    <3>2. \A i \in DOMAIN media[j] : media'[j][i] = media[j][i]
      BY <2>1, <3>1
    <3>3. QED
      BY <2>1, <3>2 DEF Rewrites, MediaSound
  <2>4. QED
    BY <2>1, <2>2, <2>3 DEF MediaSound
<1> HIDE DEF A
<1>2. MediaInv /\ [MediaNext]_mediaVars => [A]_mediaVars
  BY <1>1
<1>3. MediaSpec => [][A]_mediaVars
  BY <1>2, MediaInvHolds, PTL DEF MediaSpec
<1>4. QED
  BY <1>3 DEF StaleCannotSucceed, A
=============================================================================
