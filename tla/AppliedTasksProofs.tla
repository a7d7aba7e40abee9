------------------------- MODULE AppliedTasksProofs -------------------------
(***************************************************************************)
(* Proofs about AppliedTasks for any sets of jobs and workers and any       *)
(* bounds: it is a JobQueue with something on the side, so what is proved   *)
(* of the queue holds in it, and no overlap of reads and writes shows work  *)
(* as done that was not recorded and announced.                             *)
(***************************************************************************)
EXTENDS AppliedTasks, JobQueueProofs

Out(j) == j \in results /\ j \in announced

AppliedTypes ==
    /\ task \in [Job -> TaskStatus]
    /\ results \subseteq Job
    /\ announced \subseteq Job
    /\ work \in [Job -> SUBSET Work]
    /\ api \in [Job -> SUBSET Request]

(* Beside the property itself: whoever may still finish a job, or return from *)
(* its handler, has recorded the result.                                      *)
AppliedInv ==
    /\ Inv
    /\ AppliedTypes
    /\ CompletionIsAnnounced
    /\ \A w \in Worker, j \in Job : Finishing(execs[w], j) => Out(j)
    /\ \A j \in Job : \A x \in work[j] : x.at = "done" => Out(j)

-----------------------------------------------------------------------------
(* The queue is left as it is, or takes a step of its own.                   *)

LEMMA CoroutinesStep ==
  ASSUME NEW w \in Worker, NEW e \in execs[w],
         Heartbeat(w, e) \/ ExecStep(w, e) \/ CleanupFails(w, e) \/ Abort(w, e)
  PROVE  Next
  BY DEF WorkerStep, Next

LEMMA OperatorsStep ==
  ASSUME NEW j \in Job, JobStep(j)
  PROVE  Next
  BY DEF Next

(* Every action of AppliedTasks is a step of JobQueue, or none.               *)
LEMMA AppliedStepIsQueueStep ==
  ASSUME [AppliedNext]_appliedVars
  PROVE  [Next]_vars
<1>1. CASE AppliedQueueStep
  BY <1>1 DEF AppliedQueueStep, Next, WorkerStep, JobStep
<1>2. ASSUME NEW w \in Worker, AppliedCrash(w)
      PROVE  Next
  BY <1>2 DEF AppliedCrash, Next, WorkerStep
<1>3. ASSUME NEW w \in Worker, NEW e \in execs[w], AppliedWorkerStep(w, e)
      PROVE  [Next]_vars
  <2>1. CASE \/ ReadTask(w, e) \/ MarkProcessing(w, e) \/ ReadForComplete(w, e)
             \/ CompleteTask(w, e) \/ ReconcileReads(w, e)
    BY <2>1 DEF ReadTask, MarkProcessing, ReadForComplete, CompleteTask, ReconcileReads, vars
  <2>2. CASE HandlerDone(w, e) \/ HandlerStopped(w, e)
    BY <2>2, CoroutinesStep DEF HandlerDone, HandlerStopped, ExecStep
  <2>3. CASE AppliedHeartbeat(w, e)
    BY <2>3, CoroutinesStep DEF AppliedHeartbeat
  <2>4. CASE AppliedSettle(w, e)
    BY <2>4, CoroutinesStep DEF AppliedSettle, ExecStep
  <2>5. CASE ReconcileEnds(w, e)
    BY <2>5, CoroutinesStep DEF ReconcileEnds, ExecStep
  <2>6. QED
    BY <1>3, <2>1, <2>2, <2>3, <2>4, <2>5 DEF AppliedWorkerStep
<1>4. ASSUME NEW j \in Job, AppliedJobStep(j)
      PROVE  [Next]_vars
  <2>1. CASE RequestTask(j) \/ CancelTask(j) \/ RetryTask(j)
    BY <2>1, OperatorsStep DEF RequestTask, CancelTask, RetryTask, JobStep, vars
  <2>2. CASE ApiReads(j) \/ ApiWrites(j) \/ ApiDies(j)
    BY <2>2 DEF ApiReads, ApiWrites, ApiDies, vars
  <2>3. QED
    BY <1>4, <2>1, <2>2 DEF AppliedJobStep
<1>5. CASE UNCHANGED appliedVars
  BY <1>5 DEF appliedVars, vars
<1>6. QED
  BY <1>1, <1>2, <1>3, <1>4, <1>5 DEF AppliedNext

(* Everything proved of the queue holds of the queue under the tasks.        *)
THEOREM QueueRefined == AppliedSpec => Spec
<1>1. AppliedInit => Init
  BY DEF AppliedInit
<1>2. [AppliedNext]_appliedVars => [Next]_vars
  BY AppliedStepIsQueueStep
<1>3. QED
  BY <1>1, <1>2, PTL DEF AppliedSpec, Spec

-----------------------------------------------------------------------------
(* What a step must do to keep the invariant.                               *)

Sound ==
    /\ AppliedTypes'
    /\ results \subseteq results' /\ announced \subseteq announced'
    /\ \A j \in Job : task'[j] = "COMPLETED" => task[j] = "COMPLETED" \/ Out(j)'
    /\ \A j \in Job : jobs'[j].status = "SUCCEEDED"
         => jobs[j].status = "SUCCEEDED" \/ \E w \in Worker : Finishing(execs[w], j)
    /\ \A w \in Worker, j \in Job :
         Finishing(execs'[w], j) => Finishing(execs[w], j) \/ Out(j)
    /\ \A j \in Job : \A x \in work'[j] : x.at = "done" => x \in work[j] \/ Out(j)'

LEMMA SoundKeepsInv ==
  ASSUME AppliedInv, Inv', Sound
  PROVE  AppliedInv'
<1>1. \A j \in Job : Out(j) => Out(j)'
  BY DEF Sound, Out
<1>2. /\ AppliedTypes'
      /\ \A w \in Worker, j \in Job : Finishing(execs'[w], j) => Out(j)'
      /\ \A j \in Job : \A x \in work'[j] : x.at = "done" => Out(j)'
  BY <1>1 DEF AppliedInv, Sound
<1>3. \A j \in Job : task'[j] = "COMPLETED" \/ jobs'[j].status = "SUCCEEDED" => Out(j)'
  BY <1>1 DEF AppliedInv, Sound, CompletionIsAnnounced, Out
<1>4. CompletionIsAnnounced'
  BY <1>3 DEF CompletionIsAnnounced, Out
<1>5. (\A w \in Worker, j \in Job : Finishing(execs[w], j) => Out(j))'
  BY <1>2 DEF Finishing
<1>6. QED
  BY <1>2, <1>4, <1>5 DEF AppliedInv

LEMMA AtIsWork ==
  ASSUME NEW e \in Exec, NEW seen \in TaskStatus,
         NEW at \in {"marking", "working", "completing", "done", "reconciling"}
  PROVE  /\ At(e, at, seen) \in Work
         /\ At(e, at, seen).at = at
  BY DEF At, Work, Exec

(* A write is a type-correct status; only a write of COMPLETED shows one.     *)
LEMMA WriteKeepsType ==
  ASSUME task \in [Job -> TaskStatus], NEW j \in Job, NEW seen, NEW status \in TaskStatus,
         Write(j, seen, status)
  PROVE  /\ task' \in [Job -> TaskStatus]
         /\ \A i \in Job : task'[i] = "COMPLETED"
              => task[i] = "COMPLETED" \/ (i = j /\ status = "COMPLETED")
  BY DEF Write

LEMMA DropKeepsType ==
  ASSUME work \in [Job -> SUBSET Work], NEW e \in Exec, Drop(e)
  PROVE  /\ work' \in [Job -> SUBSET Work]
         /\ \A j \in Job : work'[j] \subseteq work[j]
  BY DEF Drop, Exec

(* One coroutine's new place, which is "done" only if the result is out.      *)
LEMMA PlaceKeepsType ==
  ASSUME work \in [Job -> SUBSET Work], NEW e \in Exec, NEW y \in Work, NEW F \in SUBSET Work,
         work' = [work EXCEPT ![e.job] = F \cup {y}], F \subseteq work[e.job]
  PROVE  /\ work' \in [Job -> SUBSET Work]
         /\ \A j \in Job : \A x \in work'[j] : x \in work[j] \/ (j = e.job /\ x = y)
<1>1. e.job \in Job
  BY DEF Exec
<1>2. /\ work'[e.job] = F \cup {y}
      /\ \A j \in Job : j # e.job => work'[j] = work[j]
  BY <1>1
<1>3. \A j \in Job : \A x \in work'[j] : x \in work[j] \/ (j = e.job /\ x = y)
  BY <1>2
<1>4. QED
  BY <1>1, <1>3

LEMMA AdvanceKeepsType ==
  ASSUME work \in [Job -> SUBSET Work], NEW e \in Exec, NEW y \in Work, NEW x,
         Advance(e, x, y)
  PROVE  /\ work' \in [Job -> SUBSET Work]
         /\ \A j \in Job : \A z \in work'[j] : z \in work[j] \/ (j = e.job /\ z = y)
<1>1. e.job \in Job
  BY DEF Exec
<1>2. /\ work[e.job] \ {x} \in SUBSET Work /\ work[e.job] \ {x} \subseteq work[e.job]
      /\ work' = [work EXCEPT ![e.job] = (work[e.job] \ {x}) \cup {y}]
  BY <1>1 DEF Advance
<1>3. QED
  BY <1>2, PlaceKeepsType

-----------------------------------------------------------------------------
(* One lemma per group of actions.                                          *)

(* Steps of the handler on its task leave the queue alone.                   *)
LEMMA HandlerStepsSound ==
  ASSUME AppliedInv, NEW w \in Worker, NEW e \in execs[w],
         \/ ReadTask(w, e) \/ MarkProcessing(w, e) \/ ReadForComplete(w, e)
         \/ CompleteTask(w, e) \/ ReconcileReads(w, e)
  PROVE  Sound
<1>1. /\ AppliedTypes /\ e \in Exec /\ e.job \in Job
  BY DEF AppliedInv, Inv, QueueInv, TypeOK, Exec
<1>2. /\ work \in [Job -> SUBSET Work] /\ task \in [Job -> TaskStatus]
      /\ task[e.job] \in TaskStatus /\ "NONE" \in TaskStatus
      /\ "PROCESSING" \in TaskStatus /\ "COMPLETED" \in TaskStatus
  BY <1>1 DEF AppliedTypes, TaskStatus
<1>3. UNCHANGED <<jobs, execs>> => \A v \in Worker, j \in Job :
         /\ Finishing(execs'[v], j) => Finishing(execs[v], j)
         /\ jobs'[j].status = "SUCCEEDED" => jobs[j].status = "SUCCEEDED"
  OBVIOUS
<1>4. CASE ReadTask(w, e) \/ ReconcileReads(w, e)
  <2>1. PICK at \in {"marking", "reconciling"} : Begin(e, at)
    BY <1>4 DEF ReadTask, ReconcileReads
  <2> DEFINE y == At(e, at, task[e.job])
  <2>2. y \in Work /\ y.at # "done"
    BY <1>1, <1>2, AtIsWork
  <2>3. work' = [work EXCEPT ![e.job] = work[e.job] \cup {y}]
    BY <2>1 DEF Begin
  <2> HIDE DEF y
  <2>4. /\ work' \in [Job -> SUBSET Work]
        /\ \A j \in Job : \A x \in work'[j] : x \in work[j] \/ (j = e.job /\ x = y)
    BY <1>1, <1>2, <2>2, <2>3, PlaceKeepsType
  <2>5. UNCHANGED <<jobs, execs, task, results, announced, api>>
    BY <1>4 DEF ReadTask, ReconcileReads
  <2>6. QED
    BY <1>1, <1>3, <2>2, <2>4, <2>5 DEF Sound, AppliedTypes
<1>5. CASE MarkProcessing(w, e)
  <2>1. PICK seen \in TaskStatus :
            /\ Write(e.job, seen, "PROCESSING")
            /\ Advance(e, At(e, "marking", seen), At(e, "working", "NONE"))
    BY <1>5 DEF MarkProcessing
  <2> DEFINE y == At(e, "working", "NONE")
  <2>2. y \in Work /\ y.at # "done"
    BY <1>1, <1>2, AtIsWork
  <2> HIDE DEF y
  <2>3. /\ work' \in [Job -> SUBSET Work]
        /\ \A j \in Job : \A x \in work'[j] : x \in work[j] \/ (j = e.job /\ x = y)
    BY <1>1, <1>2, <2>1, <2>2, AdvanceKeepsType DEF y
  <2>4. /\ task' \in [Job -> TaskStatus]
        /\ \A j \in Job : task'[j] = "COMPLETED" => task[j] = "COMPLETED"
    BY <1>1, <1>2, <2>1, WriteKeepsType
  <2>5. UNCHANGED <<jobs, execs, results, announced, api>>
    BY <1>5 DEF MarkProcessing
  <2>6. QED
    BY <1>1, <1>3, <2>2, <2>3, <2>4, <2>5 DEF Sound, AppliedTypes
<1>6. CASE ReadForComplete(w, e)
  <2> DEFINE y == At(e, "completing", task[e.job])
  <2>1. y \in Work /\ y.at # "done"
    BY <1>1, <1>2, AtIsWork
  <2>2. Advance(e, At(e, "working", "NONE"), y)
    BY <1>6 DEF ReadForComplete
  <2> HIDE DEF y
  <2>3. /\ work' \in [Job -> SUBSET Work]
        /\ \A j \in Job : \A x \in work'[j] : x \in work[j] \/ (j = e.job /\ x = y)
    BY <1>1, <1>2, <2>1, <2>2, AdvanceKeepsType
  <2>4. UNCHANGED <<jobs, execs, task, results, announced, api>>
    BY <1>6 DEF ReadForComplete
  <2>5. QED
    BY <1>1, <1>3, <2>1, <2>3, <2>4 DEF Sound, AppliedTypes
<1>7. CASE CompleteTask(w, e)
  <2>1. PICK seen \in TaskStatus :
            /\ Write(e.job, seen, "COMPLETED")
            /\ Advance(e, At(e, "completing", seen), At(e, "done", "NONE"))
    BY <1>7 DEF CompleteTask
  <2> DEFINE y == At(e, "done", "NONE")
  <2>2. y \in Work
    BY <1>1, <1>2, AtIsWork
  <2> HIDE DEF y
  <2>3. /\ work' \in [Job -> SUBSET Work]
        /\ \A j \in Job : \A x \in work'[j] : x \in work[j] \/ (j = e.job /\ x = y)
    BY <1>1, <1>2, <2>1, <2>2, AdvanceKeepsType DEF y
  <2>4. /\ task' \in [Job -> TaskStatus]
        /\ \A j \in Job : task'[j] = "COMPLETED" => task[j] = "COMPLETED" \/ j = e.job
    BY <1>1, <1>2, <2>1, WriteKeepsType
  <2>5. /\ UNCHANGED <<jobs, execs, api>>
        /\ results' = results \cup {e.job} /\ announced' = announced \cup {e.job}
    BY <1>7 DEF CompleteTask
  <2>6. Out(e.job)'
    BY <2>5 DEF Out
  <2>7. \A j \in Job : j = e.job => Out(j)'
    BY <2>6
  <2>8. AppliedTypes'
    BY <1>1, <2>3, <2>4, <2>5 DEF AppliedTypes
  <2>9. QED
    BY <1>3, <2>3, <2>4, <2>5, <2>7, <2>8 DEF Sound
<1>8. QED
  BY <1>4, <1>5, <1>6, <1>7

(* Steps of the coroutine that only drop what it was about.                  *)
LEMMA DropIsSound ==
  ASSUME AppliedInv, NEW e \in Exec, Drop(e) \/ UNCHANGED work,
         UNCHANGED <<results, announced, api>>,
         task' \in [Job -> TaskStatus],
         \A j \in Job : task'[j] = "COMPLETED" => task[j] = "COMPLETED",
         \A j \in Job : jobs'[j].status = "SUCCEEDED"
           => jobs[j].status = "SUCCEEDED" \/ \E w \in Worker : Finishing(execs[w], j),
         \A w \in Worker, j \in Job :
           Finishing(execs'[w], j) => Finishing(execs[w], j) \/ Out(j)
  PROVE  Sound
<1>1. AppliedTypes
  BY DEF AppliedInv
<1>2. /\ work' \in [Job -> SUBSET Work]
      /\ \A j \in Job : work'[j] \subseteq work[j]
  BY <1>1, DropKeepsType DEF AppliedTypes
<1>3. QED
  BY <1>1, <1>2 DEF Sound, AppliedTypes

LEMMA CoroutineStepsSound ==
  ASSUME AppliedInv, NEW w \in Worker, NEW e \in execs[w],
         \/ HandlerDone(w, e) \/ HandlerStopped(w, e) \/ AppliedHeartbeat(w, e)
         \/ AppliedSettle(w, e) \/ ReconcileEnds(w, e)
  PROVE  Sound
<1>1. Inv /\ AppliedTypes /\ e \in Exec /\ e.job \in Job
  BY DEF AppliedInv, Inv, QueueInv, TypeOK, Exec
<1>2. UNCHANGED task =>
        /\ task' \in [Job -> TaskStatus]
        /\ \A j \in Job : task'[j] = "COMPLETED" => task[j] = "COMPLETED"
  BY <1>1 DEF AppliedTypes
<1>3. CASE HandlerDone(w, e)
  <2>1. Out(e.job)
    <3>1. CASE At(e, "done", "NONE") \in work[e.job]
      <4>1. At(e, "done", "NONE").at = "done"
        BY DEF At
      <4>2. QED
        BY <1>1, <3>1, <4>1 DEF AppliedInv
    <3>2. CASE NothingToDo(e.job)
      BY <1>1, <3>2 DEF NothingToDo, AppliedInv, CompletionIsAnnounced, Out
    <3>3. QED
      BY <1>3, <3>1, <3>2 DEF HandlerDone
  <2>2. /\ UNCHANGED jobs
        /\ \A v \in Worker, j \in Job :
              Finishing(execs'[v], j) => Finishing(execs[v], j) \/ j = e.job
    BY <1>1, <1>3, ReturnFinishesItsJob DEF HandlerDone
  <2>3. QED
    BY <1>1, <1>2, <1>3, <2>1, <2>2, DropIsSound DEF HandlerDone
<1>4. CASE HandlerStopped(w, e) \/ AppliedHeartbeat(w, e)
  <2>1. NothingFinishes
    BY <1>1, <1>4, ExecStepsFinishNothing DEF HandlerStopped, AppliedHeartbeat
  <2>2. Drop(e) \/ UNCHANGED work
    BY <1>4 DEF HandlerStopped, AppliedHeartbeat
  <2>3. UNCHANGED <<task, results, announced, api>>
    BY <1>4 DEF HandlerStopped, AppliedHeartbeat
  <2>4. QED
    BY <1>1, <1>2, <2>1, <2>2, <2>3, DropIsSound DEF NothingFinishes
<1>5. CASE AppliedSettle(w, e)
  <2>1. Drop(e) /\ UNCHANGED <<task, results, announced, api>>
    BY <1>5 DEF AppliedSettle
  <2>2. CASE Complete(w, e)
    <3>1. /\ e.pc = "checked"
          /\ \A v \in Worker, j \in Job : Finishing(execs'[v], j) => Finishing(execs[v], j)
          /\ \A j \in Job : jobs'[j].status = "SUCCEEDED"
               => jobs[j].status = "SUCCEEDED" \/ j = e.job
      BY <1>1, <2>2, CompleteFinishesItsJob
    <3>2. Finishing(execs[w], e.job)
      BY <3>1 DEF Finishing
    <3>3. QED
      BY <1>1, <1>2, <2>1, <3>1, <3>2, DropIsSound
  <2>3. CASE \/ CheckpointPasses(w, e) \/ Fail(w, e) \/ MarkCancelled(w, e)
             \/ Abandon(w, e) \/ Abort(w, e)
    <3>1. NothingFinishes
      BY <1>1, <2>3, ExecStepsFinishNothing
    <3>2. QED
      BY <1>1, <1>2, <2>1, <3>1, DropIsSound DEF NothingFinishes
  <2>4. QED
    BY <1>5, <2>2, <2>3 DEF AppliedSettle
<1>6. CASE ReconcileEnds(w, e)
  <2>1. NothingFinishes
    BY <1>1, <1>6, ExecStepsFinishNothing DEF ReconcileEnds
  <2>2. TerminalStatus(e) \in TaskStatus \ {"COMPLETED"}
    BY DEF TerminalStatus, TaskStatus
  <2>3. /\ task' \in [Job -> TaskStatus]
        /\ \A j \in Job : task'[j] = "COMPLETED" => task[j] = "COMPLETED"
    <3>1. CASE UNCHANGED task
      BY <1>2, <3>1
    <3>2. ASSUME NEW seen \in TaskStatus, Write(e.job, seen, TerminalStatus(e))
          PROVE  /\ task' \in [Job -> TaskStatus]
                 /\ \A j \in Job : task'[j] = "COMPLETED" => task[j] = "COMPLETED"
      BY <1>1, <2>2, <3>2, WriteKeepsType DEF AppliedTypes
    <3>3. QED
      BY <1>6, <3>1, <3>2 DEF ReconcileEnds
  <2>4. QED
    BY <1>1, <1>6, <2>1, <2>3, DropIsSound DEF NothingFinishes, ReconcileEnds
<1>7. QED
  BY <1>3, <1>4, <1>5, <1>6

LEMMA QueueStepsSound ==
  ASSUME AppliedInv, AppliedQueueStep \/ \E w \in Worker : AppliedCrash(w)
  PROVE  Sound
<1>1. Inv /\ AppliedTypes
  BY DEF AppliedInv
<1>2. NothingFinishes
  BY <1>1, QueueStepsFinishNothing DEF AppliedQueueStep, AppliedCrash, JobStep
<1>3. UNCHANGED <<task, results, announced, api>>
  BY DEF AppliedQueueStep, AppliedCrash, taskVars
<1>4. /\ work' \in [Job -> SUBSET Work]
      /\ \A j \in Job : work'[j] \subseteq work[j]
  BY <1>1 DEF AppliedQueueStep, AppliedCrash, taskVars, AppliedTypes
<1>5. QED
  BY <1>1, <1>2, <1>3, <1>4 DEF Sound, AppliedTypes, NothingFinishes

LEMMA OperatorStepsSound ==
  ASSUME AppliedInv, NEW j \in Job, AppliedJobStep(j)
  PROVE  Sound
<1>1. Inv /\ AppliedTypes
  BY DEF AppliedInv
<1>2. /\ "PENDING" \in TaskStatus /\ "CANCELLED" \in TaskStatus /\ task[j] \in TaskStatus
      /\ \A kind \in {"retry", "cancel"}, seen \in TaskStatus \cup {"UNREAD"} :
           Asked(kind, seen) \in Request
  BY <1>1 DEF AppliedTypes, TaskStatus, Asked, Request
<1>3. UNCHANGED <<results, announced, work>>
  BY DEF AppliedJobStep, RequestTask, CancelTask, RetryTask, ApiReads, ApiWrites, ApiDies
<1>4. NothingFinishes
  <2>1. CASE UNCHANGED <<jobs, execs>>
    BY <2>1 DEF NothingFinishes
  <2>2. CASE JobStep(j)
    BY <1>1, <2>2, QueueStepsFinishNothing
  <2>3. QED
    BY <2>1, <2>2
    DEF AppliedJobStep, RequestTask, CancelTask, RetryTask, ApiReads, ApiWrites, ApiDies, JobStep
<1>5. /\ task' \in [Job -> TaskStatus]
      /\ \A i \in Job : task'[i] = "COMPLETED" => task[i] = "COMPLETED"
  <2>1. CASE UNCHANGED task
    BY <1>1, <2>1 DEF AppliedTypes
  <2>2. CASE RequestTask(j)
    BY <1>1, <1>2, <2>2 DEF RequestTask, AppliedTypes
  <2>3. CASE ApiWrites(j)
    <3>1. PICK kind \in {"retry", "cancel"}, seen \in TaskStatus :
              Write(j, seen, IF kind = "cancel" THEN "CANCELLED" ELSE "PENDING")
      BY <2>3 DEF ApiWrites
    <3>2. (IF kind = "cancel" THEN "CANCELLED" ELSE "PENDING") \in TaskStatus \ {"COMPLETED"}
      BY <1>2
    <3>3. QED
      BY <1>1, <3>1, <3>2, WriteKeepsType DEF AppliedTypes
  <2>4. QED
    BY <2>1, <2>2, <2>3 DEF AppliedJobStep, CancelTask, RetryTask, ApiReads, ApiDies
<1>6. api' \in [Job -> SUBSET Request]
  <2>1. ASSUME NEW A \in SUBSET Request, api' = [api EXCEPT ![j] = A]
        PROVE  api' \in [Job -> SUBSET Request]
    BY <1>1, <2>1 DEF AppliedTypes
  <2>2. api[j] \in SUBSET Request /\ api \in [Job -> SUBSET Request]
    BY <1>1 DEF AppliedTypes
  <2>3. CASE RequestTask(j)
    BY <2>2, <2>3 DEF RequestTask
  <2>4. CASE CancelTask(j)
    <3> DEFINE A == IF jobs'[j].status = "CANCELLED"
                    THEN api[j] \cup {Asked("cancel", "UNREAD")} ELSE api[j]
    <3>1. A \in SUBSET Request
      BY <1>2, <2>2
    <3>2. api' = [api EXCEPT ![j] = A]
      BY <2>4 DEF CancelTask
    <3> HIDE DEF A
    <3>3. QED
      BY <2>1, <3>1, <3>2
  <2>5. CASE RetryTask(j)
    <3> DEFINE A == api[j] \cup {Asked("retry", "UNREAD")}
    <3>1. A \in SUBSET Request
      BY <1>2, <2>2
    <3>2. api' = [api EXCEPT ![j] = A]
      BY <2>5 DEF RetryTask
    <3> HIDE DEF A
    <3>3. QED
      BY <2>1, <3>1, <3>2
  <2>6. CASE ApiReads(j)
    <3>1. PICK kind \in {"retry", "cancel"} :
              api' = [api EXCEPT ![j] =
                        (api[j] \ {Asked(kind, "UNREAD")})
                        \cup (IF kind = "cancel" /\ Settled(j)
                              THEN {} ELSE {Asked(kind, task[j])})]
      BY <2>6 DEF ApiReads
    <3> DEFINE A == (api[j] \ {Asked(kind, "UNREAD")})
                      \cup (IF kind = "cancel" /\ Settled(j)
                            THEN {} ELSE {Asked(kind, task[j])})
    <3>2. A \in SUBSET Request
      BY <1>2, <2>2
    <3>3. api' = [api EXCEPT ![j] = A]
      BY <3>1
    <3> HIDE DEF A
    <3>4. QED
      BY <2>1, <3>2, <3>3
  <2>7. CASE ApiWrites(j)
    BY <2>1, <2>2, <2>7 DEF ApiWrites
  <2>8. CASE ApiDies(j)
    BY <2>2, <2>8 DEF ApiDies
  <2>9. QED
    BY <2>3, <2>4, <2>5, <2>6, <2>7, <2>8 DEF AppliedJobStep
<1>7. QED
  BY <1>1, <1>3, <1>4, <1>5, <1>6 DEF Sound, AppliedTypes, NothingFinishes

-----------------------------------------------------------------------------
LEMMA AppliedInvInit == AppliedInit => AppliedInv
<1> SUFFICES ASSUME AppliedInit PROVE AppliedInv
  OBVIOUS
<1>1. Init /\ Inv
  BY InvInit DEF AppliedInit
<1>2. AppliedTypes
  BY DEF AppliedInit, AppliedTypes, TaskStatus
<1>3. \A j \in Job : task[j] = "NONE" /\ jobs[j].status = "ABSENT" /\ work[j] = {}
  BY <1>1 DEF AppliedInit, Init, Absent
<1>4. \A w \in Worker : execs[w] = {}
  BY <1>1 DEF Init
<1>5. QED
  BY <1>1, <1>2, <1>3, <1>4 DEF AppliedInv, CompletionIsAnnounced, Finishing

LEMMA AppliedInvNext == AppliedInv /\ [AppliedNext]_appliedVars => AppliedInv'
<1> SUFFICES ASSUME AppliedInv, [AppliedNext]_appliedVars PROVE AppliedInv'
  OBVIOUS
<1>1. Inv'
  <2>1. [Next]_vars
    BY AppliedStepIsQueueStep
  <2>2. QED
    BY <2>1, InvNext DEF AppliedInv
<1>2. CASE AppliedQueueStep \/ \E w \in Worker : AppliedCrash(w)
  BY <1>1, <1>2, QueueStepsSound, SoundKeepsInv
<1>3. ASSUME NEW w \in Worker, NEW e \in execs[w], AppliedWorkerStep(w, e)
      PROVE  AppliedInv'
  <2>1. Sound
    BY <1>3, HandlerStepsSound, CoroutineStepsSound DEF AppliedWorkerStep
  <2>2. QED
    BY <1>1, <2>1, SoundKeepsInv
<1>4. ASSUME NEW j \in Job, AppliedJobStep(j)
      PROVE  AppliedInv'
  BY <1>1, <1>4, OperatorStepsSound, SoundKeepsInv
<1>5. CASE UNCHANGED appliedVars
  BY <1>1, <1>5
  DEF appliedVars, taskVars, AppliedInv, AppliedTypes, CompletionIsAnnounced, Finishing, Out
<1>6. QED
  BY <1>2, <1>3, <1>4, <1>5 DEF AppliedNext

LEMMA AppliedInvHolds == AppliedSpec => []AppliedInv
  BY AppliedInvInit, AppliedInvNext, PTL DEF AppliedSpec

(* Tasks, the coroutines' places and the operators' requests keep their types *)
(* for any sets of jobs and workers (models.py, AppliedWorkflowTaskModel).     *)
THEOREM AppliedTypeCorrect == AppliedSpec => []AppliedTypeOK
<1>1. AppliedInv => AppliedTypeOK
  BY DEF AppliedInv, AppliedTypes, AppliedTypeOK, Inv, QueueInv
<1>2. QED
  BY <1>1, AppliedInvHolds, PTL

(* However many workers, stale attempts and operators write the unlocked task *)
(* (jobs/handlers.py, jobs/lifecycle.py), work shown as done was recorded and  *)
(* announced.                                                                  *)
THEOREM CompletionHolds == AppliedSpec => []CompletionIsAnnounced
<1>1. AppliedInv => CompletionIsAnnounced
  BY DEF AppliedInv
<1>2. QED
  BY <1>1, AppliedInvHolds, PTL

=============================================================================
