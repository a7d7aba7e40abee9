--------------------------- MODULE CaseRunsProofs ---------------------------
(***************************************************************************)
(* Proofs about CaseRuns, for any sets of jobs and workers, any number of   *)
(* cases and any bounds.  Job and worker steps are those of JobQueue, so    *)
(* the queue's invariant holds here.                                       *)
(*                                                                         *)
(* CaseInv adds who is inside a runner (HeldInv: a coroutine that is still   *)
(* in its handler or its reconciler, and each of them once), what has been   *)
(* recorded before a case (SlotsInv), the property itself (ResultsInv), and  *)
(* why a second coroutine cannot take an evaluation over (AloneInv).         *)
(***************************************************************************)
EXTENDS CaseRuns, JobQueueProofs

(* A coroutine of attempt n of job j stands at one of the places.            *)
Stands(j, n, places) ==
    \E w \in Worker : \E e \in execs[w] : e.job = j /\ e.attempt = n /\ e.pc \in places

Places(x) ==
    IF x.at = "reconciling" THEN {"reconcile_fail", "reconcile_cancel"} ELSE {"handler"}

HeldInv ==
    \A j \in Job : \A x \in work[j] :
        /\ Stands(j, x.attempt, Places(x))
        /\ \A y \in work[j] : y.attempt = x.attempt => y = x

(* The cases before the one a runner is at have their rows, and a row that    *)
(* was there when it was read is there when it is written.                    *)
Fits(j, x) ==
    /\ x.at \in {"calling", "writing"} => x.slot <= Slots
    /\ x.at = "reconciling" => ~Evaluation(j)
    /\ x.at # "reconciling" => \A s \in 1..Slots : s < x.slot => rows[j][s] # "NONE"
    /\ x.at = "writing" /\ ~Evaluation(j) /\ x.seen # "NONE" => rows[j][x.slot] # "NONE"

SlotsInv == \A j \in Job : \A x \in work[j] : Fits(j, x)

ResultsInv ==
    \A j \in Job :
        /\ run[j] = "COMPLETED" => j \in results
        /\ j \in results => \A s \in 1..Slots : rows[j][s] # "NONE"
        /\ kind[j] = "experiment" => (j \in results <=> j \in announced)

(* The runner has done its part: it is at its end or has returned, or the job  *)
(* has SUCCEEDED.                                                            *)
Through(j) ==
    \/ \E x \in work[j] : x.at = "done"
    \/ \E w \in Worker : Finishing(execs[w], j)
    \/ jobs[j].status = "SUCCEEDED"

Busy(j) == {x \in work[j] : x.at # "done"}

AloneAt(j) ==
    /\ api[j] = {}
    /\ \A x \in Busy(j) : run[j] = "RUNNING" /\ Busy(j) = {x}
    /\ Through(j) => run[j] = "COMPLETED"

AloneInv == \A j \in Job : Evaluation(j) => AloneAt(j)

CaseInv == Inv /\ CaseTypeOK /\ HeldInv /\ SlotsInv /\ ResultsInv /\ AloneInv

-----------------------------------------------------------------------------
(* The queue is left as it is, or takes a step of its own.                   *)

LEMMA CoroutineIsQueueStep ==
  ASSUME NEW w \in Worker, NEW e \in execs[w],
         Heartbeat(w, e) \/ ExecStep(w, e) \/ Abort(w, e)
  PROVE  Next
  BY DEF WorkerStep, Next

LEMMA OperatorIsQueueStep ==
  ASSUME NEW j \in Job, JobStep(j)
  PROVE  Next
  BY DEF Next

(* What stays inside a runner does not touch the queue.                      *)
Inside(w, e) ==
    \/ StartExperiment(w, e) \/ StartComparison(w, e) \/ StartEvaluation(w, e)
    \/ LookUpExperimentCase(w, e) \/ LookUpProviderCase(w, e) \/ BeginEvaluationCase(w, e)
    \/ CallReturns(w, e) \/ CaseCollected(w, e) \/ FactoryFails(w, e)
    \/ RecordExperimentCase(w, e) \/ RecordProviderCase(w, e) \/ UpsertResult(w, e)
    \/ ConcludeExperiment(w, e) \/ ConcludeComparison(w, e) \/ FinishEvaluation(w, e)
    \/ ReconcileReads(w, e)

LEMMA InsideLeavesQueue ==
  ASSUME NEW w \in Worker, NEW e \in execs[w], Inside(w, e)
  PROVE  UNCHANGED <<jobs, execs, kind, api>>
<1>1. CASE StartExperiment(w, e) \/ StartComparison(w, e) \/ StartEvaluation(w, e)
  BY <1>1 DEF StartExperiment, StartComparison, StartEvaluation, Start
<1>2. CASE LookUpExperimentCase(w, e) \/ LookUpProviderCase(w, e) \/ BeginEvaluationCase(w, e)
  BY <1>2 DEF LookUpExperimentCase, LookUpProviderCase, BeginEvaluationCase
<1>3. CASE CallReturns(w, e) \/ CaseCollected(w, e) \/ FactoryFails(w, e)
  BY <1>3 DEF CallReturns, CaseCollected, FactoryFails
<1>4. CASE RecordExperimentCase(w, e) \/ RecordProviderCase(w, e) \/ UpsertResult(w, e)
  BY <1>4 DEF RecordExperimentCase, RecordProviderCase, UpsertResult
<1>5. CASE ConcludeExperiment(w, e) \/ ConcludeComparison(w, e) \/ FinishEvaluation(w, e)
           \/ ReconcileReads(w, e)
  BY <1>5 DEF ConcludeExperiment, ConcludeComparison, FinishEvaluation, ReconcileReads
<1>6. QED
  BY <1>1, <1>2, <1>3, <1>4, <1>5 DEF Inside

(* What leaves a runner by an exception.                                     *)
LEMMA FailuresRaise ==
  ASSUME NEW w \in Worker, NEW e \in execs[w],
         \/ RefuseRun(w, e) \/ CaseFails(w, e) \/ CaseCollides(w, e)
         \/ ComparisonFails(w, e) \/ RunRaises(w, e)
  PROVE  HandlerRaises(w, e)
<1>1. CASE RefuseRun(w, e) \/ CaseCollides(w, e)
  BY <1>1 DEF RefuseRun, CaseCollides, HandlerRaises
<1>2. CASE ComparisonFails(w, e)
  BY <1>2 DEF ComparisonFails, LastDone, HandlerRaises
<1>3. CASE CaseFails(w, e) \/ RunRaises(w, e)
  BY <1>3 DEF CaseFails, RunRaises
<1>4. QED
  BY <1>1, <1>2, <1>3

LEMMA CoroutineLeaves ==
  ASSUME NEW w \in Worker, NEW e \in execs[w], CaseWorkerStep(w, e), ~Inside(w, e)
  PROVE  \/ HandlerRaises(w, e) \/ HandlerReturns(w, e) \/ CheckpointCancels(w, e)
         \/ Heartbeat(w, e) \/ CheckpointPasses(w, e) \/ Complete(w, e) \/ Fail(w, e)
         \/ MarkCancelled(w, e) \/ Abandon(w, e) \/ Abort(w, e) \/ Reconciled(w, e)
<1>1. \/ RefuseRun(w, e) \/ CaseFails(w, e) \/ CaseCollides(w, e)
      \/ ComparisonFails(w, e) \/ RunRaises(w, e)
      \/ RunReturns(w, e) \/ RunCancelled(w, e)
      \/ RunHeartbeat(w, e) \/ RunSettle(w, e) \/ ReconcileEnds(w, e)
  BY DEF CaseWorkerStep, Inside
<1>2. CASE RunReturns(w, e)
  BY <1>2 DEF RunReturns
<1>3. CASE RunCancelled(w, e)
  BY <1>3 DEF RunCancelled
<1>4. CASE RunHeartbeat(w, e)
  BY <1>4 DEF RunHeartbeat
<1>5. CASE RunSettle(w, e)
  BY <1>5 DEF RunSettle
<1>6. CASE ReconcileEnds(w, e)
  BY <1>6 DEF ReconcileEnds
<1>7. QED
  BY <1>1, <1>2, <1>3, <1>4, <1>5, <1>6, FailuresRaise

LEMMA CancelWithJobIsQueueStep ==
  ASSUME NEW j \in Job, NEW seen, CancelWithJob(j, seen)
  PROVE  UNCHANGED vars \/ Cancel(j)
  BY DEF CancelWithJob, Cancel, vars

(* Every action of CaseRuns is a step of JobQueue, or none.                   *)
LEMMA CaseStepIsQueueStep ==
  ASSUME [CaseNext]_caseVars
  PROVE  [Next]_vars
<1>1. CASE CaseQueueStep
  BY <1>1 DEF CaseQueueStep, Next, WorkerStep, JobStep
<1>2. ASSUME NEW w \in Worker, RunCrash(w)
      PROVE  Next
  BY <1>2 DEF RunCrash, Next, WorkerStep
<1>3. ASSUME NEW w \in Worker, NEW e \in execs[w], CaseWorkerStep(w, e)
      PROVE  [Next]_vars
  <2>1. CASE Inside(w, e)
    BY <2>1, InsideLeavesQueue DEF vars
  <2>2. CASE ~Inside(w, e)
    BY <1>3, <2>2, CoroutineLeaves, CoroutineIsQueueStep DEF ExecStep
  <2>3. QED
    BY <2>1, <2>2
<1>4. ASSUME NEW j \in Job, CaseJobStep(j)
      PROVE  [Next]_vars
  <2>1. CASE \/ CreateExperiment(j) \/ CreateComparison(j) \/ RequestEvaluation(j)
             \/ CancelReads(j) \/ ApiReads(j) \/ ApiWrites(j) \/ ApiDies(j)
    BY <2>1 DEF CreateExperiment, CreateComparison, RequestEvaluation, CreateAs,
                CancelReads, ApiReads, ApiWrites, ApiDies, vars
  <2>2. CASE RunExperiment(j) \/ RunComparison(j) \/ ConsumeRequest(j) \/ RetryJob(j)
    BY <2>2, OperatorIsQueueStep
    DEF RunExperiment, RunComparison, SubmitAs, ConsumeRequest, RetryJob, JobStep
  <2>3. CASE CancelComparison(j) \/ CancelWrites(j)
    <3>1. UNCHANGED vars \/ Cancel(j)
      BY <2>3, CancelWithJobIsQueueStep DEF CancelComparison, CancelWrites
    <3>2. QED
      BY <3>1, OperatorIsQueueStep DEF JobStep
  <2>4. CASE CancelJob(j)
    BY <2>4, OperatorIsQueueStep DEF CancelJob, JobStep, vars
  <2>5. QED
    BY <1>4, <2>1, <2>2, <2>3, <2>4 DEF CaseJobStep
<1>5. CASE UNCHANGED caseVars
  BY <1>5 DEF caseVars, vars
<1>6. QED
  BY <1>1, <1>2, <1>3, <1>4, <1>5 DEF CaseNext

(* Everything proved of the queue holds of the queue under the runners.      *)
THEOREM CaseRunsAreAQueue == CaseSpec => Spec
<1>1. CaseInit => Init
  BY DEF CaseInit
<1>2. [CaseNext]_caseVars => [Next]_vars
  BY CaseStepIsQueueStep
<1>3. QED
  BY <1>1, <1>2, PTL DEF CaseSpec, Spec
-----------------------------------------------------------------------------
(* The coroutines.                                                          *)

(* Every coroutine but e stays at its place.                                 *)
OthersStay(e) ==
    \A v \in Worker : \A f \in execs[v] : f # e =>
        \E g \in execs'[v] : g.job = f.job /\ g.attempt = f.attempt /\ g.pc = f.pc

LEMMA GotoOthersStay ==
  ASSUME execs \in [Worker -> SUBSET Exec], NEW w \in Worker, NEW e \in execs[w],
         NEW pc, Goto(w, e, pc)
  PROVE  OthersStay(e)
<1>1. /\ \A v \in Worker : v # w => execs'[v] = execs[v]
      /\ execs'[w] = (execs[w] \ {e}) \cup {[e EXCEPT !.pc = pc]}
  BY DEF Goto
<1>2. \A v \in Worker : \A f \in execs[v] : f # e => f \in execs'[v]
  BY <1>1
<1>3. QED
  BY <1>2 DEF OthersStay

LEMMA LeaveOthersStay ==
  ASSUME execs \in [Worker -> SUBSET Exec], NEW w \in Worker, NEW e \in execs[w],
         Leave(w, e)
  PROVE  OthersStay(e)
<1>1. \A v \in Worker : v # w => execs'[v] = execs[v]
  BY DEF Leave, Finish, Raise
<1>2. ASSUME NEW f \in execs[w], f # e
      PROVE  \E g \in execs'[w] : g.job = f.job /\ g.attempt = f.attempt /\ g.pc = f.pc
  <2>1. CASE execs'[w] = execs[w] \ {e}
    BY <1>2, <2>1
  <2>2. CASE execs'[w] = {[x EXCEPT !.awaited = FALSE] : x \in execs[w] \ {e}}
    <3> DEFINE g == [f EXCEPT !.awaited = FALSE]
    <3>1. g \in execs'[w]
      BY <1>2, <2>2
    <3>2. f \in Exec
      BY <1>2
    <3>3. g.job = f.job /\ g.attempt = f.attempt /\ g.pc = f.pc
      BY <3>2 DEF Exec
    <3>4. QED
      BY <3>1, <3>3
  <2>3. QED
    BY <2>1, <2>2 DEF Leave, Finish, Raise
<1>3. QED
  BY <1>1, <1>2 DEF OthersStay

LEMMA CoroutineOthersStay ==
  ASSUME Inv, NEW w \in Worker, NEW e \in execs[w],
         \/ HandlerRaises(w, e) \/ HandlerReturns(w, e) \/ CheckpointCancels(w, e)
         \/ Heartbeat(w, e) \/ CheckpointPasses(w, e) \/ Complete(w, e) \/ Fail(w, e)
         \/ MarkCancelled(w, e) \/ Abandon(w, e) \/ Abort(w, e) \/ Reconciled(w, e)
  PROVE  OthersStay(e)
<1>1. execs \in [Worker -> SUBSET Exec]
  BY DEF Inv, QueueInv, TypeOK
<1>2. \/ UNCHANGED execs \/ Leave(w, e)
      \/ \E pc \in ExecPc : Goto(w, e, pc)
  <2>1. CASE HandlerRaises(w, e) \/ HandlerReturns(w, e) \/ CheckpointCancels(w, e)
             \/ Heartbeat(w, e) \/ CheckpointPasses(w, e)
    BY <2>1 DEF HandlerRaises, HandlerReturns, CheckpointCancels, Heartbeat, CheckpointPasses,
                ExecPc
  <2>2. CASE Complete(w, e) \/ Fail(w, e) \/ MarkCancelled(w, e)
    BY <2>2 DEF Complete, Fail, MarkCancelled, Leave, ExecPc
  <2>3. CASE Abandon(w, e) \/ Abort(w, e) \/ Reconciled(w, e)
    BY <2>3 DEF Abandon, Abort, Reconciled, Leave
  <2>4. QED
    BY <2>1, <2>2, <2>3
<1>3. CASE UNCHANGED execs
  BY <1>3 DEF OthersStay
<1>4. QED
  BY <1>1, <1>2, <1>3, GotoOthersStay, LeaveOthersStay

(* An attempt is run by one coroutine.                                       *)
LEMMA OneCoroutine ==
  ASSUME Inv, NEW v \in Worker, NEW w \in Worker, NEW f \in execs[v], NEW e \in execs[w],
         f.job = e.job, f.attempt = e.attempt
  PROVE  f = e /\ v = w
<1>1. ExecInv(execs[v], v, jobs) /\ ExecInv(execs[w], w, jobs)
  BY DEF Inv
<1>2. v = w
  BY <1>1 DEF ExecInv, OwnerOf
<1>3. QED
  BY <1>1, <1>2 DEF ExecInv

-----------------------------------------------------------------------------
(* Who is inside a runner.                                                  *)

(* All that coroutine e is about becomes Y.                                  *)
Takes(e, Y) == work' = [work EXCEPT ![e.job] = (work[e.job] \ Mine(e)) \cup Y]

LEMMA AdvanceMoves ==
  ASSUME HeldInv, NEW e, e.job \in Job, NEW x \in Mine(e), NEW y, Advance(e, x, y)
  PROVE  Takes(e, {y}) /\ Mine(e) = {x}
<1>1. Mine(e) = {x}
  BY DEF HeldInv, Mine
<1>2. QED
  BY <1>1 DEF Advance, Takes

LEMMA EnterMoves ==
  ASSUME NEW e, NEW at, NEW seen, Idling(e), Enter(e, at, seen)
  PROVE  Takes(e, {[attempt |-> e.attempt, at |-> at, slot |-> 1,
                    seen |-> seen, outcome |-> "COMPLETED"]})
  BY DEF Idling, Enter, Takes

LEMMA DropMoves ==
  ASSUME NEW e, Drop(e)
  PROVE  Takes(e, {})
  BY DEF Drop, Takes

(* Who else is inside a runner is left there.                                *)
LEMMA MovesHold ==
  ASSUME Inv, CaseTypeOK, HeldInv, NEW w \in Worker, NEW e \in execs[w],
         NEW Y \in SUBSET Work,
         \A y \in Y : y.attempt = e.attempt /\ Stands(e.job, e.attempt, Places(y))',
         \A x, y \in Y : x = y,
         Takes(e, Y), OthersStay(e)
  PROVE  work' \in [Job -> SUBSET Work] /\ HeldInv'
<1>1. e.job \in Job /\ work \in [Job -> SUBSET Work]
  BY DEF Inv, QueueInv, TypeOK, Exec, CaseTypeOK
<1>2. /\ work' \in [Job -> SUBSET Work]
      /\ work'[e.job] = (work[e.job] \ Mine(e)) \cup Y
      /\ \A j \in Job : j # e.job => work'[j] = work[j]
  BY <1>1 DEF Takes
<1>3. ASSUME NEW j \in Job, NEW x \in work[j], j = e.job => x \notin Mine(e)
      PROVE  Stands(j, x.attempt, Places(x))'
  <2>1. PICK v \in Worker : \E f \in execs[v] :
            f.job = j /\ f.attempt = x.attempt /\ f.pc \in Places(x)
    BY <1>3 DEF HeldInv, Stands
  <2>2. PICK f \in execs[v] : f.job = j /\ f.attempt = x.attempt /\ f.pc \in Places(x)
    BY <2>1
  <2>3. f # e
    BY <1>3, <2>2 DEF Mine
  <2>4. PICK g \in execs'[v] : g.job = f.job /\ g.attempt = f.attempt /\ g.pc = f.pc
    BY <2>3 DEF OthersStay
  <2>5. QED
    BY <2>2, <2>4 DEF Stands
<1>4. ASSUME NEW j \in Job, NEW x \in work'[j], NEW y \in work'[j]
      PROVE  /\ Stands(j, x.attempt, Places(x))'
             /\ y.attempt = x.attempt => y = x
  <2>1. CASE j # e.job
    BY <1>2, <1>3, <1>4, <2>1 DEF HeldInv
  <2>2. CASE j = e.job
    <3>1. Stands(j, x.attempt, Places(x))'
      BY <1>2, <1>3, <1>4, <2>2
    <3>2. \A z \in work[j] \ Mine(e) : z.attempt # e.attempt
      BY <2>2 DEF Mine
    <3>3. y.attempt = x.attempt => y = x
      BY <1>2, <1>4, <2>2, <3>2 DEF HeldInv
    <3>4. QED
      BY <3>1, <3>3
  <2>3. QED
    BY <2>1, <2>2
<1>5. QED
  BY <1>2, <1>4 DEF HeldInv

-----------------------------------------------------------------------------
(* What a step has to respect.                                              *)

(* No row of a case is taken back.                                           *)
RowsKept == \A j \in Job : \A s \in 1..Slots : rows[j][s] # "NONE" => rows'[j][s] # "NONE"

LEMMA SlotsKept ==
  ASSUME CaseTypeOK, SlotsInv, RowsKept, kind' = kind,
         work' \in [Job -> SUBSET Work],
         \A j \in Job : \A x \in work'[j] : x \in work[j] \/ Fits(j, x)'
  PROVE  SlotsInv'
<1>1. ASSUME NEW j \in Job, NEW x \in work[j]
      PROVE  Fits(j, x)'
  <2>1. x \in Work /\ Slots \in Nat
    BY <1>1, CaseRunsAssumption DEF CaseTypeOK
  <2>2. x.slot \in 1..Slots + 1
    BY <2>1 DEF Work
  <2>3. Fits(j, x)
    BY <1>1 DEF SlotsInv
  <2>4. x.at = "writing" => x.slot \in 1..Slots
    BY <2>1, <2>2, <2>3 DEF Fits
  <2>5. QED
    BY <2>3, <2>4 DEF Fits, RowsKept, Evaluation
<1>2. QED
  BY <1>1 DEF SlotsInv

LEMMA ResultsKept ==
  ASSUME ResultsInv, RowsKept, UNCHANGED <<kind, results, announced>>,
         \A j \in Job : run'[j] = "COMPLETED" => run[j] = "COMPLETED"
  PROVE  ResultsInv'
  BY DEF ResultsInv, RowsKept

(* An evaluation nobody settles or starts.                                   *)
LEMMA AloneKept ==
  ASSUME NEW j \in Job, AloneAt(j), api'[j] = {}, run'[j] = run[j],
         work'[j] \subseteq work[j],
         \A w \in Worker : Finishing(execs'[w], j) => Through(j) \/ run[j] = "COMPLETED",
         jobs'[j].status = "SUCCEEDED" => Through(j) \/ run[j] = "COMPLETED"
  PROVE  AloneAt(j)'
<1>1. Busy(j)' \subseteq Busy(j)
  BY DEF Busy
<1>2. Through(j)' => Through(j) \/ run[j] = "COMPLETED"
  BY DEF Through
<1>3. \A x \in Busy(j)' : run'[j] = "RUNNING" /\ Busy(j)' = {x}
  BY <1>1 DEF AloneAt
<1>4. Through(j)' => run'[j] = "COMPLETED"
  BY <1>2 DEF AloneAt
<1>5. QED
  BY <1>3, <1>4 DEF AloneAt

(* The coroutine that runs an evaluation has it to itself.                   *)
LEMMA RunsItAlone ==
  ASSUME NEW j \in Job, AloneAt(j), NEW x \in work[j], x.at # "done"
  PROVE  run[j] = "RUNNING" /\ Busy(j) = {x} /\ ~Through(j)
  BY DEF AloneAt, Busy
-----------------------------------------------------------------------------
(* Steps that stay inside a runner.                                          *)

LEMMA CaseInvFacts ==
  ASSUME CaseInv, NEW w \in Worker, NEW e \in execs[w]
  PROVE  /\ e.job \in Job /\ e.attempt \in 1..AttemptLimit /\ Slots \in Nat \ {0}
         /\ execs \in [Worker -> SUBSET Exec]
         /\ kind \in [Job -> Kind] /\ run \in [Job -> RunStatus]
         /\ rows \in [Job -> [1..Slots -> RowStatus]]
         /\ results \subseteq Job /\ announced \subseteq Job
         /\ campaigns \in [Job -> SUBSET (1..Slots)]
         /\ work \in [Job -> SUBSET Work]
         /\ api \in [Job -> SUBSET Request]
  BY CaseRunsAssumption DEF CaseInv, Inv, QueueInv, TypeOK, Exec, CaseTypeOK

(* What is left to show of such a step.                                      *)
LEMMA InsideKeeps ==
  ASSUME CaseInv, NEW w \in Worker, NEW e \in execs[w],
         UNCHANGED <<jobs, execs, kind, api>>,
         NEW y \in Work, y.attempt = e.attempt, e.pc \in Places(y), Takes(e, {y}),
         rows' \in [Job -> [1..Slots -> RowStatus]], RowsKept, Fits(e.job, y)',
         run' \in [Job -> RunStatus], \A j \in Job : j # e.job => run'[j] = run[j],
         results' \subseteq Job, announced' \subseteq Job,
         campaigns' \in [Job -> SUBSET (1..Slots)],
         ResultsInv',
         Evaluation(e.job) => AloneAt(e.job)'
  PROVE  CaseInv'
<1>1. Inv /\ Inv' /\ CaseTypeOK /\ HeldInv /\ SlotsInv /\ AloneInv
  BY InvNext DEF CaseInv, vars
<1>2. work' \in [Job -> SUBSET Work] /\ HeldInv'
  <2>1. Stands(e.job, e.attempt, Places(y))'
    BY DEF Stands
  <2>2. OthersStay(e)
    BY DEF OthersStay
  <2>3. QED
    BY <1>1, <2>1, <2>2, MovesHold
<1>3. SlotsInv'
  <2>1. \A j \in Job : \A x \in work'[j] : x \in work[j] \/ Fits(j, x)'
    BY CaseInvFacts DEF Takes
  <2>2. QED
    BY <1>1, <1>2, <2>1, SlotsKept
<1>4. AloneInv'
  <2>1. ASSUME NEW j \in Job, Evaluation(j), j # e.job
        PROVE  AloneAt(j)'
    <3>1. work'[j] = work[j]
      BY <2>1, CaseInvFacts DEF Takes
    <3>2. AloneAt(j) /\ run'[j] = run[j]
      BY <1>1, <2>1 DEF AloneInv
    <3>3. /\ \A v \in Worker : Finishing(execs'[v], j) => Through(j)
          /\ jobs'[j].status = "SUCCEEDED" => Through(j)
      BY DEF Through
    <3>4. api'[j] = {}
      BY <3>2 DEF AloneAt
    <3>5. QED
      BY <3>1, <3>2, <3>3, <3>4, AloneKept
  <2>2. QED
    BY <2>1 DEF AloneInv, Evaluation
<1>5. CaseTypeOK'
  BY <1>1, <1>2, CaseInvFacts DEF CaseTypeOK, Inv, QueueInv
<1>6. QED
  BY <1>1, <1>2, <1>3, <1>4, <1>5 DEF CaseInv

(* A step between two places of an evaluation.                               *)
LEMMA AloneMoves ==
  ASSUME CaseInv, NEW w \in Worker, NEW e \in execs[w], Evaluation(e.job),
         NEW x \in Mine(e), x.at # "done", NEW y, y.at # "done", Takes(e, {y}),
         UNCHANGED <<jobs, execs, run, api>>
  PROVE  AloneAt(e.job)'
<1>1. e.job \in Job /\ x \in work[e.job] /\ AloneAt(e.job)
  BY CaseInvFacts DEF Mine, CaseInv, AloneInv
<1>2. run[e.job] = "RUNNING" /\ Busy(e.job) = {x} /\ ~Through(e.job)
  BY <1>1, RunsItAlone
<1>3. work'[e.job] = (work[e.job] \ Mine(e)) \cup {y}
  BY <1>1, CaseInvFacts DEF Takes
<1>4. Busy(e.job)' = {y}
  BY <1>2, <1>3 DEF Busy
<1>5. ~Through(e.job)'
  BY <1>2, <1>3 DEF Through
<1>6. QED
  BY <1>1, <1>2, <1>4, <1>5 DEF AloneAt

(* The row of a run changes its status.                                      *)
LEMMA RunTyped ==
  ASSUME CaseTypeOK, NEW j \in Job, NEW s \in RunStatus, run' = [run EXCEPT ![j] = s]
  PROVE  /\ run' \in [Job -> RunStatus] /\ run'[j] = s
         /\ \A i \in Job : i # j => run'[i] = run[i]
  BY DEF CaseTypeOK

LEMMA StartKeeps ==
  ASSUME CaseInv, NEW w \in Worker, NEW e \in execs[w],
         StartExperiment(w, e) \/ StartComparison(w, e) \/ StartEvaluation(w, e)
  PROVE  CaseInv'
<1> DEFINE y == [attempt |-> e.attempt, at |-> "next", slot |-> 1,
                 seen |-> "NONE", outcome |-> "COMPLETED"]
<1>1. /\ Start(w, e)
      /\ Evaluation(e.job) => run[e.job] # "RUNNING" /\ run[e.job] # "COMPLETED"
  BY DEF StartExperiment, StartComparison, StartEvaluation, NothingToDo, Occupied, Evaluation
<1>2. e.pc = "handler" /\ Takes(e, {y})
  BY <1>1, EnterMoves DEF Start
<1>3. y \in Work /\ y.attempt = e.attempt /\ e.pc \in Places(y)
  BY <1>2, CaseInvFacts DEF Work, Places, RunStatus
<1>4. /\ run' \in [Job -> RunStatus] /\ run'[e.job] = "RUNNING"
      /\ \A j \in Job : j # e.job => run'[j] = run[j]
  BY <1>1, RunTyped, CaseInvFacts DEF Start, CaseInv, RunStatus, ExperimentStatus
<1>5. UNCHANGED <<jobs, execs, kind, rows, results, announced, campaigns, api>>
  BY <1>1 DEF Start
<1>6. RowsKept
  BY <1>5 DEF RowsKept
<1>7. ResultsInv'
  BY <1>4, <1>5, <1>6, CaseInvFacts, ResultsKept DEF CaseInv
<1>8. Fits(e.job, y)'
  BY CaseInvFacts DEF Fits
<1>9. Evaluation(e.job) => AloneAt(e.job)'
  <2> SUFFICES ASSUME Evaluation(e.job) PROVE AloneAt(e.job)'
    OBVIOUS
  <2>1. e.job \in Job /\ AloneAt(e.job)
    BY CaseInvFacts DEF CaseInv, AloneInv
  <2>2. Busy(e.job) = {} /\ ~Through(e.job)
    BY <1>1, <2>1 DEF AloneAt
  <2>3. work'[e.job] = (work[e.job] \ Mine(e)) \cup {y} /\ y.at = "next"
    BY <1>2, <2>1, CaseInvFacts DEF Takes
  <2> HIDE DEF y
  <2>4. Busy(e.job)' = {y}
    BY <2>2, <2>3 DEF Busy
  <2>5. ~Through(e.job)'
    BY <1>5, <2>2, <2>3 DEF Through
  <2>6. QED
    BY <1>4, <1>5, <2>1, <2>4, <2>5 DEF AloneAt
<1> HIDE DEF y
<1>10. QED
  BY <1>2, <1>3, <1>4, <1>5, <1>6, <1>7, <1>8, <1>9, CaseInvFacts, InsideKeeps

(* A coroutine goes on to y, and writes no more than rows and campaigns.       *)
LEMMA AdvanceKeeps ==
  ASSUME CaseInv, NEW w \in Worker, NEW e \in execs[w], e.pc = "handler",
         NEW x \in Mine(e), NEW y, Advance(e, x, y),
         y \in Work, y.attempt = x.attempt, x.at # "done", y.at \notin {"done", "reconciling"},
         UNCHANGED <<jobs, execs, kind, run, results, announced, api>>,
         rows' \in [Job -> [1..Slots -> RowStatus]], RowsKept, Fits(e.job, y)',
         campaigns' \in [Job -> SUBSET (1..Slots)]
  PROVE  CaseInv'
<1>1. e.job \in Job /\ HeldInv
  BY CaseInvFacts DEF CaseInv
<1>2. Takes(e, {y})
  BY <1>1, AdvanceMoves
<1>3. y.attempt = e.attempt
  BY DEF Mine
<1>4. e.pc \in Places(y)
  BY DEF Places
<1>5. ResultsInv'
  BY ResultsKept DEF CaseInv
<1>6. Evaluation(e.job) => AloneAt(e.job)'
  BY <1>2, AloneMoves
<1>7. QED
  BY <1>2, <1>3, <1>4, <1>5, <1>6, CaseInvFacts, InsideKeeps

(* What is known of the case a coroutine is at.                              *)
LEMMA AtCase ==
  ASSUME CaseInv, NEW w \in Worker, NEW e \in execs[w], NEW x \in Mine(e)
  PROVE  /\ x \in Work /\ x.attempt = e.attempt /\ Fits(e.job, x)
         /\ x.slot \in 1..Slots + 1
         /\ x.slot <= Slots => x.slot \in 1..Slots /\ x.slot + 1 \in 1..Slots + 1
                               /\ rows[e.job][x.slot] \in RowStatus
<1>1. x \in work[e.job] /\ x \in Work
  BY CaseInvFacts DEF Mine
<1>2. x.slot \in 1..Slots + 1 /\ Fits(e.job, x) /\ x.attempt = e.attempt
  BY <1>1, CaseInvFacts DEF Work, CaseInv, SlotsInv, Mine
<1>3. QED
  BY <1>1, <1>2, CaseInvFacts
LEMMA LookUpKeeps ==
  ASSUME CaseInv, NEW w \in Worker, NEW e \in execs[w],
         LookUpExperimentCase(w, e) \/ LookUpProviderCase(w, e)
  PROVE  CaseInv'
<1>1. PICK x \in Ahead(w, e) : SkipOrCall(e, x)
  BY DEF LookUpExperimentCase, LookUpProviderCase
<1>2. /\ e.pc = "handler" /\ x \in Mine(e) /\ x.at = "next" /\ x.slot <= Slots
      /\ UNCHANGED <<jobs, execs, kind, run, rows, results, announced, campaigns, api>>
  BY <1>1 DEF Ahead, LookUpExperimentCase, LookUpProviderCase
<1>3. /\ x \in Work /\ x.attempt = e.attempt /\ Fits(e.job, x)
      /\ x.slot \in 1..Slots /\ x.slot + 1 \in 1..Slots + 1
  BY <1>2, AtCase
<1>4. RowsKept
  BY <1>2 DEF RowsKept
<1>5. CASE rows[e.job][x.slot] = "COMPLETED"
  <2> DEFINE y == [x EXCEPT !.slot = x.slot + 1]
  <2>1. Advance(e, x, y)
    BY <1>1, <1>5 DEF SkipOrCall
  <2>2. /\ y \in Work /\ y.attempt = x.attempt /\ y.at = "next" /\ y.slot = x.slot + 1
    BY <1>2, <1>3 DEF Work
  <2> HIDE DEF y
  <2>3. \A s \in 1..Slots : s < x.slot + 1 => rows[e.job][s] # "NONE"
    BY <1>2, <1>3, <1>5, CaseInvFacts DEF Fits
  <2>4. Fits(e.job, y)'
    BY <1>2, <2>2, <2>3 DEF Fits
  <2>5. QED
    BY <1>2, <1>4, <2>1, <2>2, <2>4, CaseInvFacts, AdvanceKeeps
<1>6. CASE rows[e.job][x.slot] # "COMPLETED"
  <2> DEFINE y == [x EXCEPT !.at = "calling"]
  <2>1. Advance(e, x, y)
    BY <1>1, <1>6 DEF SkipOrCall
  <2>2. /\ y \in Work /\ y.attempt = x.attempt /\ y.at = "calling" /\ y.slot = x.slot
    BY <1>2, <1>3 DEF Work
  <2> HIDE DEF y
  <2>3. Fits(e.job, y)'
    BY <1>2, <1>3, <2>2 DEF Fits
  <2>4. QED
    BY <1>2, <1>4, <2>1, <2>2, <2>3, CaseInvFacts, AdvanceKeeps
<1>7. QED
  BY <1>5, <1>6

LEMMA BeginKeeps ==
  ASSUME CaseInv, NEW w \in Worker, NEW e \in execs[w], BeginEvaluationCase(w, e)
  PROVE  CaseInv'
<1>1. PICK x \in Ahead(w, e) :
        /\ Advance(e, x, [x EXCEPT !.at = "calling",
                          !.outcome = IF x.slot \in campaigns[e.job]
                                      THEN "FAILED" ELSE "COMPLETED"])
        /\ campaigns' = IF kind[e.job] = "system"
                        THEN [campaigns EXCEPT ![e.job] = campaigns[e.job] \cup {x.slot}]
                        ELSE campaigns
  BY DEF BeginEvaluationCase
<1>2. /\ e.pc = "handler" /\ x \in Mine(e) /\ x.at = "next" /\ x.slot <= Slots
      /\ UNCHANGED <<jobs, execs, kind, run, rows, results, announced, api>>
  BY <1>1 DEF Ahead, BeginEvaluationCase
<1>3. /\ x \in Work /\ x.attempt = e.attempt /\ Fits(e.job, x) /\ x.slot \in 1..Slots
  BY <1>2, AtCase
<1>4. RowsKept /\ rows' \in [Job -> [1..Slots -> RowStatus]]
  BY <1>2, CaseInvFacts DEF RowsKept
<1>5. campaigns' \in [Job -> SUBSET (1..Slots)]
  <2>1. campaigns[e.job] \cup {x.slot} \in SUBSET (1..Slots)
    BY <1>3, CaseInvFacts
  <2>2. QED
    BY <1>1, <2>1, CaseInvFacts
<1> DEFINE o == IF x.slot \in campaigns[e.job] THEN "FAILED" ELSE "COMPLETED"
<1>6. PICK p \in {"COMPLETED", "FAILED"} : p = o
  OBVIOUS
<1> HIDE DEF o
<1> DEFINE y == [x EXCEPT !.at = "calling", !.outcome = p]
<1>7. Advance(e, x, y)
  BY <1>1, <1>6 DEF o
<1>8. /\ y \in Work /\ y.attempt = x.attempt /\ y.at = "calling" /\ y.slot = x.slot
  BY <1>2, <1>3 DEF Work
<1> HIDE DEF y
<1>9. Fits(e.job, y)'
  BY <1>2, <1>3, <1>8 DEF Fits
<1>10. QED
  BY <1>2, <1>4, <1>5, <1>7, <1>8, <1>9, AdvanceKeeps

(* A case answers or fails, and its row has been read.                       *)
LEMMA AnswerKeeps ==
  ASSUME CaseInv, NEW w \in Worker, NEW e \in execs[w], e.pc = "handler",
         NEW x \in Mine(e), x.at \in {"next", "calling"}, x.slot <= Slots,
         NEW o \in {"COMPLETED", "FAILED"}, NEW seen \in RunStatus \cup RowStatus,
         Evaluation(e.job) \/ seen = rows[e.job][x.slot],
         Advance(e, x, [x EXCEPT !.at = "writing", !.outcome = o, !.seen = seen]),
         UNCHANGED <<jobs, execs, kind, run, rows, results, announced, campaigns, api>>
  PROVE  CaseInv'
<1> DEFINE y == [x EXCEPT !.at = "writing", !.outcome = o, !.seen = seen]
<1>1. x \in Work /\ x.attempt = e.attempt /\ Fits(e.job, x) /\ x.slot \in 1..Slots
  BY AtCase
<1>2. /\ y \in Work /\ y.attempt = x.attempt /\ y.at = "writing" /\ y.slot = x.slot
      /\ y.seen = seen /\ x.at # "done"
  BY <1>1 DEF Work
<1>3. Advance(e, x, y)
  OBVIOUS
<1> HIDE DEF y
<1>4. RowsKept
  BY DEF RowsKept
<1>5. Fits(e.job, y)'
  BY <1>1, <1>2 DEF Fits, Evaluation
<1>6. QED
  BY <1>2, <1>3, <1>4, <1>5, CaseInvFacts, AdvanceKeeps

LEMMA CallKeeps ==
  ASSUME CaseInv, NEW w \in Worker, NEW e \in execs[w],
         CallReturns(w, e) \/ CaseCollected(w, e) \/ FactoryFails(w, e)
  PROVE  CaseInv'
<1>1. UNCHANGED <<jobs, execs, kind, run, rows, results, announced, campaigns, api>>
  BY DEF CallReturns, CaseCollected, FactoryFails
<1>2. CASE CallReturns(w, e)
  <2>1. PICK x \in Mine(e), o \in {"COMPLETED", "FAILED"} :
          /\ x.at = "calling"
          /\ Advance(e, x, [x EXCEPT !.at = "writing", !.outcome = o,
                                     !.seen = rows[e.job][x.slot]])
    BY <1>2 DEF CallReturns
  <2>2. x.slot <= Slots /\ e.pc = "handler"
    BY <1>2, <2>1, AtCase DEF Fits, CallReturns
  <2>3. PICK seen \in RowStatus : seen = rows[e.job][x.slot]
    BY <2>2, AtCase
  <2>4. Advance(e, x, [x EXCEPT !.at = "writing", !.outcome = o, !.seen = seen])
    BY <2>1, <2>3
  <2>5. QED
    BY <1>1, <2>1, <2>2, <2>3, <2>4, AnswerKeeps
<1>3. CASE CaseCollected(w, e)
  <2>1. PICK x \in Mine(e) : \E o \in {x.outcome, "FAILED"} :
          /\ x.at = "calling"
          /\ Advance(e, x, [x EXCEPT !.at = "writing", !.outcome = o])
    BY <1>3 DEF CaseCollected
  <2>2. x \in Work /\ x.slot <= Slots /\ e.pc = "handler" /\ Evaluation(e.job)
    BY <1>3, <2>1, AtCase DEF Fits, CaseCollected
  <2>3. PICK o \in {"COMPLETED", "FAILED"} :
          Advance(e, x, [x EXCEPT !.at = "writing", !.outcome = o])
    BY <2>1, <2>2 DEF Work
  <2>4. /\ x.seen \in RunStatus \cup RowStatus
        /\ [x EXCEPT !.at = "writing", !.outcome = o]
             = [x EXCEPT !.at = "writing", !.outcome = o, !.seen = x.seen]
    BY <2>2 DEF Work
  <2>5. QED
    BY <1>1, <2>1, <2>2, <2>3, <2>4, AnswerKeeps
<1>4. CASE FactoryFails(w, e)
  <2>1. PICK x \in Mine(e) :
          /\ x.at = "next" /\ x.slot <= Slots
          /\ Advance(e, x, [x EXCEPT !.at = "writing", !.outcome = "FAILED",
                                     !.seen = rows[e.job][x.slot]])
    BY <1>4 DEF FactoryFails
  <2>2. e.pc = "handler"
    BY <1>4 DEF FactoryFails
  <2>3. PICK seen \in RowStatus : seen = rows[e.job][x.slot]
    BY <2>1, AtCase
  <2>4. Advance(e, x, [x EXCEPT !.at = "writing", !.outcome = "FAILED", !.seen = seen])
    BY <2>1, <2>3
  <2>5. QED
    BY <1>1, <2>1, <2>2, <2>3, <2>4, AnswerKeeps
<1>5. QED
  BY <1>2, <1>3, <1>4

(* A row is written: it is there afterwards.                                 *)
Wrote(j, x) ==
    /\ rows' \in [Job -> [1..Slots -> RowStatus]] /\ RowsKept
    /\ rows'[j][x.slot] # "NONE"

LEMMA InsertOrUpdateWrites ==
  ASSUME CaseInv, NEW w \in Worker, NEW e \in execs[w], NEW x \in Mine(e),
         x.at = "writing", ~Evaluation(e.job), InsertOrUpdate(e, x)
  PROVE  Wrote(e.job, x)
<1>1. x \in Work /\ Fits(e.job, x) /\ x.slot \in 1..Slots
  BY AtCase DEF Fits
<1>2. x.outcome \in RowStatus /\ x.outcome # "NONE"
  BY <1>1 DEF Work, RowStatus
<1>3. CASE x.seen = x.outcome
  BY <1>1, <1>2, <1>3, CaseInvFacts DEF InsertOrUpdate, Wrote, RowsKept, Fits
<1>4. CASE x.seen # x.outcome
  <2>1. rows' = [rows EXCEPT ![e.job][x.slot] = x.outcome]
    BY <1>4 DEF InsertOrUpdate
  <2>2. QED
    BY <1>1, <1>2, <2>1, CaseInvFacts DEF Wrote, RowsKept
<1>5. QED
  BY <1>3, <1>4

LEMMA RecordKeeps ==
  ASSUME CaseInv, NEW w \in Worker, NEW e \in execs[w],
         RecordExperimentCase(w, e) \/ RecordProviderCase(w, e) \/ UpsertResult(w, e)
  PROVE  CaseInv'
<1>1. /\ e.pc = "handler"
      /\ UNCHANGED <<jobs, execs, kind, run, results, announced, campaigns, api>>
  BY DEF RecordExperimentCase, RecordProviderCase, UpsertResult
<1>2. PICK x \in Mine(e) : x.at = "writing" /\ Advance(e, x, Past(x)) /\ Wrote(e.job, x)
  <2>1. CASE RecordExperimentCase(w, e) \/ RecordProviderCase(w, e)
    <3>1. ~Evaluation(e.job)
      BY <2>1 DEF RecordExperimentCase, RecordProviderCase, Evaluation
    <3>2. PICK x \in Mine(e) : x.at = "writing" /\ InsertOrUpdate(e, x) /\ Advance(e, x, Past(x))
      BY <2>1 DEF RecordExperimentCase, RecordProviderCase
    <3>3. QED
      BY <3>1, <3>2, InsertOrUpdateWrites
  <2>2. CASE UpsertResult(w, e)
    <3>1. PICK x \in Mine(e) :
            /\ x.at = "writing" /\ Advance(e, x, Past(x))
            /\ rows' = [rows EXCEPT ![e.job][x.slot] = x.outcome]
      BY <2>2 DEF UpsertResult
    <3>2. x \in Work /\ x.slot \in 1..Slots
      BY <3>1, AtCase DEF Fits
    <3>3. x.outcome \in RowStatus /\ x.outcome # "NONE"
      BY <3>2 DEF Work, RowStatus
    <3>4. Wrote(e.job, x)
      BY <3>1, <3>2, <3>3, CaseInvFacts DEF Wrote, RowsKept
    <3>5. QED
      BY <3>1, <3>4
  <2>3. QED
    BY <2>1, <2>2
<1>3. x \in Work /\ Fits(e.job, x) /\ x.slot \in 1..Slots /\ x.slot + 1 \in 1..Slots + 1
  BY <1>2, AtCase DEF Fits
<1>4. PICK y : y = Past(x)
  OBVIOUS
<1>5. /\ y \in Work /\ y.attempt = x.attempt /\ y.at = "next" /\ y.slot = x.slot + 1
  BY <1>3, <1>4 DEF Past, Work, RunStatus
<1>6. \A s \in 1..Slots : s < x.slot + 1 => rows'[e.job][s] # "NONE"
  <2>1. ASSUME NEW s \in 1..Slots, s < x.slot + 1
        PROVE  rows'[e.job][s] # "NONE"
    <3>1. CASE s = x.slot
      BY <1>2, <3>1 DEF Wrote
    <3>2. CASE s # x.slot
      <4>1. s < x.slot
        BY <1>3, <2>1, <3>2
      <4>2. rows[e.job][s] # "NONE"
        BY <1>2, <1>3, <4>1 DEF Fits
      <4>3. QED
        BY <1>2, <4>2, CaseInvFacts DEF Wrote, RowsKept
    <3>3. QED
      BY <3>1, <3>2
  <2>2. QED
    BY <2>1
<1>7. Fits(e.job, y)'
  BY <1>5, <1>6 DEF Fits
<1>8. QED
  BY <1>1, <1>2, <1>4, <1>5, <1>7, CaseInvFacts, AdvanceKeeps DEF Wrote
(* The last case is behind a coroutine that concludes.                       *)
LEMMA AllRecorded ==
  ASSUME CaseInv, NEW w \in Worker, NEW e \in execs[w], NEW x \in LastDone(e)
  PROVE  /\ x \in Mine(e) /\ e.pc = "handler" /\ x.at = "next"
         /\ \A s \in 1..Slots : rows[e.job][s] # "NONE"
<1>1. x \in Mine(e) /\ e.pc = "handler" /\ x.at = "next" /\ x.slot = Slots + 1
  BY DEF LastDone
<1>2. Fits(e.job, x) /\ Slots \in Nat
  BY <1>1, AtCase, CaseInvFacts
<1>3. QED
  BY <1>1, <1>2 DEF Fits

(* The run is concluded as COMPLETED, or left alone.                         *)
LEMMA ConclusionKeeps ==
  ASSUME CaseInv, NEW w \in Worker, NEW e \in execs[w], NEW x \in LastDone(e),
         Advance(e, x, [x EXCEPT !.at = "done"]),
         UNCHANGED <<jobs, execs, kind, rows, campaigns, api>>,
         \/ UNCHANGED <<run, results, announced>> /\ ~Evaluation(e.job)
         \/ /\ run' = [run EXCEPT ![e.job] = "COMPLETED"]
            /\ results' = results \cup {e.job}
            /\ announced' = IF kind[e.job] = "experiment" THEN announced \cup {e.job}
                            ELSE announced
  PROVE  CaseInv'
<1>1. /\ x \in Mine(e) /\ e.pc = "handler" /\ x.at = "next"
      /\ \A s \in 1..Slots : rows[e.job][s] # "NONE"
  BY AllRecorded
<1>2. x \in Work /\ x.attempt = e.attempt /\ Fits(e.job, x)
  BY <1>1, AtCase
<1>3. PICK y : y = [x EXCEPT !.at = "done"]
  OBVIOUS
<1>4. y \in Work /\ y.attempt = e.attempt /\ y.at = "done" /\ y.slot = x.slot
  BY <1>2, <1>3 DEF Work
<1>5. Takes(e, {y}) /\ e.pc \in Places(y)
  BY <1>1, <1>3, <1>4, AdvanceMoves, CaseInvFacts DEF Places, CaseInv
<1>6. RowsKept /\ rows' \in [Job -> [1..Slots -> RowStatus]]
  BY CaseInvFacts DEF RowsKept
<1>7. Fits(e.job, y)'
  BY <1>1, <1>2, <1>4 DEF Fits
<1>8. /\ results' \subseteq Job /\ announced' \subseteq Job
      /\ campaigns' \in [Job -> SUBSET (1..Slots)]
  BY CaseInvFacts
<1>9. CASE UNCHANGED <<run, results, announced>> /\ ~Evaluation(e.job)
  <2>1. ResultsInv'
    BY <1>6, <1>9, ResultsKept DEF CaseInv
  <2>2. QED
    BY <1>4, <1>5, <1>6, <1>7, <1>8, <1>9, <2>1, CaseInvFacts, InsideKeeps
<1>10. CASE /\ run' = [run EXCEPT ![e.job] = "COMPLETED"]
            /\ results' = results \cup {e.job}
            /\ announced' = IF kind[e.job] = "experiment" THEN announced \cup {e.job}
                            ELSE announced
  <2>1. /\ run' \in [Job -> RunStatus] /\ run'[e.job] = "COMPLETED"
        /\ \A j \in Job : j # e.job => run'[j] = run[j]
    BY <1>10, RunTyped, CaseInvFacts DEF CaseInv, RunStatus, ExperimentStatus
  <2>2. ResultsInv'
    BY <1>1, <1>10, <2>1, CaseInvFacts DEF ResultsInv, CaseInv
  <2>3. Evaluation(e.job) => AloneAt(e.job)'
    <3> SUFFICES ASSUME Evaluation(e.job) PROVE AloneAt(e.job)'
      OBVIOUS
    <3>1. e.job \in Job /\ AloneAt(e.job) /\ x \in work[e.job]
      BY <1>1, CaseInvFacts DEF CaseInv, AloneInv, Mine
    <3>2. Busy(e.job) = {x}
      BY <1>1, <3>1, RunsItAlone
    <3>3. work'[e.job] = (work[e.job] \ Mine(e)) \cup {y}
      BY <1>5, <3>1, CaseInvFacts DEF Takes
    <3>4. Busy(e.job)' = {}
      BY <1>1, <1>4, <3>2, <3>3 DEF Busy
    <3>5. QED
      BY <2>1, <3>1, <3>4 DEF AloneAt
  <2>4. QED
    BY <1>4, <1>5, <1>6, <1>7, <1>8, <2>1, <2>2, <2>3, InsideKeeps
<1>11. QED
  BY <1>9, <1>10

LEMMA ConcludeKeeps ==
  ASSUME CaseInv, NEW w \in Worker, NEW e \in execs[w],
         ConcludeExperiment(w, e) \/ ConcludeComparison(w, e) \/ FinishEvaluation(w, e)
  PROVE  CaseInv'
<1>1. PICK x \in LastDone(e) : Advance(e, x, [x EXCEPT !.at = "done"])
  BY DEF ConcludeExperiment, ConcludeComparison, FinishEvaluation
<1>2. UNCHANGED <<jobs, execs, kind, rows, campaigns, api>>
  BY DEF ConcludeExperiment, ConcludeComparison, FinishEvaluation
<1>3. \/ UNCHANGED <<run, results, announced>> /\ ~Evaluation(e.job)
      \/ /\ run' = [run EXCEPT ![e.job] = "COMPLETED"]
         /\ results' = results \cup {e.job}
         /\ announced' = IF kind[e.job] = "experiment" THEN announced \cup {e.job}
                         ELSE announced
  <2>1. CASE ConcludeExperiment(w, e)
    BY <2>1 DEF ConcludeExperiment, Evaluation
  <2>2. CASE ConcludeComparison(w, e)
    BY <2>2 DEF ConcludeComparison, Evaluation
  <2>3. CASE FinishEvaluation(w, e)
    BY <2>3 DEF FinishEvaluation, Evaluation
  <2>4. QED
    BY <2>1, <2>2, <2>3
<1>4. QED
  BY <1>1, <1>2, <1>3, ConclusionKeeps

LEMMA ReconcileReadsKeeps ==
  ASSUME CaseInv, NEW w \in Worker, NEW e \in execs[w], ReconcileReads(w, e)
  PROVE  CaseInv'
<1>1. /\ UNCHANGED <<jobs, execs, kind, run, rows, results, announced, campaigns, api>>
      /\ ~Evaluation(e.job)
      /\ e.pc \in {"reconcile_fail", "reconcile_cancel"}
  BY DEF ReconcileReads
<1>2. PICK y : y = [attempt |-> e.attempt, at |-> "reconciling", slot |-> 1,
                    seen |-> run[e.job], outcome |-> "COMPLETED"]
  OBVIOUS
<1>3. Takes(e, {y})
  BY <1>2, EnterMoves DEF ReconcileReads
<1>4. y \in Work /\ y.attempt = e.attempt /\ y.at = "reconciling" /\ e.pc \in Places(y)
  BY <1>1, <1>2, CaseInvFacts DEF Work, Places
<1>5. RowsKept
  BY <1>1 DEF RowsKept
<1>6. ResultsInv'
  BY <1>1, <1>5, ResultsKept DEF CaseInv
<1>7. Fits(e.job, y)'
  BY <1>1, <1>4 DEF Fits, Evaluation
<1>8. QED
  BY <1>1, <1>3, <1>4, <1>5, <1>6, <1>7, CaseInvFacts, InsideKeeps

LEMMA InsideKeepsCaseInv ==
  ASSUME CaseInv, NEW w \in Worker, NEW e \in execs[w], Inside(w, e)
  PROVE  CaseInv'
  BY StartKeeps, LookUpKeeps, BeginKeeps, CallKeeps, RecordKeeps, ConcludeKeeps,
     ReconcileReadsKeeps
  DEF Inside

-----------------------------------------------------------------------------
(* Steps that leave a runner, or are taken after it.                         *)

(* What such a step may do to the run of its job: nothing, or it settles an    *)
(* evaluation its coroutine was running.                                     *)
Leaves(e) ==
    \/ run'[e.job] = run[e.job]
    \/ ~Evaluation(e.job)
    \/ NothingFinishes /\ \E x \in Mine(e) : x.at # "done"

LEMMA LeavingKeeps ==
  ASSUME CaseInv, [Next]_vars, NEW w \in Worker, NEW e \in execs[w], Drop(e), OthersStay(e),
         UNCHANGED <<kind, results, announced, campaigns, api>>,
         rows' \in [Job -> [1..Slots -> RowStatus]], RowsKept,
         run' \in [Job -> RunStatus], \A j \in Job : j # e.job => run'[j] = run[j],
         run'[e.job] = "COMPLETED" => run[e.job] = "COMPLETED",
         Leaves(e),
         \A j \in Job : \A v \in Worker :
            Evaluation(j) /\ Finishing(execs'[v], j) => Through(j) \/ run[j] = "COMPLETED",
         \A j \in Job : jobs'[j].status = "SUCCEEDED" => Through(j)
  PROVE  CaseInv'
<1>1. Inv /\ Inv' /\ CaseTypeOK /\ HeldInv /\ SlotsInv /\ AloneInv /\ ResultsInv
  BY InvNext DEF CaseInv
<1>2. Takes(e, {})
  BY DropMoves
<1>3. work' \in [Job -> SUBSET Work] /\ HeldInv'
  BY <1>1, <1>2, MovesHold
<1>4. /\ \A j \in Job : work'[j] \subseteq work[j]
      /\ work'[e.job] = work[e.job] \ Mine(e)
  BY <1>2, CaseInvFacts DEF Takes
<1>5. SlotsInv'
  BY <1>1, <1>3, <1>4, SlotsKept
<1>6. ResultsInv'
  BY <1>1, ResultsKept
<1>7. AloneInv'
  <2>1. ASSUME NEW j \in Job, Evaluation(j)
        PROVE  AloneAt(j)'
    <3>1. AloneAt(j) /\ api'[j] = {}
      BY <1>1, <2>1 DEF AloneInv, AloneAt
    <3>2. CASE run'[j] = run[j]
      BY <1>4, <2>1, <3>1, <3>2, AloneKept
    <3>3. CASE run'[j] # run[j]
      <4>1. /\ j = e.job
            /\ NothingFinishes /\ \E x \in Mine(e) : x.at # "done"
        BY <2>1, <3>3 DEF Leaves
      <4>2. PICK x \in Mine(e) : x.at # "done"
        BY <4>1
      <4>3. x \in work[j]
        BY <4>1, <4>2 DEF Mine
      <4>4. Busy(j) = {x} /\ ~Through(j)
        BY <3>1, <4>2, <4>3, RunsItAlone
      <4>5. Busy(j)' = {}
        BY <1>4, <4>1, <4>2, <4>4 DEF Busy
      <4>6. ~Through(j)'
        BY <1>4, <4>1, <4>4 DEF Through, NothingFinishes
      <4>7. QED
        BY <3>1, <4>5, <4>6 DEF AloneAt
    <3>4. QED
      BY <3>2, <3>3
  <2>2. QED
    BY <2>1 DEF AloneInv, Evaluation
<1>8. CaseTypeOK'
  BY <1>1, <1>3, CaseInvFacts DEF CaseTypeOK, Inv, QueueInv
<1>9. QED
  BY <1>1, <1>3, <1>5, <1>6, <1>7, <1>8 DEF CaseInv

LEMMA NothingFinishesKeepsThrough ==
  ASSUME NothingFinishes
  PROVE  /\ \A j \in Job : \A v \in Worker : Finishing(execs'[v], j) => Through(j)
         /\ \A j \in Job : jobs'[j].status = "SUCCEEDED" => Through(j)
  BY DEF NothingFinishes, Through
(* The handler fails, or is cancelled: what it was about is gone.             *)
LEMMA RaisingKeeps ==
  ASSUME CaseInv, NEW w \in Worker, NEW e \in execs[w],
         HandlerRaises(w, e) \/ CheckpointCancels(w, e), Drop(e),
         UNCHANGED <<kind, results, announced, campaigns, api>>,
         rows' \in [Job -> [1..Slots -> RowStatus]], RowsKept,
         \/ run' = run
         \/ /\ \E x \in Mine(e) : x.at # "done"
            /\ \E s \in {"CANCELLED", "FAILED"} : run' = [run EXCEPT ![e.job] = s]
  PROVE  CaseInv'
<1>1. Inv /\ CaseTypeOK
  BY DEF CaseInv
<1>2. [Next]_vars
  BY CoroutineIsQueueStep DEF ExecStep
<1>3. OthersStay(e)
  BY <1>1, CoroutineOthersStay
<1>4. NothingFinishes
  BY <1>1, ExecStepsFinishNothing
<1>5. /\ \A j \in Job : \A v \in Worker : Finishing(execs'[v], j) => Through(j)
      /\ \A j \in Job : jobs'[j].status = "SUCCEEDED" => Through(j)
  BY <1>4, NothingFinishesKeepsThrough
<1>6. /\ run' \in [Job -> RunStatus] /\ \A j \in Job : j # e.job => run'[j] = run[j]
      /\ run'[e.job] = "COMPLETED" => run[e.job] = "COMPLETED"
  <2>1. CASE run' = run
    BY <2>1, CaseInvFacts
  <2>2. ASSUME NEW s \in {"CANCELLED", "FAILED"}, run' = [run EXCEPT ![e.job] = s]
        PROVE  /\ run' \in [Job -> RunStatus] /\ \A j \in Job : j # e.job => run'[j] = run[j]
               /\ run'[e.job] # "COMPLETED"
    <3>1. s \in RunStatus
      BY DEF RunStatus, ExperimentStatus
    <3>2. QED
      BY <1>1, <2>2, <3>1, RunTyped, CaseInvFacts
  <2>3. QED
    BY <2>1, <2>2
<1>7. Leaves(e)
  BY <1>4 DEF Leaves
<1>8. QED
  BY <1>2, <1>3, <1>5, <1>6, <1>7, LeavingKeeps

LEMMA FailureKeeps ==
  ASSUME CaseInv, NEW w \in Worker, NEW e \in execs[w],
         \/ RefuseRun(w, e) \/ CaseFails(w, e) \/ CaseCollides(w, e)
         \/ ComparisonFails(w, e) \/ RunRaises(w, e) \/ RunCancelled(w, e)
  PROVE  CaseInv'
<1>1. rows \in [Job -> [1..Slots -> RowStatus]] /\ e.job \in Job
  BY CaseInvFacts
<1>2. CASE RefuseRun(w, e)
  <2>1. Drop(e)
    BY <1>1, <1>2, CaseInvFacts DEF RefuseRun, Idling, Drop, runVars
  <2>2. QED
    BY <1>1, <1>2, <2>1, FailuresRaise, RaisingKeeps DEF RefuseRun, runVars, RowsKept
<1>3. CASE CaseCollides(w, e) \/ ComparisonFails(w, e)
  BY <1>1, <1>3, FailuresRaise, RaisingKeeps DEF CaseCollides, ComparisonFails, RowsKept
<1>4. CASE CaseFails(w, e)
  <2>1. PICK x \in Mine(e) : x.at = "writing" /\ InsertOrUpdate(e, x)
    BY <1>4 DEF CaseFails
  <2>2. Wrote(e.job, x)
    BY <1>4, <2>1, InsertOrUpdateWrites DEF CaseFails, Evaluation
  <2>3. QED
    BY <1>4, <2>2, FailuresRaise, RaisingKeeps DEF CaseFails, Wrote
<1>5. CASE RunRaises(w, e)
  <2>1. \/ run' = run
        \/ /\ \E x \in Mine(e) : x.at # "done"
           /\ run' = [run EXCEPT ![e.job] = "FAILED"]
    BY <1>5 DEF RunRaises
  <2>2. QED
    BY <1>1, <1>5, <2>1, FailuresRaise, RaisingKeeps DEF RunRaises, RowsKept
<1>6. CASE RunCancelled(w, e)
  <2>1. \/ run' = run
        \/ /\ \E x \in Mine(e) : x.at # "done"
           /\ run' = [run EXCEPT ![e.job] = "CANCELLED"]
    BY <1>6 DEF RunCancelled
  <2>2. QED
    BY <1>1, <1>6, <2>1, RaisingKeeps DEF RunCancelled, RowsKept
<1>7. QED
  BY <1>2, <1>3, <1>4, <1>5, <1>6

LEMMA ReturnKeeps ==
  ASSUME CaseInv, NEW w \in Worker, NEW e \in execs[w], RunReturns(w, e)
  PROVE  CaseInv'
<1>1. /\ HandlerReturns(w, e) /\ Drop(e) /\ e.job \in Job
      /\ UNCHANGED <<kind, run, rows, results, announced, campaigns, api>>
  BY CaseInvFacts DEF RunReturns
<1>2. Inv /\ [Next]_vars /\ OthersStay(e)
  BY <1>1, CoroutineIsQueueStep, CoroutineOthersStay DEF ExecStep, CaseInv
<1>3. Evaluation(e.job) => Through(e.job) \/ run[e.job] = "COMPLETED"
  BY DEF RunReturns, NothingToDo, Through, Mine
<1>4. /\ UNCHANGED jobs
      /\ \A v \in Worker, j \in Job :
            Finishing(execs'[v], j) => Finishing(execs[v], j) \/ j = e.job
  BY <1>1, <1>2, ReturnFinishesItsJob
<1>5. /\ \A j \in Job : \A v \in Worker :
            Evaluation(j) /\ Finishing(execs'[v], j) => Through(j) \/ run[j] = "COMPLETED"
      /\ \A j \in Job : jobs'[j].status = "SUCCEEDED" => Through(j)
  BY <1>3, <1>4 DEF Through
<1>6. RowsKept
  BY <1>1 DEF RowsKept
<1>7. Leaves(e)
  BY <1>1 DEF Leaves
<1>8. QED
  BY <1>1, <1>2, <1>5, <1>6, <1>7, CaseInvFacts, LeavingKeeps

LEMMA SettleKeeps ==
  ASSUME CaseInv, NEW w \in Worker, NEW e \in execs[w],
         RunHeartbeat(w, e) \/ RunSettle(w, e), Drop(e)
  PROVE  CaseInv'
<1>1. /\ \/ Heartbeat(w, e) \/ CheckpointPasses(w, e) \/ Complete(w, e) \/ Fail(w, e)
         \/ MarkCancelled(w, e) \/ Abandon(w, e) \/ Abort(w, e)
      /\ UNCHANGED <<kind, run, rows, results, announced, campaigns, api>>
  BY DEF RunHeartbeat, RunSettle
<1>2. Inv /\ [Next]_vars /\ OthersStay(e)
  BY <1>1, CoroutineIsQueueStep, CoroutineOthersStay DEF ExecStep, CaseInv
<1>3. /\ \A j \in Job : \A v \in Worker : Finishing(execs'[v], j) => Through(j)
      /\ \A j \in Job : jobs'[j].status = "SUCCEEDED" => Through(j)
  <2>1. CASE Complete(w, e)
    <3>1. Finishing(execs[w], e.job)
      BY <1>2, <2>1, CompleteFinishesItsJob DEF Finishing
    <3>2. QED
      BY <1>2, <2>1, <3>1, CompleteFinishesItsJob DEF Through
  <2>2. CASE ~Complete(w, e)
    BY <1>1, <1>2, <2>2, ExecStepsFinishNothing, NothingFinishesKeepsThrough
  <2>3. QED
    BY <2>1, <2>2
<1>4. RowsKept
  BY <1>1 DEF RowsKept
<1>5. Leaves(e)
  BY <1>1 DEF Leaves
<1>6. QED
  BY <1>1, <1>2, <1>3, <1>4, <1>5, CaseInvFacts, LeavingKeeps

(* The reconciler overwrites a run, but not that of an evaluation.            *)
LEMMA ReconcileEndsKeeps ==
  ASSUME CaseInv, NEW w \in Worker, NEW e \in execs[w], ReconcileEnds(w, e)
  PROVE  CaseInv'
<1>1. /\ Reconciled(w, e) /\ Drop(e)
      /\ UNCHANGED <<kind, rows, results, announced, campaigns, api>>
  BY DEF ReconcileEnds
<1>2. Inv /\ [Next]_vars /\ OthersStay(e)
  BY <1>1, CoroutineIsQueueStep, CoroutineOthersStay DEF ExecStep, CaseInv
<1>3. NothingFinishes
  BY <1>1, <1>2, ExecStepsFinishNothing
<1>4. /\ \A j \in Job : \A v \in Worker : Finishing(execs'[v], j) => Through(j)
      /\ \A j \in Job : jobs'[j].status = "SUCCEEDED" => Through(j)
  BY <1>3, NothingFinishesKeepsThrough
<1>5. RowsKept
  BY <1>1 DEF RowsKept
<1>6. /\ run' \in [Job -> RunStatus] /\ \A j \in Job : j # e.job => run'[j] = run[j]
      /\ run'[e.job] = "COMPLETED" => run[e.job] = "COMPLETED"
      /\ Leaves(e)
  <2>1. CASE UNCHANGED run
    BY <2>1, CaseInvFacts DEF Leaves
  <2>2. CASE ~UNCHANGED run
    <3>1. PICK x \in Mine(e) :
            Write(e.job, x.seen, IF e.pc = "reconcile_cancel" THEN "CANCELLED" ELSE "FAILED")
      BY <2>2 DEF ReconcileEnds
    <3>2. PICK s \in {"CANCELLED", "FAILED"} : run' = [run EXCEPT ![e.job] = s]
      BY <2>2, <3>1 DEF Write
    <3>3. s \in RunStatus /\ s # "COMPLETED"
      BY DEF RunStatus, ExperimentStatus
    <3>4. e.pc # "handler"
      BY <1>1 DEF Reconciled
    <3>5. ~Evaluation(e.job)
      <4>1. x \in work[e.job] /\ x.attempt = e.attempt /\ Fits(e.job, x)
        BY AtCase DEF Mine
      <4>2. PICK v \in Worker : \E f \in execs[v] :
              f.job = e.job /\ f.attempt = e.attempt /\ f.pc \in Places(x)
        BY <4>1, CaseInvFacts DEF CaseInv, HeldInv, Stands
      <4>3. PICK f \in execs[v] : f.job = e.job /\ f.attempt = e.attempt /\ f.pc \in Places(x)
        BY <4>2
      <4>4. f = e
        BY <1>2, <4>3, OneCoroutine
      <4>5. x.at = "reconciling"
        BY <3>4, <4>3, <4>4 DEF Places
      <4>6. QED
        BY <4>1, <4>5 DEF Fits
    <3>6. QED
      BY <3>2, <3>3, <3>5, RunTyped, CaseInvFacts DEF CaseInv, Leaves
  <2>3. QED
    BY <2>1, <2>2
<1>7. QED
  BY <1>1, <1>2, <1>4, <1>5, <1>6, CaseInvFacts, LeavingKeeps

LEMMA CoroutineKeepsCaseInv ==
  ASSUME CaseInv, NEW w \in Worker, NEW e \in execs[w], CaseWorkerStep(w, e)
  PROVE  CaseInv'
<1>1. CASE Inside(w, e)
  BY <1>1, InsideKeepsCaseInv
<1>2. CASE RunHeartbeat(w, e) \/ RunSettle(w, e)
  <2>1. CASE Drop(e)
    BY <1>2, <2>1, SettleKeeps
  <2>2. CASE ~Drop(e)
    <3>1. /\ Heartbeat(w, e)
          /\ UNCHANGED <<execs, work, kind, run, rows, results, announced, campaigns, api>>
      BY <1>2, <2>2 DEF RunHeartbeat, RunSettle
    <3>2. Inv /\ Inv' /\ NothingFinishes
      BY <3>1, CoroutineIsQueueStep, InvNext, ExecStepsFinishNothing DEF CaseInv
    <3>3. \A j \in Job : jobs'[j].status = "SUCCEEDED" => jobs[j].status = "SUCCEEDED"
      BY <3>2 DEF NothingFinishes
    <3>4. HeldInv' /\ SlotsInv' /\ ResultsInv'
      BY <3>1 DEF CaseInv, HeldInv, Stands, SlotsInv, Fits, Evaluation, ResultsInv
    <3>5. AloneInv'
      BY <3>1, <3>3 DEF CaseInv, AloneInv, AloneAt, Busy, Through, Finishing, Evaluation
    <3>6. CaseTypeOK'
      BY <3>1, <3>2 DEF CaseInv, CaseTypeOK, Inv, QueueInv
    <3>7. QED
      BY <3>2, <3>4, <3>5, <3>6 DEF CaseInv
  <2>3. QED
    BY <2>1, <2>2
<1>3. CASE \/ RefuseRun(w, e) \/ CaseFails(w, e) \/ CaseCollides(w, e)
           \/ ComparisonFails(w, e) \/ RunRaises(w, e) \/ RunCancelled(w, e)
  BY <1>3, FailureKeeps
<1>4. QED
  BY <1>1, <1>2, <1>3, ReturnKeeps, ReconcileEndsKeeps DEF CaseWorkerStep, Inside

-----------------------------------------------------------------------------
(* Steps of the queue and of the operators.                                  *)

LEMMA CrashKeeps ==
  ASSUME CaseInv, NEW w \in Worker, RunCrash(w)
  PROVE  CaseInv'
<1>1. /\ Crash(w) /\ Inv /\ [Next]_vars /\ CaseTypeOK
      /\ UNCHANGED <<kind, run, rows, results, announced, campaigns, api>>
  BY DEF RunCrash, Next, WorkerStep, CaseInv
<1>2. Inv' /\ NothingFinishes
  BY <1>1, InvNext, QueueStepsFinishNothing
<1>3. \A j \in Job :
        work'[j] = {x \in work[j] : \A e \in execs[w] : e.job = j => e.attempt # x.attempt}
  BY DEF RunCrash
<1>4. work' \in [Job -> SUBSET Work]
  BY <1>1 DEF RunCrash, CaseTypeOK
<1>5. ASSUME NEW j \in Job, NEW x \in work'[j]
      PROVE  Stands(j, x.attempt, Places(x))'
  <2>1. x \in work[j]
    BY <1>3, <1>5
  <2>2. PICK v \in Worker : \E f \in execs[v] :
            f.job = j /\ f.attempt = x.attempt /\ f.pc \in Places(x)
    BY <2>1 DEF CaseInv, HeldInv, Stands
  <2>3. v # w
    BY <1>3, <1>5, <2>2
  <2>4. execs'[v] = execs[v]
    BY <1>1, <2>3 DEF Crash, Inv, QueueInv, TypeOK
  <2>5. QED
    BY <2>2, <2>4 DEF Stands
<1>6. HeldInv'
  BY <1>3, <1>5 DEF CaseInv, HeldInv
<1>7. RowsKept
  BY <1>1 DEF RowsKept
<1>8. SlotsInv' /\ ResultsInv'
  BY <1>1, <1>3, <1>4, <1>7, SlotsKept, ResultsKept DEF CaseInv
<1>9. AloneInv'
  <2>1. ASSUME NEW j \in Job, Evaluation(j)
        PROVE  AloneAt(j)'
    <3>1. AloneAt(j) /\ api'[j] = {}
      BY <1>1, <2>1 DEF CaseInv, AloneInv, AloneAt
    <3>2. work'[j] \subseteq work[j] /\ run'[j] = run[j]
      BY <1>1, <1>3
    <3>3. QED
      BY <1>2, <3>1, <3>2, NothingFinishesKeepsThrough, AloneKept
  <2>2. QED
    BY <1>1, <2>1 DEF AloneInv, Evaluation
<1>10. CaseTypeOK'
  BY <1>1, <1>2, <1>4 DEF CaseTypeOK, Inv, QueueInv
<1>11. QED
  BY <1>2, <1>6, <1>8, <1>9, <1>10 DEF CaseInv

(* Nobody enters or leaves a runner; an evaluation is at most requested.      *)
LEMMA OutsideKeeps ==
  ASSUME CaseInv, [Next]_vars, NothingFinishes,
         \A w \in Worker : execs[w] \subseteq execs'[w],
         UNCHANGED <<kind, rows, results, announced, campaigns, work>>,
         run' \in [Job -> RunStatus], api' \in [Job -> SUBSET Request],
         \A j \in Job : run'[j] = "COMPLETED" => run[j] = "COMPLETED",
         \A j \in Job : Evaluation(j) =>
            /\ api'[j] = {}
            /\ run'[j] = run[j] \/ run[j] \notin {"RUNNING", "COMPLETED"}
  PROVE  CaseInv'
<1>1. Inv /\ Inv' /\ CaseTypeOK
  BY InvNext DEF CaseInv
<1>2. HeldInv'
  BY DEF CaseInv, HeldInv, Stands
<1>3. RowsKept
  BY DEF RowsKept
<1>4. SlotsInv' /\ ResultsInv'
  BY <1>3, ResultsKept DEF CaseInv, SlotsInv, Fits, Evaluation
<1>5. AloneInv'
  <2>1. ASSUME NEW j \in Job, Evaluation(j)
        PROVE  AloneAt(j)'
    <3>1. AloneAt(j) /\ api'[j] = {}
      BY <2>1 DEF CaseInv, AloneInv
    <3>2. CASE run'[j] = run[j]
      BY <3>1, <3>2, NothingFinishesKeepsThrough, AloneKept
    <3>3. CASE run[j] \notin {"RUNNING", "COMPLETED"}
      <4>1. Busy(j) = {} /\ ~Through(j)
        BY <3>1, <3>3 DEF AloneAt
      <4>2. Busy(j)' = {} /\ ~Through(j)'
        BY <4>1 DEF Busy, Through, NothingFinishes
      <4>3. QED
        BY <3>1, <4>2 DEF AloneAt
    <3>4. QED
      BY <2>1, <3>2, <3>3
  <2>2. QED
    BY <2>1 DEF AloneInv, Evaluation
<1>6. CaseTypeOK'
  BY <1>1 DEF CaseTypeOK, Inv, QueueInv
<1>7. QED
  BY <1>1, <1>2, <1>4, <1>5, <1>6 DEF CaseInv

LEMMA QueueKeeps ==
  ASSUME CaseInv, CaseQueueStep
  PROVE  CaseInv'
<1>1. [Next]_vars /\ UNCHANGED runVars
  BY DEF CaseQueueStep, Next, WorkerStep, JobStep
<1>2. NothingFinishes
  BY QueueStepsFinishNothing DEF CaseQueueStep, CaseInv, JobStep
<1>3. \A w \in Worker : execs[w] \subseteq execs'[w]
  <2>1. CASE UNCHANGED execs
    BY <2>1
  <2>2. ASSUME NEW w \in Worker, Lease(w)
        PROVE  \A v \in Worker : execs[v] \subseteq execs'[v]
    BY <2>2 DEF Lease, CaseInv, Inv, QueueInv, TypeOK
  <2>3. QED
    BY <2>1, <2>2 DEF CaseQueueStep, ReclaimStale, LeaseAges, BackoffElapses
<1>4. \A j \in Job : Evaluation(j) => api'[j] = {}
  BY <1>1 DEF runVars, CaseInv, AloneInv, AloneAt
<1>5. QED
  BY <1>1, <1>2, <1>3, <1>4, OutsideKeeps DEF runVars, CaseInv, CaseTypeOK

(* A run changes its status outside of a runner: not to COMPLETED, and if it is *)
(* an evaluation, only from where no runner has been.                          *)
LEMMA StatusKeeps ==
  ASSUME CaseInv, NEW j \in Job,
         UNCHANGED jobs \/ JobStep(j) \/ Cancel(j),
         UNCHANGED <<execs, kind, rows, results, announced, campaigns, work>>,
         \/ run' = run
         \/ /\ \E s \in RunStatus \ {"COMPLETED"} : run' = [run EXCEPT ![j] = s]
            /\ ~Evaluation(j) \/ run[j] \notin {"RUNNING", "COMPLETED"},
         api' \in [Job -> SUBSET Request],
         \A i \in Job : api'[i] = api[i] \/ api'[i] = {} \/ ~Evaluation(i)
  PROVE  CaseInv'
<1>1. [Next]_vars /\ NothingFinishes
  <2>1. CASE UNCHANGED jobs
    BY <2>1 DEF vars, NothingFinishes, Finishing
  <2>2. CASE JobStep(j) \/ Cancel(j)
    <3>1. JobStep(j)
      BY <2>2 DEF JobStep
    <3>2. QED
      BY <3>1, OperatorIsQueueStep, QueueStepsFinishNothing DEF CaseInv
  <2>3. QED
    BY <2>1, <2>2
<1>2. /\ run' \in [Job -> RunStatus]
      /\ \A i \in Job : run'[i] = "COMPLETED" => run[i] = "COMPLETED"
      /\ \A i \in Job : Evaluation(i) =>
            run'[i] = run[i] \/ run[i] \notin {"RUNNING", "COMPLETED"}
  <2>1. CASE run' = run
    BY <2>1 DEF CaseInv, CaseTypeOK
  <2>2. ASSUME NEW s \in RunStatus \ {"COMPLETED"}, run' = [run EXCEPT ![j] = s],
               ~Evaluation(j) \/ run[j] \notin {"RUNNING", "COMPLETED"}
        PROVE  /\ run' \in [Job -> RunStatus]
               /\ \A i \in Job : run'[i] = "COMPLETED" => run[i] = "COMPLETED"
               /\ \A i \in Job : Evaluation(i) =>
                     run'[i] = run[i] \/ run[i] \notin {"RUNNING", "COMPLETED"}
    BY <2>2, RunTyped DEF CaseInv
  <2>3. QED
    BY <2>1, <2>2
<1>3. \A i \in Job : Evaluation(i) => api'[i] = {}
  BY DEF CaseInv, AloneInv, AloneAt
<1>4. QED
  BY <1>1, <1>2, <1>3, OutsideKeeps

LEMMA OperatorKeeps ==
  ASSUME CaseInv, NEW j \in Job, CaseJobStep(j)
  PROVE  CaseInv'
<1>1. /\ api \in [Job -> SUBSET Request] /\ run[j] \in RunStatus
      /\ run \in [Job -> RunStatus]
      /\ Evaluation(j) => api[j] = {}
  BY DEF CaseInv, CaseTypeOK, AloneInv, AloneAt
<1>2. {"NONE", "DRAFT", "RUNNING", "PENDING", "FAILED", "CANCELLED"}
        \subseteq RunStatus \ {"COMPLETED"}
  BY DEF RunStatus, ExperimentStatus, EvaluationStatus
<1>3. CASE CreateExperiment(j) \/ CreateComparison(j) \/ RequestEvaluation(j)
  <2>1. /\ \E s \in {"DRAFT", "PENDING"} : run' = [run EXCEPT ![j] = s]
        /\ run[j] = "NONE"
        /\ UNCHANGED <<jobs, execs, kind, rows, results, announced, campaigns, work, api>>
    BY <1>3 DEF CreateExperiment, CreateComparison, RequestEvaluation, CreateAs
  <2>2. QED
    BY <1>1, <1>2, <2>1, StatusKeeps
<1>4. CASE RunExperiment(j) \/ RunComparison(j)
  <2>1. /\ run' = [run EXCEPT ![j] = "RUNNING"] /\ run[j] = "DRAFT"
        /\ JobStep(j) /\ UNCHANGED execs
        /\ UNCHANGED <<kind, rows, results, announced, campaigns, work, api>>
    BY <1>4 DEF RunExperiment, RunComparison, SubmitAs, JobStep, Enqueue
  <2>2. QED
    BY <1>1, <1>2, <2>1, StatusKeeps
<1>5. CASE ConsumeRequest(j)
  BY <1>1, <1>5, StatusKeeps DEF ConsumeRequest, JobStep, Enqueue, runVars
<1>6. CASE CancelComparison(j) \/ CancelWrites(j)
  <2>1. /\ ~Evaluation(j)
        /\ \E seen \in RunStatus : CancelWithJob(j, seen)
        /\ api' \in [Job -> SUBSET Request] /\ \A i \in Job : i # j => api'[i] = api[i]
    <3>1. CASE CancelComparison(j)
      BY <1>1, <3>1 DEF CancelComparison, Evaluation
    <3>2. CASE CancelWrites(j)
      <4>1. PICK seen \in {"DRAFT", "RUNNING"} :
              /\ Asked("cancel", seen) \in api[j] /\ CancelWithJob(j, seen)
              /\ api' = [api EXCEPT ![j] = api[j] \ {Asked("cancel", seen)}]
        BY <3>2 DEF CancelWrites
      <4>2. api[j] # {}
        BY <4>1
      <4>3. ~Evaluation(j)
        BY <1>1, <4>2
      <4>4. api' \in [Job -> SUBSET Request] /\ \A i \in Job : i # j => api'[i] = api[i]
        BY <1>1, <4>1
      <4>5. QED
        BY <1>2, <4>1, <4>3, <4>4
    <3>3. QED
      BY <1>6, <3>1, <3>2
  <2>2. UNCHANGED jobs \/ Cancel(j)
    BY <2>1, CancelWithJobIsQueueStep DEF vars
  <2>3. /\ run' = [run EXCEPT ![j] = "CANCELLED"]
        /\ UNCHANGED <<execs, kind, rows, results, announced, campaigns, work>>
    BY <2>1 DEF CancelWithJob
  <2>4. \A i \in Job : api'[i] = api[i] \/ ~Evaluation(i)
    BY <2>1
  <2>5. QED
    BY <1>2, <2>1, <2>2, <2>3, <2>4, StatusKeeps
<1>7. CASE CancelReads(j)
  <2>1. /\ api' = [api EXCEPT ![j] = api[j] \cup {Asked("cancel", run[j])}]
        /\ ~Evaluation(j)
        /\ UNCHANGED <<jobs, execs, kind, run, rows, results, announced, campaigns, work>>
    BY <1>7 DEF CancelReads, Evaluation
  <2>2. Asked("cancel", run[j]) \in Request
    BY <1>1 DEF Asked, Request
  <2>3. api' \in [Job -> SUBSET Request] /\ \A i \in Job : api'[i] = api[i] \/ ~Evaluation(i)
    BY <1>1, <2>1, <2>2
  <2>4. QED
    BY <2>1, <2>3, StatusKeeps
<1>8. CASE CancelJob(j) \/ RetryJob(j)
  <2>1. PICK what \in {"cancel job", "retry job"} :
          \/ api' = [api EXCEPT ![j] = api[j]]
          \/ ~Evaluation(j) /\ api' = [api EXCEPT ![j] = api[j] \cup {Asked(what, "UNREAD")}]
    BY <1>8 DEF CancelJob, RetryJob
  <2>2. Asked(what, "UNREAD") \in Request
    BY DEF Asked, Request
  <2>3. api' \in [Job -> SUBSET Request] /\ \A i \in Job : api'[i] = api[i] \/ ~Evaluation(i)
    BY <1>1, <2>1, <2>2
  <2>4. /\ UNCHANGED jobs \/ JobStep(j)
        /\ UNCHANGED <<execs, kind, run, rows, results, announced, campaigns, work>>
    BY <1>8 DEF CancelJob, RetryJob, JobStep, Cancel, Retry
  <2>5. QED
    BY <2>3, <2>4, StatusKeeps
<1>9. CASE ApiReads(j)
  <2>1. PICK what \in {"cancel job", "retry job"} :
          /\ Asked(what, "UNREAD") \in api[j]
          /\ api' = [api EXCEPT ![j] = (api[j] \ {Asked(what, "UNREAD")})
                                         \cup {Asked(what, run[j])}]
    BY <1>9 DEF ApiReads
  <2>2. Asked(what, run[j]) \in Request
    BY <1>1 DEF Asked, Request
  <2>3. api[j] # {}
    BY <2>1
  <2>4. ~Evaluation(j)
    BY <1>1, <2>3
  <2>5. api' \in [Job -> SUBSET Request] /\ \A i \in Job : api'[i] = api[i] \/ ~Evaluation(i)
    BY <1>1, <2>1, <2>2, <2>4
  <2>6. QED
    BY <1>9, <2>5, StatusKeeps DEF ApiReads
<1>10. CASE ApiWrites(j)
  <2>1. PICK what \in {"cancel job", "retry job"}, seen \in RunStatus :
          /\ Asked(what, seen) \in api[j]
          /\ api' = [api EXCEPT ![j] = api[j] \ {Asked(what, seen)}]
          /\ Write(j, seen, IF what = "cancel job" THEN "CANCELLED" ELSE "RUNNING")
    BY <1>10 DEF ApiWrites
  <2>2. ~Evaluation(j)
    <3>1. api[j] # {}
      BY <2>1
    <3>2. QED
      BY <1>1, <3>1
  <2>3. api' \in [Job -> SUBSET Request] /\ \A i \in Job : api'[i] = api[i] \/ ~Evaluation(i)
    BY <1>1, <2>1, <2>2
  <2>4. run' = run \/ \E s \in RunStatus \ {"COMPLETED"} : run' = [run EXCEPT ![j] = s]
    BY <1>2, <2>1 DEF Write
  <2>5. UNCHANGED <<jobs, execs, kind, rows, results, announced, campaigns, work>>
    BY <1>10 DEF ApiWrites
  <2>6. QED
    BY <2>2, <2>3, <2>4, <2>5, StatusKeeps
<1>11. CASE ApiDies(j)
  <2>1. api' \in [Job -> SUBSET Request] /\ \A i \in Job : api'[i] = api[i] \/ api'[i] = {}
    BY <1>1, <1>11 DEF ApiDies
  <2>2. QED
    BY <1>11, <2>1, StatusKeeps DEF ApiDies
<1>12. QED
  BY <1>3, <1>4, <1>5, <1>6, <1>7, <1>8, <1>9, <1>10, <1>11 DEF CaseJobStep

-----------------------------------------------------------------------------
(* CaseInv is inductive.                                                    *)

LEMMA CaseInvInit == CaseInit => CaseInv
<1> SUFFICES ASSUME CaseInit PROVE CaseInv
  OBVIOUS
<1>1. Init /\ Inv
  BY InvInit DEF CaseInit
<1>2. CaseTypeOK
  BY <1>1 DEF CaseInit, CaseTypeOK, RunStatus, RowStatus, Inv, QueueInv
<1>3. HeldInv /\ SlotsInv
  BY DEF CaseInit, HeldInv, SlotsInv
<1>4. ResultsInv
  BY DEF CaseInit, ResultsInv
<1>5. \A j \in Job : Busy(j) = {} /\ ~Through(j) /\ api[j] = {}
  BY <1>1 DEF CaseInit, Busy, Through, Finishing, Init, Absent
<1>6. AloneInv
  BY <1>5 DEF AloneInv, AloneAt
<1>7. QED
  BY <1>1, <1>2, <1>3, <1>4, <1>6 DEF CaseInv

LEMMA CaseInvNext == CaseInv /\ [CaseNext]_caseVars => CaseInv'
<1> SUFFICES ASSUME CaseInv, [CaseNext]_caseVars PROVE CaseInv'
  OBVIOUS
<1>1. CASE CaseNext
  BY <1>1, QueueKeeps, CrashKeeps, CoroutineKeepsCaseInv, OperatorKeeps DEF CaseNext
<1>2. CASE UNCHANGED caseVars
  <2>1. UNCHANGED vars /\ UNCHANGED runVars
    BY <1>2 DEF caseVars, vars
  <2>2. Inv'
    BY <2>1, InvNext DEF CaseInv
  <2>3. HeldInv' /\ SlotsInv' /\ ResultsInv'
    BY <2>1 DEF CaseInv, HeldInv, Stands, SlotsInv, Fits, Evaluation, ResultsInv, vars, runVars
  <2>4. AloneInv'
    BY <2>1 DEF CaseInv, AloneInv, AloneAt, Busy, Through, Finishing, Evaluation, vars, runVars
  <2>5. CaseTypeOK'
    BY <2>1, <2>2 DEF CaseInv, CaseTypeOK, Inv, QueueInv, runVars
  <2>6. QED
    BY <2>2, <2>3, <2>4, <2>5 DEF CaseInv
<1>3. QED
  BY <1>1, <1>2

LEMMA CaseInvHolds == CaseSpec => []CaseInv
  BY CaseInvInit, CaseInvNext, PTL DEF CaseSpec

(* Rows, runs and coroutines are always what tables and code can hold.        *)
THEOREM CaseTypeCorrect == CaseSpec => []CaseTypeOK
<1>1. CaseInv => CaseTypeOK
  BY DEF CaseInv
<1>2. QED
  BY <1>1, CaseInvHolds, PTL

(* However attempts, cancellations and the reconciler overwrite each other: a  *)
(* run that shows as COMPLETED or has a result has a row for every case, and    *)
(* an experiment's result is there exactly if it was announced                  *)
(* (PromptExperimentRunner.run, ProviderComparisonRunner, EvaluationRunner).     *)
THEOREM ResultsHold == CaseSpec => []ResultsAreComplete
<1>1. CaseInv => ResultsAreComplete
  BY DEF CaseInv, ResultsInv, ResultsAreComplete
<1>2. QED
  BY <1>1, CaseInvHolds, PTL

(* An evaluation is run by one coroutine at a time, which finds it RUNNING      *)
(* whenever it settles it, although _finish, _fail and _cancel do not look; its  *)
(* job only succeeds if it has (EvaluationRunner.run).                          *)
THEOREM EvaluationsRunAlone == CaseSpec => []EvaluationRunsAlone
<1>1. CaseInv => EvaluationRunsAlone
  BY DEF CaseInv, AloneInv, AloneAt, Busy, Through, EvaluationRunsAlone
<1>2. QED
  BY <1>1, CaseInvHolds, PTL
=============================================================================
