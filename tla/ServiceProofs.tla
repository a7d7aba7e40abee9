--------------------------- MODULE ServiceProofs ---------------------------
(***************************************************************************)
(* Proofs about what surrounds the queue: Outbox; the calls and the lives that        *)
(* Services puts side by side (PromptVersions, Alerts, ProviderCalls,                *)
(* DocumentFindings, EvaluationScores, CsvReports); Webhooks and ImpactFeedback, as     *)
(* TaskOperations composes them; for any events, loops, managers, conditions,         *)
(* operators, chains, documents, cases, files, deliveries, tasks and bounds.          *)
(*                                                                         *)
(* Each has an inductive invariant of its own (OutboxInv, PromptInv, AlertInv,      *)
(* WebhookInv, FeedbackInv): beside the types it says what a loop or a request that   *)
(* has read and not yet written may still believe of the rows, whatever the others    *)
(* wrote meanwhile.  Those of the calls (CallsInv, DocInv, ScoresInv, CsvInv) say what  *)
(* the call has established so far; the work there is in what the operators compute.      *)
(***************************************************************************)
EXTENDS Outbox, Services, TaskOperations, SumProofs, TLAPS

-----------------------------------------------------------------------------
(* The outbox.  Rows first: every step leaves each row alone or makes one RowStep   *)
(* of it, and a RowStep keeps RowInv and never lowers a version; then the loops, no   *)
(* two of which hold the same version of an event.                              *)

RowInv(r) ==
    /\ r \in OutboxRow
    /\ r.status = "ABSENT" => r.version = 0
    /\ r.status \in {"PENDING", "FAILED"} => r.version < OutboxMaxAttempts
    /\ r.status = "PROCESSING" <=> r.locked_by # NoDispatcher
    /\ r.live => r.status = "PROCESSING"

(* A step of a row that does not deliver the event.                           *)
QuietStep(r, s) ==
    \/ s = r
    \/ r.status = "ABSENT" /\ s = [r EXCEPT !.status = "PENDING"]
    \/ Leasable(r) /\ \E d \in Dispatcher : s = LeasedRow(r, d)
    \/ r.status = "PROCESSING" /\ s = [r EXCEPT !.live = TRUE]
    \/ r.status = "PROCESSING" /\ s = FailedRow(r)
    \/ r.status = "PROCESSING" /\ s = ReclaimedRow(r)
    \/ r.live /\ s = [r EXCEPT !.live = FALSE]
    \/ r.status = "FAILED" /\ s = [r EXCEPT !.due = TRUE]

RowStep(r, s) ==
    \/ QuietStep(r, s)
    \/ r.status = "PROCESSING" /\ s = Unlocked(r, "PROCESSED")

(* The step that delivers an event and commits its effect.                    *)
Delivers(l) == MarkProcessed(l) /\ Fenced(l)

Held(l) == loops[l] # NoRun

RunInv ==
    /\ loops \in [Loop -> Run \cup {NoRun}]
    /\ \A l \in Loop : Held(l) => loops[l].version <= outbox[loops[l].event].version
    /\ \A l, m \in Loop :
          Held(l) /\ Held(m) /\ l # m /\ loops[l].event = loops[m].event
          => loops[l].version # loops[m].version

OutboxInv ==
    /\ outbox \in [Event -> OutboxRow]
    /\ \A e \in Event : RowInv(outbox[e])
    /\ RunInv
    /\ EffectIffProcessed

-----------------------------------------------------------------------------
(* Rows.                                                                    *)

(* An open row that is settled, by whatever outcome, satisfies RowInv again.  *)
LEMMA UnlockKeepsRow ==
    ASSUME NEW r, RowInv(r), r.status = "PROCESSING",
           NEW status \in {"PROCESSED", "FAILED", "DEAD_LETTER"},
           status = "FAILED" => r.version < OutboxMaxAttempts
    PROVE  /\ RowInv(Unlocked(r, status))
           /\ Unlocked(r, status).version = r.version
           /\ Unlocked(r, status).status = status
  BY DEF RowInv, OutboxRow, OutboxStatus, Unlocked

(* The outcome of a failure leaves a waiting event an attempt.               *)
LEMMA FailedStatusBudget ==
    ASSUME NEW r, RowInv(r)
    PROVE  /\ FailedStatus(r) \in {"FAILED", "DEAD_LETTER"}
           /\ FailedStatus(r) = "FAILED" => r.version < OutboxMaxAttempts
  BY OutboxAssumption DEF RowInv, OutboxRow, FailedStatus

(* Writing whether the row is due disturbs nothing.                          *)
LEMMA DueKeepsRow ==
    ASSUME NEW r, RowInv(r)
    PROVE  /\ RowInv([r EXCEPT !.due = TRUE])
           /\ [r EXCEPT !.due = TRUE].version = r.version
           /\ RowInv([r EXCEPT !.due = FALSE])
           /\ [r EXCEPT !.due = FALSE].version = r.version
  BY DEF RowInv, OutboxRow

(* A lease is renewed, or loops out, while the event is being processed.       *)
LEMMA LiveKeepsRow ==
    ASSUME NEW r, RowInv(r), r.status = "PROCESSING"
    PROVE  /\ RowInv([r EXCEPT !.live = TRUE])
           /\ [r EXCEPT !.live = TRUE].version = r.version
           /\ RowInv([r EXCEPT !.live = FALSE])
           /\ [r EXCEPT !.live = FALSE].version = r.version
  BY DEF RowInv, OutboxRow

(* Leasing spends an attempt that was left.                                  *)
LEMMA LeaseKeepsRow ==
    ASSUME NEW r, RowInv(r), Leasable(r), NEW d \in Dispatcher
    PROVE  /\ RowInv(LeasedRow(r, d))
           /\ LeasedRow(r, d).status = "PROCESSING"
           /\ LeasedRow(r, d).version = r.version + 1
           /\ r.version \in Nat
           /\ r.version + 1 \in 1..OutboxMaxAttempts
  <1>1. r \in OutboxRow /\ r.version \in Nat /\ r.version + 1 \in 1..OutboxMaxAttempts
    BY OutboxAssumption DEF RowInv, OutboxRow, Leasable
  <1>2. LeasedRow(r, d) = [status |-> "PROCESSING", version |-> r.version + 1, locked_by |-> d,
                           live |-> TRUE, due |-> r.due]
    <2> DEFINE s == LeasedRow(r, d)
    <2>1. s = [r EXCEPT !.status = "PROCESSING", !.locked_by = d, !.live = TRUE,
                        !.version = r.version + 1]
      BY Zenon DEF LeasedRow
    <2> HIDE DEF s
    <2>2. s = [status |-> "PROCESSING", version |-> r.version + 1, locked_by |-> d,
               live |-> TRUE, due |-> r.due]
      BY <1>1, <2>1 DEF OutboxRow
    <2>. QED
      BY <2>2 DEF s
  <1>3. LeasedRow(r, d) \in OutboxRow
    BY <1>1, <1>2, OutboxAssumption DEF OutboxRow, OutboxStatus
  <1>4. d # NoDispatcher
    BY OutboxAssumption
  <1>. QED
    BY <1>1, <1>2, <1>3, <1>4 DEF RowInv

LEMMA RowStepKeepsRow ==
    ASSUME NEW r, NEW s, RowInv(r), RowStep(r, s)
    PROVE  RowInv(s) /\ s.version >= r.version
  <1>v. r.version \in Nat
    BY OutboxAssumption DEF RowInv, OutboxRow
  <1>1. CASE s = r
    BY <1>v, <1>1
  <1>2. CASE r.status = "ABSENT" /\ s = [r EXCEPT !.status = "PENDING"]
    BY <1>2, <1>v, OutboxAssumption DEF RowInv, OutboxRow, OutboxStatus
  <1>3. CASE Leasable(r) /\ \E d \in Dispatcher : s = LeasedRow(r, d)
    BY <1>3, <1>v, LeaseKeepsRow
  <1>4. CASE r.status = "PROCESSING" /\ s = [r EXCEPT !.live = TRUE]
    <2>1. RowInv(s) /\ s.version = r.version
      BY <1>4, LiveKeepsRow, Zenon
    <2>. QED
      BY <2>1, <1>v
  <1>5. CASE r.status = "PROCESSING" /\ s = Unlocked(r, "PROCESSED")
    BY <1>5, <1>v, UnlockKeepsRow
  <1>6. CASE r.status = "PROCESSING" /\ s \in {FailedRow(r), ReclaimedRow(r)}
    <2>1. RowInv(Unlocked(r, FailedStatus(r)))
          /\ Unlocked(r, FailedStatus(r)).version = r.version
      BY <1>6, FailedStatusBudget, UnlockKeepsRow
    <2>2. /\ RowInv(FailedRow(r)) /\ FailedRow(r).version = r.version
          /\ RowInv(ReclaimedRow(r)) /\ ReclaimedRow(r).version = r.version
      BY <2>1, DueKeepsRow DEF FailedRow, ReclaimedRow
    <2>. QED
      BY <2>2, <1>6, <1>v
  <1>7. CASE r.live /\ s = [r EXCEPT !.live = FALSE]
    <2>1. RowInv(s) /\ s.version = r.version
      BY <1>7, LiveKeepsRow, Zenon DEF RowInv
    <2>. QED
      BY <2>1, <1>v
  <1>8. CASE r.status = "FAILED" /\ s = [r EXCEPT !.due = TRUE]
    <2>1. RowInv(s) /\ s.version = r.version
      BY <1>8, DueKeepsRow, Zenon
    <2>. QED
      BY <2>1, <1>v
  <1>. QED
    BY <1>1, <1>2, <1>3, <1>4, <1>5, <1>6, <1>7, <1>8 DEF RowStep, QuietStep

-----------------------------------------------------------------------------
(* Steps.                                                                   *)

(* One row of a table changes by a QuietStep.                                  *)
LEMMA OneQuietStep ==
    ASSUME outbox \in [Event -> OutboxRow], NEW e \in Event, NEW s,
           QuietStep(outbox[e], s), outbox' = [outbox EXCEPT ![e] = s]
    PROVE  /\ outbox' = [x \in Event |-> outbox'[x]]
           /\ \A x \in Event : QuietStep(outbox[x], outbox'[x])
  BY DEF QuietStep

(* A loop that is fenced works on a row that is being processed.             *)
LEMMA FencedRow ==
    ASSUME OutboxInv, NEW l \in Loop, Held(l)
    PROVE  /\ loops[l] \in Run /\ loops[l].event \in Event
           /\ Fenced(l) => outbox[loops[l].event].status = "PROCESSING"
  BY DEF OutboxInv, RunInv, Held, Run, Fenced

LEMMA NoRowChanges ==
    ASSUME OutboxInv, UNCHANGED outbox
    PROVE  /\ outbox' = [x \in Event |-> outbox'[x]]
           /\ \A x \in Event : QuietStep(outbox[x], outbox'[x])
  BY DEF OutboxInv, QuietStep

LEMMA StepsAreQuiet ==
    ASSUME OutboxInv, [OutboxNext]_outboxVars, \A l \in Loop : ~Delivers(l)
    PROVE  /\ outbox' = [x \in Event |-> outbox'[x]]
           /\ \A x \in Event : QuietStep(outbox[x], outbox'[x])
  <1>t. outbox \in [Event -> OutboxRow]
    BY DEF OutboxInv
  <1>1. CASE ReconcileStale
    BY <1>1, <1>t DEF ReconcileStale, QuietStep
  <1>2. ASSUME NEW l \in Loop, LeaseOne(l)
        PROVE  /\ outbox' = [x \in Event |-> outbox'[x]]
               /\ \A x \in Event : QuietStep(outbox[x], outbox'[x])
    <2>1. PICK e \in Event : /\ Leasable(outbox[e])
                             /\ outbox' = [outbox EXCEPT ![e] = LeasedRow(outbox[e], DispatcherOf[l])]
      BY <1>2 DEF LeaseOne
    <2>2. QuietStep(outbox[e], LeasedRow(outbox[e], DispatcherOf[l]))
      BY <2>1, OutboxAssumption DEF QuietStep
    <2>. QED
      BY <2>1, <2>2, <1>t, OneQuietStep
  <1>3. ASSUME NEW l \in Loop, Held(l), RenewOnce(l)
        PROVE  /\ outbox' = [x \in Event |-> outbox'[x]]
               /\ \A x \in Event : QuietStep(outbox[x], outbox'[x])
    <2>1. QuietStep(outbox[loops[l].event], [outbox[loops[l].event] EXCEPT !.live = TRUE])
      BY <1>3, FencedRow DEF RenewOnce, QuietStep
    <2>. QED
      BY <2>1, <1>3, <1>t, FencedRow, OneQuietStep DEF RenewOnce
  <1>4. ASSUME NEW l \in Loop, MarkProcessed(l) \/ RecordFailure(l)
        PROVE  /\ outbox' = [x \in Event |-> outbox'[x]]
               /\ \A x \in Event : QuietStep(outbox[x], outbox'[x])
    <2>1. CASE ~Fenced(l)
      BY <2>1, <1>4, NoRowChanges DEF MarkProcessed, RecordFailure
    <2>2. CASE Fenced(l)
      <3>1. Held(l)
        BY <1>4 DEF MarkProcessed, RecordFailure, At, Held
      <3>2. outbox' = [outbox EXCEPT ![loops[l].event] = FailedRow(outbox[loops[l].event])]
        BY <2>2, <1>4 DEF MarkProcessed, RecordFailure, Delivers
      <3>3. QuietStep(outbox[loops[l].event], FailedRow(outbox[loops[l].event]))
        BY <3>1, <2>2, FencedRow DEF QuietStep
      <3>. QED
        BY <3>1, <3>2, <3>3, <1>t, FencedRow, OneQuietStep
    <2>. QED
      BY <2>1, <2>2
  <1>5. ASSUME NEW e \in Event, EventStep(e)
        PROVE  /\ outbox' = [x \in Event |-> outbox'[x]]
               /\ \A x \in Event : QuietStep(outbox[x], outbox'[x])
    <2>1. PICK s : QuietStep(outbox[e], s) /\ outbox' = [outbox EXCEPT ![e] = s]
      <3>1. CASE Publish(e)
        <4>1. CASE outbox[e].status = "ABSENT"
          BY <3>1, <4>1, <1>t DEF Publish, QuietStep
        <4>2. CASE outbox[e].status # "ABSENT"
          <5>1. outbox' = [outbox EXCEPT ![e] = outbox[e]] /\ QuietStep(outbox[e], outbox[e])
            BY <3>1, <4>2, <1>t DEF Publish, QuietStep
          <5>. QED
            BY <5>1
        <4>. QED
          BY <4>1, <4>2
      <3>2. CASE LeaseExpires(e)
        BY <3>2, <1>t DEF LeaseExpires, QuietStep
      <3>3. CASE BackoffElapses(e)
        BY <3>3, <1>t DEF BackoffElapses, QuietStep
      <3>. QED
        BY <1>5, <3>1, <3>2, <3>3 DEF EventStep
    <2>. QED
      BY <2>1, <1>t, OneQuietStep
  <1>6. ASSUME NEW l \in Loop, LoopStep(l) \/ Heartbeat(l) \/ Abort(l)
        PROVE  /\ outbox' = [x \in Event |-> outbox'[x]]
               /\ \A x \in Event : QuietStep(outbox[x], outbox'[x])
    <2>1. \/ UNCHANGED outbox
          \/ LeaseOne(l)
          \/ Held(l) /\ RenewOnce(l)
          \/ MarkProcessed(l) \/ RecordFailure(l)
      BY <1>6 DEF LoopStep, Consume, ConsumerFails, LastRenewal, Heartbeat, Abort, At, Held
    <2>. QED
      BY <2>1, <1>2, <1>3, <1>4, NoRowChanges
  <1>7. CASE UNCHANGED outboxVars
    BY <1>7, NoRowChanges DEF outboxVars
  <1>. QED
    BY <1>1, <1>5, <1>6, <1>7 DEF OutboxNext

LEMMA StepsAreRowSteps ==
    ASSUME OutboxInv, [OutboxNext]_outboxVars
    PROVE  /\ outbox' = [x \in Event |-> outbox'[x]]
           /\ \A x \in Event : RowStep(outbox[x], outbox'[x])
  <1>1. CASE \A l \in Loop : ~Delivers(l)
    BY <1>1, StepsAreQuiet DEF RowStep
  <1>2. ASSUME NEW l \in Loop, Delivers(l)
        PROVE  /\ outbox' = [x \in Event |-> outbox'[x]]
               /\ \A x \in Event : RowStep(outbox[x], outbox'[x])
    <2>1. /\ loops[l].event \in Event
          /\ outbox[loops[l].event].status = "PROCESSING"
          /\ outbox' = [outbox EXCEPT ![loops[l].event] =
                           Unlocked(outbox[loops[l].event], "PROCESSED")]
      BY <1>2, FencedRow DEF Delivers, MarkProcessed, At, Held
    <2>. QED
      BY <2>1 DEF OutboxInv, RowStep, QuietStep
  <1>. QED
    BY <1>1, <1>2

-----------------------------------------------------------------------------
(* The invariant.                                                           *)

LEMMA OutboxInvInit == OutboxInit => OutboxInv
  <1>1. RowInv(NoEvent)
    BY OutboxAssumption DEF RowInv, OutboxRow, OutboxStatus, NoEvent
  <1>2. OutboxInit => RunInv
    BY DEF OutboxInit, RunInv, Held
  <1>3. OutboxInit => EffectIffProcessed
    BY OutboxAssumption DEF OutboxInit, EffectIffProcessed, NoEvent
  <1>. QED
    BY <1>1, <1>2, <1>3 DEF OutboxInit, OutboxInv, RowInv

(* Runs that end or go on to another statement keep what they know.          *)
LEMMA RunsKeep ==
    ASSUME RunInv, NEW l \in Loop, Held(l),
           \A x \in Event : outbox[x].version \in Nat /\ outbox'[x].version \in Nat
                           /\ outbox'[x].version >= outbox[x].version,
           \/ UNCHANGED loops
           \/ EndRun(l)
           \/ \E pc \in {"consumed", "renewed", "failing"} : Goto(l, pc)
    PROVE  RunInv'
  <1>1. \A m \in Loop : Held(m) => /\ loops[m] \in Run /\ loops[m].event \in Event
                                   /\ loops[m].version \in Nat
    BY OutboxAssumption DEF RunInv, Held, Run
  <1>2. \A m \in Loop : Held(m)' => /\ Held(m) /\ loops'[m].event = loops[m].event
                                    /\ loops'[m].version = loops[m].version
    <2>1. CASE UNCHANGED loops
      BY <2>1 DEF Held
    <2>2. CASE EndRun(l)
      BY <2>2 DEF Held, EndRun, RunInv
    <2>3. ASSUME NEW pc \in {"consumed", "renewed", "failing"}, Goto(l, pc),
                 NEW m \in Loop, Held(m)'
          PROVE  /\ Held(m) /\ loops'[m].event = loops[m].event
                 /\ loops'[m].version = loops[m].version
      <3>1. CASE m = l
        <4>1. loops'[l] = [loops[l] EXCEPT !.pc = pc]
          BY <2>3 DEF Goto, RunInv
        <4>. QED
          BY <3>1, <4>1, <1>1 DEF Run
      <3>2. CASE m # l
        BY <2>3, <3>2 DEF Goto, RunInv, Held
      <3>. QED
        BY <3>1, <3>2
    <2>. QED
      BY <2>1, <2>2, <2>3
  <1>3. loops' \in [Loop -> Run \cup {NoRun}]
    <2>1. CASE UNCHANGED loops
      BY <2>1 DEF RunInv
    <2>2. CASE EndRun(l)
      BY <2>2 DEF EndRun, RunInv
    <2>3. ASSUME NEW pc \in {"consumed", "renewed", "failing"}, Goto(l, pc)
          PROVE  loops' \in [Loop -> Run \cup {NoRun}]
      <3>1. [loops[l] EXCEPT !.pc = pc] \in Run
        BY <1>1 DEF Run
      <3>. QED
        BY <2>3, <3>1 DEF Goto, RunInv
    <2>. QED
      BY <2>1, <2>2, <2>3
  <1>4. \A m \in Loop : Held(m)' => (loops[m].version <= outbox[loops[m].event].version)'
    <2>1. ASSUME NEW m \in Loop, Held(m)'
          PROVE  loops'[m].version <= outbox'[loops'[m].event].version
      <3>1. /\ Held(m) /\ loops'[m].event = loops[m].event
            /\ loops'[m].version = loops[m].version
        BY <2>1, <1>2
      <3>2. loops[m].version <= outbox[loops[m].event].version
        BY <3>1 DEF RunInv
      <3>. QED
        BY <3>1, <3>2, <1>1
    <2>. QED
      BY <2>1
  <1>. QED
    BY <1>2, <1>3, <1>4 DEF RunInv

(* A new run gets a version above every other one of its event.              *)
LEMMA LeaseKeepsRuns ==
    ASSUME OutboxInv, NEW l \in Loop, LeaseOne(l)
    PROVE  RunInv'
  <1>1. PICK e \in Event :
          /\ Leasable(outbox[e])
          /\ outbox' = [outbox EXCEPT ![e] = LeasedRow(outbox[e], DispatcherOf[l])]
          /\ loops' = [loops EXCEPT ![l] = [event |-> e, version |-> outbox[e].version + 1,
                                          pc |-> "consuming"]]
    BY DEF LeaseOne
  <1>2. /\ outbox[e].version \in Nat
        /\ outbox[e].version + 1 \in 1..OutboxMaxAttempts
        /\ LeasedRow(outbox[e], DispatcherOf[l]).version = outbox[e].version + 1
    BY <1>1, LeaseKeepsRow, OutboxAssumption DEF OutboxInv
  <1>3. /\ outbox'[e].version = outbox[e].version + 1
        /\ \A x \in Event : x # e => outbox'[x] = outbox[x]
    BY <1>1, <1>2 DEF OutboxInv
  <1>4. loops \in [Loop -> Run \cup {NoRun}]
    BY DEF OutboxInv, RunInv
  <1>5. /\ loops'[l].event = e /\ loops'[l].version = outbox[e].version + 1
        /\ loops'[l] \in Run
        /\ \A m \in Loop : m # l => loops'[m] = loops[m]
    BY <1>1, <1>2, <1>4 DEF Run
  <1>6. loops' \in [Loop -> Run \cup {NoRun}]
    BY <1>1, <1>4, <1>5
  <1>7. \A m \in Loop : m # l /\ Held(m) =>
           /\ loops[m].event \in Event /\ loops[m].version \in Nat
           /\ loops[m].version <= outbox[loops[m].event].version
    BY <1>4, OutboxAssumption DEF OutboxInv, RunInv, Run, Held
  <1>8. \A m \in Loop : Held(m)' => loops'[m].version <= outbox'[loops'[m].event].version
    BY <1>2, <1>3, <1>5, <1>7 DEF Held
  <1>9. \A m \in Loop : m # l /\ Held(m) /\ loops[m].event = e
                        => loops[m].version # outbox[e].version + 1
    BY <1>2, <1>7
  <1>10. ASSUME NEW m \in Loop, NEW n \in Loop, Held(m)', Held(n)', m # n,
                loops'[m].event = loops'[n].event
         PROVE  loops'[m].version # loops'[n].version
    <2>1. CASE m = l
      BY <2>1, <1>5, <1>9, <1>10 DEF Held
    <2>2. CASE n = l
      BY <2>2, <1>5, <1>9, <1>10 DEF Held
    <2>3. CASE m # l /\ n # l
      BY <2>3, <1>5, <1>10 DEF Held, OutboxInv, RunInv
    <2>. QED
      BY <2>1, <2>2, <2>3
  <1>. QED
    BY <1>6, <1>8, <1>10 DEF RunInv, Held

(* A row is PROCESSED after a quiet step exactly if it was before.           *)
LEMMA QuietStepsDeliverNothing ==
    ASSUME NEW r, NEW s, RowInv(r), QuietStep(r, s)
    PROVE  s.status = "PROCESSED" <=> r.status = "PROCESSED"
  <1>1. r \in OutboxRow
    BY DEF RowInv
  <1>2. FailedStatus(r) \in {"FAILED", "DEAD_LETTER"}
    BY FailedStatusBudget
  <1>3. /\ FailedRow(r).status = FailedStatus(r)
        /\ ReclaimedRow(r).status = FailedStatus(r)
    BY <1>1 DEF FailedRow, ReclaimedRow, Unlocked, OutboxRow
  <1>4. \A d \in Dispatcher : LeasedRow(r, d).status = "PROCESSING"
    BY <1>1 DEF LeasedRow, OutboxRow
  <1>5. /\ [r EXCEPT !.status = "PENDING"].status = "PENDING"
        /\ \A b \in BOOLEAN : /\ [r EXCEPT !.live = b].status = r.status
                            /\ [r EXCEPT !.due = b].status = r.status
    BY <1>1 DEF OutboxRow
  <1>. QED
    BY <1>2, <1>3, <1>4, <1>5 DEF QuietStep, Leasable

(* Rows become PROCESSED only together with the effect of their event.       *)
LEMMA EffectsKept ==
    ASSUME OutboxInv, [OutboxNext]_outboxVars
    PROVE  EffectIffProcessed'
  <1>r. \A x \in Event : RowInv(outbox[x]) /\ outbox[x] \in OutboxRow
    BY DEF OutboxInv, RowInv
  <1>j. JobEvent \subseteq Event
    BY OutboxAssumption
  <1>1. ASSUME NEW l \in Loop, Delivers(l)
        PROVE  EffectIffProcessed'
    <2>1. Held(l) /\ loops[l].event \in Event
      BY <1>1, FencedRow DEF Delivers, MarkProcessed, At, Held
    <2>2. Unlocked(outbox[loops[l].event], "PROCESSED").status = "PROCESSED"
      BY <2>1, <1>r DEF Unlocked, OutboxRow
    <2>3. \A x \in Event : outbox'[x].status = IF x = loops[l].event THEN "PROCESSED"
                                              ELSE outbox[x].status
      BY <1>1, <2>1, <2>2 DEF Delivers, MarkProcessed, OutboxInv
    <2>4. enqueued' = enqueued \cup ({loops[l].event} \cap JobEvent)
      BY <1>1 DEF Delivers, MarkProcessed
    <2>. QED
      BY <2>3, <2>4, <1>j DEF EffectIffProcessed, OutboxInv
  <1>2. CASE \A l \in Loop : ~Delivers(l)
    <2>1. UNCHANGED enqueued
      BY <1>2 DEF OutboxNext, outboxVars, ReconcileStale, LoopStep, EventStep, LeaseOne, Consume,
         ConsumerFails, LastRenewal, MarkProcessed, Delivers, RecordFailure, Heartbeat, Abort,
         Publish, LeaseExpires, BackoffElapses
    <2>2. \A x \in Event : outbox'[x].status = "PROCESSED" <=> outbox[x].status = "PROCESSED"
      BY <1>2, <1>r, StepsAreQuiet, QuietStepsDeliverNothing
    <2>. QED
      BY <2>1, <2>2, <1>j DEF EffectIffProcessed, OutboxInv
  <1>. QED
    BY <1>1, <1>2

LEMMA OutboxInvNext == OutboxInv /\ [OutboxNext]_outboxVars => OutboxInv'
  <1>. SUFFICES ASSUME OutboxInv, [OutboxNext]_outboxVars
                PROVE  OutboxInv'
    OBVIOUS
  <1>1. \A x \in Event : /\ RowInv(outbox[x]) /\ RowInv(outbox'[x])
                         /\ outbox'[x].version >= outbox[x].version
    BY StepsAreRowSteps, RowStepKeepsRow DEF OutboxInv
  <1>2. outbox' \in [Event -> OutboxRow]
    BY <1>1, StepsAreRowSteps DEF RowInv
  <1>3. \A x \in Event : outbox[x].version \in Nat /\ outbox'[x].version \in Nat
                         /\ outbox'[x].version >= outbox[x].version
    BY <1>1, OutboxAssumption DEF RowInv, OutboxRow
  <1>4. RunInv'
    <2>1. CASE \E l \in Loop : LeaseOne(l)
      BY <2>1, LeaseKeepsRuns
    <2>2. ASSUME NEW l \in Loop, Held(l),
                 \/ UNCHANGED loops
                 \/ EndRun(l)
                 \/ \E pc \in {"consumed", "renewed", "failing"} : Goto(l, pc)
          PROVE  RunInv'
      BY <2>2, <1>3, RunsKeep DEF OutboxInv
    <2>3. ASSUME NEW l \in Loop, ~LeaseOne(l), LoopStep(l) \/ Heartbeat(l) \/ Abort(l)
          PROVE  RunInv'
      <3>1. Held(l)
        BY <2>3 DEF LoopStep, Consume, ConsumerFails, Inserted, LastRenewal, MarkProcessed,
           RecordFailure, Heartbeat, Abort, At, Held
      <3>2. \/ UNCHANGED loops
            \/ EndRun(l)
            \/ \E pc \in {"consumed", "renewed", "failing"} : Goto(l, pc)
        BY <2>3 DEF LoopStep, Consume, ConsumerFails, LastRenewal, MarkProcessed,
           RecordFailure, Heartbeat, Abort
      <3>. QED
        BY <3>1, <3>2, <2>2
    <2>4. ASSUME UNCHANGED loops
          PROVE  RunInv'
      <3>1. \A l \in Loop : Held(l) => /\ loops[l].event \in Event /\ loops[l].version \in Nat
        BY OutboxAssumption DEF OutboxInv, RunInv, Run, Held
      <3>. QED
        BY <2>4, <3>1, <1>3 DEF OutboxInv, RunInv, Held
    <2>. QED
      BY <2>1, <2>3, <2>4 DEF OutboxNext, ReconcileStale, EventStep, Publish, LeaseExpires,
         BackoffElapses, outboxVars
  <1>. QED
    BY <1>1, <1>2, <1>4, EffectsKept DEF OutboxInv

LEMMA OutboxInvHolds == OutboxSpec => []OutboxInv
  BY OutboxInvInit, OutboxInvNext, PTL DEF OutboxSpec

-----------------------------------------------------------------------------
(* Events, loops and the queue keep their types.                             *)
THEOREM OutboxTypeCorrect == OutboxSpec => []OutboxTypeOK
  <1>1. OutboxInv => OutboxTypeOK
    BY DEF OutboxInv, RunInv, EffectIffProcessed, OutboxTypeOK
  <1>. QED
    BY <1>1, OutboxInvHolds, PTL

(* The job of an event is in the queue exactly when the event is PROCESSED,   *)
(* however many loops consumed it and wherever they died.                      *)
THEOREM ExactlyOnce == OutboxSpec => []EffectIffProcessed
  <1>1. OutboxInv => EffectIffProcessed
    BY DEF OutboxInv
  <1>. QED
    BY <1>1, OutboxInvHolds, PTL

(* The version fences loops that share an identity: of those that hold an      *)
(* event at most one may write.                                                *)
THEOREM OneWriterHolds == OutboxSpec => []OneWriter
  <1>1. OutboxInv => OneWriter
    BY DEF OutboxInv, RunInv, Held, Fenced, OneWriter
  <1>. QED
    BY <1>1, OutboxInvHolds, PTL

(* Waiting events have an attempt left, and a lease goes with PROCESSING.     *)
THEOREM OutboxBudgetHolds == OutboxSpec => []OutboxBudget
  <1>1. OutboxInv => OutboxBudget
    BY DEF OutboxInv, RunInv, Held, RowInv, OutboxBudget
  <1>. QED
    BY <1>1, OutboxInvHolds, PTL

-----------------------------------------------------------------------------
(* The refinement.                                                          *)

(* A step of a row is at most one advance of its delivery.                   *)
LEMMA RowStepAdvances ==
    ASSUME NEW r, NEW s, RowInv(r), RowStep(r, s)
    PROVE  \/ Phase(s) = Phase(r)
           \/ Phase(r) = "absent" /\ Phase(s) = "waiting"
           \/ Phase(r) = "waiting" /\ Phase(s) \in {"delivered", "dead"}
  <1>1. r \in OutboxRow
    BY DEF RowInv
  <1>2. FailedStatus(r) \in {"FAILED", "DEAD_LETTER"}
    BY FailedStatusBudget
  <1>3. /\ FailedRow(r).status = FailedStatus(r)
        /\ ReclaimedRow(r).status = FailedStatus(r)
        /\ Unlocked(r, "PROCESSED").status = "PROCESSED"
    BY <1>1 DEF FailedRow, ReclaimedRow, Unlocked, OutboxRow
  <1>4. \A d \in Dispatcher : LeasedRow(r, d).status = "PROCESSING"
    BY <1>1 DEF LeasedRow, OutboxRow
  <1>5. /\ [r EXCEPT !.status = "PENDING"].status = "PENDING"
        /\ \A b \in BOOLEAN : /\ [r EXCEPT !.live = b].status = r.status
                            /\ [r EXCEPT !.due = b].status = r.status
    BY <1>1 DEF OutboxRow
  <1>6. \/ s.status = r.status
        \/ r.status = "ABSENT" /\ s.status = "PENDING"
        \/ /\ r.status \in {"PENDING", "FAILED", "PROCESSING"}
           /\ s.status \in {"PROCESSING", "PROCESSED", "FAILED", "DEAD_LETTER"}
    BY <1>2, <1>3, <1>4, <1>5 DEF RowStep, QuietStep, Leasable
  <1>. QED
    BY <1>6 DEF Phase

(* The outbox delivers every event once or gives it up.                      *)
THEOREM DeliveryImplemented == OutboxSpec => ImplementsDelivery
  <1>1. OutboxInit => EventDelivery!DeliveryInit
    BY DEF OutboxInit, NoEvent, Phase, EventDelivery!DeliveryInit
  <1>2. OutboxInv /\ OutboxInv' /\ [OutboxNext]_outboxVars
        => [EventDelivery!DeliveryNext]_EventDelivery!deliveryVars
    <2>. SUFFICES ASSUME OutboxInv, OutboxInv', [OutboxNext]_outboxVars
                  PROVE  EventDelivery!DeliveryNext
      OBVIOUS
    <2>1. \A e \in Event :
             \/ Phase(outbox'[e]) = Phase(outbox[e])
             \/ Phase(outbox[e]) = "absent" /\ Phase(outbox'[e]) = "waiting"
             \/ Phase(outbox[e]) = "waiting" /\ Phase(outbox'[e]) \in {"delivered", "dead"}
      BY StepsAreRowSteps, RowStepAdvances DEF OutboxInv
    <2>2. \A e \in Event : /\ Phase(outbox[e]) = "delivered" <=> outbox[e].status = "PROCESSED"
                           /\ Phase(outbox'[e]) = "delivered" <=> outbox'[e].status = "PROCESSED"
      BY DEF Phase
    <2>3. enqueued' = enqueued \cup {e \in JobEvent : /\ Phase(outbox[e]) = "waiting"
                                                     /\ Phase(outbox'[e]) = "delivered"}
      BY <2>1, <2>2, OutboxAssumption DEF OutboxInv, EffectIffProcessed
    <2>. QED
      BY <2>1, <2>3, OutboxAssumption
      DEF EventDelivery!DeliveryNext, EventDelivery!Advances, EventDelivery!Becomes
  <1>. QED
    BY <1>1, <1>2, OutboxInvHolds, PTL DEF OutboxSpec, ImplementsDelivery, EventDelivery!DeliverySpec


-----------------------------------------------------------------------------
(* Prompt versions.                                                          *)

VersionOK(v) ==
    /\ v.status # "DRAFT" => v.submitted
    /\ v.status \in {"APPROVED", "ACTIVE", "RETIRED"} => v.approved
    /\ v.approved => v.submitted

(* What stays true of the version a request has read: a version never loses its    *)
(* approval, although its status may be overwritten.                             *)
RequestOK(r) ==
    r # NoRequest =>
      /\ counter > 0
      /\ r.asks # "CREATE" => r.number \in DOMAIN versions
      /\ r.asks = "APPROVED" => versions[r.number].submitted
      /\ r.asks \in {"RETIRED", "ACTIVE"} => versions[r.number].approved

PromptInv ==
    /\ PromptTypeOK
    /\ counter = 0 => versions = <<>>
    /\ \A n \in DOMAIN versions : VersionOK(versions[n])
    /\ \A m \in Manager : RequestOK(requests[m])
    /\ \A n \in resolved : n \in DOMAIN versions /\ versions[n].approved

(* What any write does to the versions: they are as many or more, and none loses   *)
(* a mark.                                                                    *)
VersionsKept ==
    /\ versions' \in Seq(Version) /\ Len(versions') <= VersionLimit
    /\ DOMAIN versions \subseteq DOMAIN versions'
    /\ \A n \in DOMAIN versions' : VersionOK(versions'[n])
    /\ \A n \in DOMAIN versions : /\ versions[n].submitted => versions'[n].submitted
                                  /\ versions[n].approved => versions'[n].approved

(* The end of a request, whatever it has written to the versions.                 *)
LEMMA AnswerKeeps ==
    ASSUME PromptInv, NEW m \in Manager, Answered(m), VersionsKept, UNCHANGED resolved,
           counter' \in 0..ActivationLimit, counter > 0 => counter' > 0,
           announced' \subseteq 1..VersionLimit, requests[m] # NoRequest
    PROVE  PromptInv'
  <1>1. requests' \in [Manager -> Request \cup {NoRequest}]
    BY DEF PromptInv, PromptTypeOK, Answered
  <1>2. \A q \in Manager : requests'[q] \in {requests[q], NoRequest}
    BY DEF PromptInv, PromptTypeOK, Answered
  <1>3. PromptTypeOK'
    BY <1>1 DEF PromptInv, PromptTypeOK, VersionsKept
  <1>4. counter > 0
    BY DEF PromptInv, RequestOK
  <1>5. \A q \in Manager : RequestOK(requests[q])'
    <2> SUFFICES ASSUME NEW q \in Manager, requests'[q] # NoRequest
                 PROVE  RequestOK(requests[q])'
      BY DEF RequestOK
    <2>1. requests'[q] = requests[q] /\ RequestOK(requests[q])
      BY <1>2 DEF PromptInv
    <2>. QED
      BY <1>4, <2>1 DEF RequestOK, VersionsKept
  <1>6. \A n \in resolved' : n \in DOMAIN versions' /\ versions'[n].approved
    BY DEF PromptInv, VersionsKept
  <1>. QED
    BY <1>3, <1>4, <1>5, <1>6 DEF PromptInv, VersionsKept

(* A request that has read, and what it believes is true.                         *)
LEMMA BeginKeeps ==
    ASSUME PromptInv, NEW m \in Manager,
           NEW asks \in {"CREATE", "TESTING", "APPROVED", "RETIRED", "ACTIVE"},
           NEW n \in 1..VersionLimit, NEW seen \in VersionStatus,
           Begin(m, asks, n, seen), UNCHANGED <<counter, versions, announced, resolved>>,
           counter > 0, asks # "CREATE" => n \in DOMAIN versions,
           asks = "APPROVED" => versions[n].submitted,
           asks \in {"RETIRED", "ACTIVE"} => versions[n].approved
    PROVE  PromptInv'
  <1> DEFINE r == [asks |-> asks, number |-> n, seen |-> seen, expected |-> counter]
  <1>1. r \in Request /\ r.asks = asks /\ r.number = n
    BY DEF PromptInv, PromptTypeOK, Request
  <1>2. requests' = [requests EXCEPT ![m] = r]
    BY DEF Begin
  <1> HIDE DEF r
  <1>3. PromptTypeOK'
    BY <1>1, <1>2 DEF PromptInv, PromptTypeOK
  <1>4. \A q \in Manager : RequestOK(requests[q])'
    BY <1>1, <1>2 DEF PromptInv, PromptTypeOK, RequestOK
  <1>. QED
    BY <1>3, <1>4 DEF PromptInv

LEMMA InsertVersionKeeps ==
    ASSUME PromptInv, NEW m \in Manager, InsertVersion(m)
    PROVE  PromptInv'
  <1> USE DEF PromptInv
  <1>1. /\ requests[m].asks = "CREATE" /\ Answered(m)
        /\ UNCHANGED <<counter, announced, resolved>>
    BY DEF InsertVersion
  <1>2. requests[m] \in Request /\ requests[m] # NoRequest
    BY <1>1 DEF PromptTypeOK, NoRequest, Request
  <1>3. VersionsKept
    <2>1. CASE requests[m].number \in DOMAIN versions
      BY <2>1 DEF InsertVersion, VersionsKept, PromptTypeOK
    <2>2. CASE requests[m].number \notin DOMAIN versions
      <3>1. versions' = Append(versions, Draft) /\ Draft \in Version
        BY <2>2 DEF InsertVersion, Draft, Version, VersionStatus
      <3>2. Len(versions) < VersionLimit
        <4>1. requests[m].number \in 1..VersionLimit
          BY <1>2 DEF Request
        <4>2. DOMAIN versions = 1..Len(versions) /\ Len(versions) \in Nat
          BY DEF PromptTypeOK
        <4>. QED
          BY <2>2, <4>1, <4>2, PromptAssumption
      <3>3. /\ versions' \in Seq(Version) /\ Len(versions') = Len(versions) + 1
            /\ versions'[Len(versions) + 1] = Draft
            /\ \A n \in 1..Len(versions) : versions'[n] = versions[n]
        BY <3>1 DEF PromptTypeOK
      <3>4. VersionOK(Draft)
        BY DEF VersionOK, Draft
      <3>. QED
        BY <3>2, <3>3, <3>4, PromptAssumption DEF VersionsKept, PromptTypeOK
    <2>. QED
      BY <2>1, <2>2
  <1>. QED
    BY <1>1, <1>2, <1>3, AnswerKeeps DEF PromptTypeOK

LEMMA TransitionKeeps ==
    ASSUME PromptInv, NEW m \in Manager, Transition(m)
    PROVE  PromptInv'
  <1> USE DEF PromptInv
  <1> DEFINE n == requests[m].number
             asks == requests[m].asks
             v == Transitioned(versions[n], asks)
  <1>1. /\ asks \in {"TESTING", "APPROVED", "RETIRED"} /\ Answered(m)
        /\ UNCHANGED <<counter, announced, resolved>>
    BY DEF Transition
  <1>2. requests[m] # NoRequest /\ n \in DOMAIN versions
    BY <1>1 DEF NoRequest, RequestOK
  <1>3. versions \in Seq(Version) /\ versions[n] \in Version
    BY <1>2 DEF PromptTypeOK
  <1>4. versions' = [versions EXCEPT ![n] = v]
    BY DEF Transition
  <1>5. /\ v \in Version
        /\ v.status = asks
        /\ v.submitted = (versions[n].submitted \/ asks = "TESTING")
        /\ v.approved = (versions[n].approved \/ asks = "APPROVED")
    BY <1>1, <1>3 DEF Transitioned, Version, VersionStatus
  <1>6. VersionOK(versions[n]) /\ RequestOK(requests[m])
    BY <1>2
  <1>7. VersionOK(v)
    BY <1>1, <1>2, <1>5, <1>6 DEF VersionOK, RequestOK
  <1> HIDE DEF v
  <1>8. /\ versions' \in Seq(Version) /\ Len(versions') = Len(versions)
        /\ DOMAIN versions' = DOMAIN versions /\ versions'[n] = v
        /\ \A i \in DOMAIN versions \ {n} : versions'[i] = versions[i]
    BY <1>2, <1>3, <1>4, <1>5
  <1>9. VersionsKept
    <2>1. ASSUME NEW i \in DOMAIN versions
          PROVE  /\ VersionOK(versions'[i])
                 /\ versions[i].submitted => versions'[i].submitted
                 /\ versions[i].approved => versions'[i].approved
      BY <1>5, <1>7, <1>8
    <2>. QED
      BY <1>8, <2>1 DEF VersionsKept, PromptTypeOK
  <1>. QED
    BY <1>1, <1>2, <1>9, AnswerKeeps DEF PromptTypeOK

(* What an activation does to the versions: n is active and nobody else is.        *)
LEMMA ActivateVersions ==
    ASSUME PromptInv, NEW m \in Manager, Activate(m)
    PROVE  LET n == requests[m].number IN
           /\ n \in DOMAIN versions
           /\ versions' \in Seq(Version) /\ Len(versions') = Len(versions)
           /\ versions'[n] = [versions[n] EXCEPT !.status = "ACTIVE"]
           /\ \A i \in DOMAIN versions \ {n} :
                versions'[i] = IF i \in Active THEN [versions[i] EXCEPT !.status = "RETIRED"]
                               ELSE versions[i]
  <1> USE DEF PromptInv
  <1> DEFINE n == requests[m].number
             retired == [i \in DOMAIN versions |->
                           IF i \in Active /\ i # n
                           THEN [versions[i] EXCEPT !.status = "RETIRED"] ELSE versions[i]]
  <1>1. requests[m].asks = "ACTIVE" /\ versions' = [retired EXCEPT ![n].status = "ACTIVE"]
    BY DEF Activate
  <1>2. n \in DOMAIN versions
    BY <1>1 DEF NoRequest, RequestOK
  <1>3. versions \in Seq(Version) /\ DOMAIN versions = 1..Len(versions)
    BY DEF PromptTypeOK
  <1>4. \A i \in DOMAIN versions : versions[i] \in Version
    BY <1>3
  <1>5. \A i \in DOMAIN versions : retired[i] \in Version
    BY <1>4 DEF Version, VersionStatus
  <1>6. retired \in Seq(Version) /\ Len(retired) = Len(versions)
    BY <1>3, <1>5
  <1>7. retired[n] = versions[n]
    BY <1>2
  <1>8. versions' = [retired EXCEPT ![n] = [versions[n] EXCEPT !.status = "ACTIVE"]]
    BY <1>1, <1>7
  <1>9. [versions[n] EXCEPT !.status = "ACTIVE"] \in Version
    BY <1>2, <1>4 DEF Version, VersionStatus
  <1>10. \A i \in DOMAIN versions \ {n} :
           retired[i] = IF i \in Active THEN [versions[i] EXCEPT !.status = "RETIRED"]
                        ELSE versions[i]
    OBVIOUS
  <1> DEFINE active == [versions[n] EXCEPT !.status = "ACTIVE"]
  <1> HIDE DEF retired, active
  <1>11. n \in DOMAIN retired /\ versions' = [retired EXCEPT ![n] = active] /\ active \in Version
    BY <1>2, <1>3, <1>6, <1>8, <1>9 DEF active
  <1>12. versions' \in Seq(Version) /\ Len(versions') = Len(versions)
    BY <1>6, <1>11
  <1>13. versions'[n] = active /\ \A i \in DOMAIN versions \ {n} : versions'[i] = retired[i]
    BY <1>3, <1>6, <1>11
  <1>. QED
    BY <1>2, <1>10, <1>12, <1>13 DEF active

LEMMA ActivateKeeps ==
    ASSUME PromptInv, NEW m \in Manager, Activate(m)
    PROVE  PromptInv'
  <1> USE DEF PromptInv
  <1> DEFINE n == requests[m].number
  <1>1. /\ requests[m].asks = "ACTIVE" /\ Answered(m) /\ counter < ActivationLimit
        /\ counter' = counter + 1 /\ announced' = announced \cup {n} /\ UNCHANGED resolved
    BY DEF Activate
  <1>2. requests[m] # NoRequest /\ RequestOK(requests[m])
    BY <1>1 DEF NoRequest
  <1>3. /\ n \in DOMAIN versions
        /\ versions' \in Seq(Version) /\ Len(versions') = Len(versions)
        /\ versions'[n] = [versions[n] EXCEPT !.status = "ACTIVE"]
        /\ \A i \in DOMAIN versions \ {n} :
             versions'[i] = IF i \in Active THEN [versions[i] EXCEPT !.status = "RETIRED"]
                            ELSE versions[i]
    BY ActivateVersions
  <1>4. DOMAIN versions = 1..Len(versions) /\ DOMAIN versions' = DOMAIN versions
    BY <1>3 DEF PromptTypeOK
  <1>5. ASSUME NEW i \in DOMAIN versions
        PROVE  /\ VersionOK(versions'[i])
               /\ versions[i].submitted => versions'[i].submitted
               /\ versions[i].approved => versions'[i].approved
    <2>1. versions[i] \in Version /\ VersionOK(versions[i])
      BY <1>4 DEF PromptTypeOK
    <2>2. i = n => versions[i].approved
      BY <1>1, <1>2 DEF RequestOK
    <2>3. \/ versions'[i] = versions[i]
          \/ /\ versions'[i] = [versions[i] EXCEPT !.status = "RETIRED"]
             /\ versions[i].status = "ACTIVE"
          \/ i = n /\ versions'[i] = [versions[i] EXCEPT !.status = "ACTIVE"]
      BY <1>3 DEF Active
    <2>. QED
      BY <2>1, <2>2, <2>3 DEF VersionOK, Version
  <1>6. VersionsKept
    BY <1>3, <1>4, <1>5 DEF VersionsKept, PromptTypeOK
  <1>7. counter' \in 0..ActivationLimit /\ (counter > 0 => counter' > 0)
    BY <1>1, PromptAssumption DEF PromptTypeOK
  <1>8. announced' \subseteq 1..VersionLimit
    <2>1. n \in 1..VersionLimit
      BY <1>3, <1>4, PromptAssumption DEF PromptTypeOK
    <2>. QED
      BY <1>1, <2>1 DEF PromptTypeOK
  <1>. QED
    BY <1>1, <1>2, <1>6, <1>7, <1>8, AnswerKeeps

LEMMA PromptInitInv == PromptInit => PromptInv
  <1> SUFFICES ASSUME PromptInit PROVE PromptInv
    OBVIOUS
  <1>1. PromptTypeOK
    BY PromptAssumption DEF PromptInit, PromptTypeOK
  <1>. QED
    BY <1>1 DEF PromptInit, PromptInv, RequestOK

LEMMA PromptStepKeeps == PromptInv /\ [PromptNext]_promptVars => PromptInv'
  <1> SUFFICES ASSUME PromptInv, [PromptNext]_promptVars PROVE PromptInv'
    OBVIOUS
  <1>1. CASE CreateTemplate
    <2>1. /\ counter = 0 /\ counter' = 1
          /\ UNCHANGED <<versions, requests, announced, resolved>>
      BY <1>1 DEF CreateTemplate
    <2>2. \A m \in Manager : requests[m] = NoRequest
      BY <2>1 DEF PromptInv, RequestOK
    <2>. QED
      BY <2>1, <2>2, PromptAssumption DEF PromptInv, PromptTypeOK, RequestOK
  <1>2. CASE Resolve
    <2>1. PICK n \in Active : resolved' = resolved \cup {n}
      BY <1>2 DEF Resolve
    <2>2. UNCHANGED <<counter, versions, requests, announced>>
      BY <1>2 DEF Resolve
    <2>3. n \in DOMAIN versions /\ versions[n].approved
      BY DEF Active, PromptInv, VersionOK
    <2>4. n \in 1..VersionLimit
      BY <2>3, PromptAssumption DEF PromptInv, PromptTypeOK
    <2>. QED
      BY <2>1, <2>2, <2>3, <2>4 DEF PromptInv, PromptTypeOK, RequestOK
  <1>3. ASSUME NEW m \in Manager, ReadNextVersion(m)
        PROVE  PromptInv'
    <2>1. Len(versions) + 1 \in 1..VersionLimit
      BY <1>3, PromptAssumption DEF ReadNextVersion, PromptInv, PromptTypeOK
    <2>. QED
      BY <1>3, <2>1, BeginKeeps DEF ReadNextVersion, VersionStatus
  <1>4. ASSUME NEW m \in Manager, NEW asks \in {"TESTING", "APPROVED", "RETIRED", "ACTIVE"},
               NEW n \in 1..VersionLimit, ReadVersion(m, asks, n)
        PROVE  PromptInv'
    <2>1. /\ n \in DOMAIN versions /\ versions[n].status \in From(asks)
          /\ Begin(m, asks, n, versions[n].status)
          /\ UNCHANGED <<counter, versions, announced, resolved>>
      BY <1>4 DEF ReadVersion
    <2>2. VersionOK(versions[n]) /\ versions[n].status \in VersionStatus /\ counter > 0
      <3>1. versions[n] \in Version
        BY <2>1 DEF PromptInv, PromptTypeOK
      <3>2. counter # 0 /\ counter \in Nat
        BY <2>1 DEF PromptInv, PromptTypeOK
      <3>. QED
        BY <2>1, <3>1, <3>2 DEF PromptInv, Version
    <2>3. /\ asks = "APPROVED" => versions[n].submitted
          /\ asks \in {"RETIRED", "ACTIVE"} => versions[n].approved
      BY <2>1, <2>2 DEF From, VersionOK
    <2>. QED
      BY <2>1, <2>2, <2>3, BeginKeeps
  <1>5. ASSUME NEW m \in Manager, Refuse(m)
        PROVE  PromptInv'
    <2>1. VersionsKept
      BY <1>5 DEF Refuse, VersionsKept, PromptInv, PromptTypeOK
    <2>. QED
      BY <1>5, <2>1, AnswerKeeps DEF Refuse, PromptInv, PromptTypeOK
  <1>6. CASE UNCHANGED promptVars
    BY <1>6 DEF promptVars, PromptInv, PromptTypeOK, RequestOK
  <1>. QED
    BY <1>1, <1>2, <1>3, <1>4, <1>5, <1>6, InsertVersionKeeps, TransitionKeeps, ActivateKeeps
       DEF PromptNext

(* The life of the template within all services is that of the template alone.      *)
LEMMA ServicesPrompts == ServicesSpec => PromptInit /\ [][PromptNext]_promptVars
  <1>1. ServicesInit => PromptInit
    BY DEF ServicesInit
  <1>2. [ServicesNext]_servicesVars => [PromptNext]_promptVars
    BY DEF ServicesNext, servicesVars
  <1>. QED
    BY <1>1, <1>2, PTL DEF ServicesSpec

LEMMA PromptInvariant == ServicesSpec => []PromptInv
  BY ServicesPrompts, PromptInitInv, PromptStepKeeps, PTL

(* Whatever stale requests overwrite, no version is approved, active, retired or     *)
(* used by a task that was not submitted and approved (PromptService.transition,     *)
(* activate, rollback, resolve).                                               *)
THEOREM PromptsAreApproved == ServicesSpec => []OnlyApprovedRuns
  <1>1. PromptInv => OnlyApprovedRuns
    BY DEF PromptInv, VersionOK, OnlyApprovedRuns
  <1>. QED
    BY <1>1, PromptInvariant, PTL

(* An activation increments the template's version and leaves one version active;    *)
(* nothing else makes a version active (PromptService.activate and rollback).       *)
THEOREM ActivationsAreSerial == ServicesSpec => ActivationsSerialize
  <1> DEFINE Serial == IF counter' = counter
                       THEN Active' \subseteq Active
                       ELSE counter' = counter + 1
                            /\ (counter > 0 => \E n \in 1..VersionLimit : Active' = {n})
  <1>1. ASSUME PromptInv, [PromptNext]_promptVars
        PROVE  [Serial]_promptVars
    <2> USE DEF PromptInv
    <2>1. CASE CreateTemplate
      BY <2>1 DEF CreateTemplate
    <2>2. CASE UNCHANGED <<counter, versions>>
      BY <2>2 DEF Active
    <2>3. ASSUME NEW m \in Manager, InsertVersion(m)
          PROVE  Serial
      <3>1. \A n \in DOMAIN versions' :
              (n \in DOMAIN versions /\ versions'[n] = versions[n]) \/ versions'[n] = Draft
        BY <1>1, <2>3 DEF InsertVersion, PromptTypeOK, Draft, Version, VersionStatus
      <3>. QED
        BY <2>3, <3>1 DEF InsertVersion, Active, Draft
    <2>4. ASSUME NEW m \in Manager, Transition(m)
          PROVE  Serial
      <3>1. requests[m].number \in DOMAIN versions
        BY <1>1, <2>4 DEF Transition, NoRequest, RequestOK
      <3>2. versions[requests[m].number] \in Version
        BY <1>1, <3>1 DEF PromptTypeOK
      <3>3. Transitioned(versions[requests[m].number], requests[m].asks).status # "ACTIVE"
        BY <2>4, <3>2 DEF Transition, Transitioned, Version
      <3>. QED
        BY <2>4, <3>1, <3>3 DEF Transition, Active
    <2>5. ASSUME NEW m \in Manager, Activate(m)
          PROVE  Serial
      <3> DEFINE n == requests[m].number
      <3>1. /\ n \in DOMAIN versions /\ DOMAIN versions = 1..Len(versions)
            /\ DOMAIN versions' = DOMAIN versions
            /\ versions'[n] = [versions[n] EXCEPT !.status = "ACTIVE"]
            /\ \A i \in DOMAIN versions \ {n} :
                 versions'[i] = IF i \in Active THEN [versions[i] EXCEPT !.status = "RETIRED"]
                                ELSE versions[i]
        BY <1>1, <2>5, ActivateVersions DEF PromptTypeOK
      <3>2. n \in 1..VersionLimit
        BY <1>1, <3>1, PromptAssumption DEF PromptTypeOK
      <3>3. \A i \in DOMAIN versions : versions[i] \in Version
        BY <1>1 DEF PromptTypeOK
      <3>4. versions'[n].status = "ACTIVE"
        BY <3>1, <3>3 DEF Version
      <3>5. \A i \in DOMAIN versions \ {n} : versions'[i].status # "ACTIVE"
        BY <3>1, <3>3 DEF Version, Active
      <3>6. Active' = {n}
        BY <3>1, <3>4, <3>5 DEF Active
      <3>. QED
        <4>1. counter \in Nat /\ counter' = counter + 1
          BY <1>1, <2>5, PromptAssumption DEF Activate, PromptTypeOK
        <4> HIDE DEF n
        <4>. QED
          BY <3>2, <3>6, <4>1
    <2>6. ASSUME NEW m \in Manager,
                 \/ ReadNextVersion(m) \/ Refuse(m)
                 \/ \E asks \in {"TESTING", "APPROVED", "RETIRED", "ACTIVE"},
                       n \in 1..VersionLimit : ReadVersion(m, asks, n)
          PROVE  UNCHANGED <<counter, versions>>
      BY <2>6 DEF ReadNextVersion, Refuse, ReadVersion
    <2>7. CASE Resolve
      BY <2>2, <2>7 DEF Resolve
    <2>. QED
      BY <1>1, <2>1, <2>2, <2>3, <2>4, <2>5, <2>6, <2>7 DEF PromptNext
  <1>2. PromptInv /\ [PromptNext]_promptVars => [Serial]_promptVars
    BY <1>1
  <1>. QED
    BY <1>2, ServicesPrompts, PromptInvariant, PTL DEF ActivationsSerialize

-----------------------------------------------------------------------------
(* Alerts.                                                                  *)

AlertStatus == ActiveStatus \cup {"NONE", "RESOLVED"}

Reconciling == [pc : {"idle", "opening"}, seen : SUBSET Condition, todo : SUBSET Condition]

Writing == [pc : {"locked"}, row : Rows, read : AlertStatus, does : {"ACKNOWLEDGED", "RESOLVED"}]

AlertTypeOK ==
    /\ holds \subseteq Condition
    /\ alert \in [Rows -> AlertStatus]
    /\ hour \in 0..LastHour
    /\ recon \in [Reconciler -> Reconciling]
    /\ operator \in [Operator -> {NoRow} \cup Writing]

Locks(o) == operator[o].pc = "locked"

(* A reconciliation opens what it has seen; what an operator has read under the      *)
(* lock is what the row says, and nobody else has the lock.                       *)
AlertInv ==
    /\ AlertTypeOK
    /\ \A r \in Reconciler : recon[r].todo \subseteq recon[r].seen
    /\ \A o \in Operator : Locks(o) => alert[operator[o].row] = operator[o].read
    /\ \A o, p \in Operator : Locks(o) /\ Locks(p) /\ operator[o].row = operator[p].row => o = p

LEMMA LockTyped ==
    ASSUME AlertTypeOK, NEW o \in Operator, operator[o].pc # "idle"
    PROVE  operator[o] \in Writing /\ Locks(o)
  BY DEF AlertTypeOK, NoRow, Writing, Locks

(* A reconciliation goes on, having written no row an operator has locked.          *)
LEMMA ReconcilerMoves ==
    ASSUME AlertInv, NEW r \in Reconciler, NEW c \in Reconciling, c.todo \subseteq c.seen,
           recon' = [recon EXCEPT ![r] = c], alert' \in [Rows -> AlertStatus],
           \A a \in Locked : alert'[a] = alert[a], UNCHANGED <<holds, hour, operator>>
    PROVE  AlertInv'
  <1>1. AlertTypeOK'
    BY DEF AlertInv, AlertTypeOK
  <1>2. \A q \in Reconciler : recon'[q].todo \subseteq recon'[q].seen
    BY DEF AlertInv, AlertTypeOK
  <1>3. \A o \in Operator : Locks(o)' => alert'[operator'[o].row] = operator'[o].read
    BY DEF AlertInv, Locks, Locked
  <1>. QED
    BY <1>1, <1>2, <1>3 DEF AlertInv, Locks

LEMMA AlertsInitInv == AlertsInit => AlertInv
  <1> SUFFICES ASSUME AlertsInit PROVE AlertInv
    OBVIOUS
  <1>1. AlertTypeOK
    BY AlertsAssumption DEF AlertsInit, AlertTypeOK, AlertStatus, Reconciling, Resting
  <1>. QED
    BY <1>1 DEF AlertsInit, AlertInv, Locks, NoRow, Resting

LEMMA AlertsStepKeeps == AlertInv /\ [AlertsStep]_alertVars => AlertInv'
  <1> SUFFICES ASSUME AlertInv, [AlertsStep]_alertVars PROVE AlertInv'
    OBVIOUS
  <1>1. CASE ConditionChanges
    BY <1>1 DEF ConditionChanges, AlertInv, AlertTypeOK, Locks
  <1>2. CASE HourPasses
    BY <1>2, AlertsAssumption DEF HourPasses, AlertInv, AlertTypeOK, Locks
  <1>3. ASSUME NEW r \in Reconciler, ReadConditions(r)
        PROVE  AlertInv'
    <2>1. PICK seen \in SUBSET holds :
            recon' = [recon EXCEPT ![r] = [pc |-> "opening", seen |-> seen, todo |-> seen]]
      BY <1>3 DEF ReadConditions
    <2>2. [pc |-> "opening", seen |-> seen, todo |-> seen] \in Reconciling
      BY DEF AlertInv, AlertTypeOK, Reconciling
    <2>. QED
      BY <1>3, <2>1, <2>2, ReconcilerMoves DEF ReadConditions, AlertInv, AlertTypeOK
  <1>4. ASSUME NEW r \in Reconciler, OpenAlert(r)
        PROVE  AlertInv'
    <2>1. PICK c \in recon[r].todo :
            /\ <<c, hour>> \notin Locked
            /\ alert' = [alert EXCEPT ![<<c, hour>>] = "OPEN"]
            /\ recon' = [recon EXCEPT ![r].todo = @ \ {c}]
      BY <1>4 DEF OpenAlert
    <2> DEFINE d == [recon[r] EXCEPT !.todo = @ \ {c}]
    <2>2. recon[r] \in Reconciling /\ recon[r].todo \subseteq recon[r].seen
      BY DEF AlertInv, AlertTypeOK
    <2>3. d \in Reconciling /\ d.todo \subseteq d.seen
      BY <2>2 DEF Reconciling
    <2>4. recon' = [recon EXCEPT ![r] = d]
      BY <2>1
    <2>5. /\ alert' \in [Rows -> AlertStatus]
          /\ \A a \in Locked : alert'[a] = alert[a]
      <3>1. Locked \subseteq Rows
        BY LockTyped DEF Locked, Writing, AlertInv
      <3>. QED
        BY <2>1, <3>1 DEF AlertInv, AlertTypeOK, AlertStatus, ActiveStatus
    <2> HIDE DEF d
    <2>. QED
      BY <1>4, <2>3, <2>4, <2>5, ReconcilerMoves DEF OpenAlert
  <1>5. ASSUME NEW r \in Reconciler, ResolveCleared(r)
        PROVE  AlertInv'
    <2>1. /\ recon' = [recon EXCEPT ![r] = Resting] /\ UNCHANGED <<holds, hour, operator>>
          /\ alert' = [a \in Rows |->
                         IF /\ alert[a] \in ActiveStatus /\ a \notin Locked
                            /\ a[1] \notin recon[r].seen
                         THEN "RESOLVED" ELSE alert[a]]
      BY <1>5 DEF ResolveCleared
    <2>2. Resting \in Reconciling /\ Resting.todo \subseteq Resting.seen
      BY DEF Resting, Reconciling
    <2>3. Locked \subseteq Rows
      BY LockTyped DEF Locked, Writing, AlertInv
    <2>4. alert' \in [Rows -> AlertStatus] /\ \A a \in Locked : alert'[a] = alert[a]
      BY <2>1, <2>3 DEF AlertInv, AlertTypeOK, AlertStatus
    <2>. QED
      BY <2>1, <2>2, <2>4, ReconcilerMoves
  <1>6. ASSUME NEW r \in Reconciler, ReconcilerDies(r)
        PROVE  AlertInv'
    <2>1. Resting \in Reconciling /\ Resting.todo \subseteq Resting.seen
      BY DEF Resting, Reconciling
    <2>. QED
      BY <1>6, <2>1, ReconcilerMoves DEF ReconcilerDies, AlertInv, AlertTypeOK
  <1>7. ASSUME NEW o \in Operator, ReadAlert(o)
        PROVE  AlertInv'
    <2>1. PICK a \in Rows \ Locked, what \in {"ACKNOWLEDGED", "RESOLVED"} :
            operator' = [operator EXCEPT ![o] =
                           [pc |-> "locked", row |-> a, read |-> alert[a], does |-> what]]
      BY <1>7 DEF ReadAlert
    <2> DEFINE w == [pc |-> "locked", row |-> a, read |-> alert[a], does |-> what]
    <2>2. w \in Writing /\ w.row = a /\ w.read = alert[a] /\ w.pc = "locked"
      BY DEF Writing, AlertInv, AlertTypeOK
    <2> HIDE DEF w
    <2>3. operator' = [operator EXCEPT ![o] = w] /\ UNCHANGED <<holds, alert, hour, recon>>
      BY <1>7, <2>1 DEF ReadAlert, w
    <2>4. AlertTypeOK'
      BY <2>2, <2>3 DEF AlertInv, AlertTypeOK
    <2>5. operator'[o] = w /\ \A p \in Operator \ {o} : operator'[p] = operator[p]
      BY <2>3 DEF AlertInv, AlertTypeOK
    <2>6. \A p \in Operator : Locks(p) => operator[p].row # a
      BY DEF Locked, Locks
    <2>7. \A p, q \in Operator :
            Locks(p)' /\ Locks(q)' /\ operator'[p].row = operator'[q].row => p = q
      BY <2>2, <2>5, <2>6 DEF AlertInv, Locks
    <2>8. \A p \in Operator : Locks(p)' => alert'[operator'[p].row] = operator'[p].read
      BY <2>2, <2>3, <2>5 DEF AlertInv, Locks
    <2>. QED
      BY <2>3, <2>4, <2>7, <2>8 DEF AlertInv
  <1>8. ASSUME NEW o \in Operator, WriteAlert(o)
        PROVE  AlertInv'
    <2>1. operator[o] \in Writing /\ Locks(o)
      BY <1>8, LockTyped DEF WriteAlert, AlertInv
    <2>2. operator' = [operator EXCEPT ![o] = NoRow] /\ UNCHANGED <<holds, hour, recon>>
      BY <1>8 DEF WriteAlert
    <2>3. /\ alert' \in [Rows -> AlertStatus]
          /\ \A a \in Rows \ {operator[o].row} : alert'[a] = alert[a]
      BY <1>8, <2>1 DEF WriteAlert, Writing, AlertInv, AlertTypeOK, AlertStatus, ActiveStatus
    <2>4. AlertTypeOK'
      BY <2>2, <2>3 DEF AlertInv, AlertTypeOK
    <2>5. \A p \in Operator : Locks(p)' => /\ p # o /\ operator'[p] = operator[p] /\ Locks(p)
                                           /\ operator[p].row \in Rows \ {operator[o].row}
      <3>1. \A p \in Operator : Locks(p)' => p # o /\ operator'[p] = operator[p] /\ Locks(p)
        BY <2>2 DEF AlertInv, AlertTypeOK, NoRow, Locks
      <3>2. \A p \in Operator : Locks(p) => operator[p].row \in Rows
        BY LockTyped DEF AlertInv, Locks, Writing
      <3>. QED
        BY <2>1, <3>1, <3>2 DEF AlertInv
    <2>. QED
      BY <2>2, <2>3, <2>4, <2>5 DEF AlertInv
  <1>9. CASE UNCHANGED alertVars
    BY <1>9 DEF alertVars, AlertInv, AlertTypeOK, Locks
  <1>. QED
    BY <1>1, <1>2, <1>3, <1>4, <1>5, <1>6, <1>7, <1>8, <1>9 DEF AlertsStep

(* The life of the alerts within all services is that of the alerts alone.          *)
LEMMA ServicesAlerts == ServicesSpec => AlertsInit /\ [][AlertsStep]_alertVars
  <1>1. ServicesInit => AlertsInit
    BY DEF ServicesInit
  <1>2. [ServicesNext]_servicesVars => [AlertsStep]_alertVars
    BY DEF ServicesNext, servicesVars
  <1>. QED
    BY <1>1, <1>2, PTL DEF ServicesSpec

LEMMA AlertInvariant == ServicesSpec => []AlertInv
  BY ServicesAlerts, AlertsInitInv, AlertsStepKeeps, PTL

(* Only a reconciliation that has seen the condition hold reopens what is resolved;    *)
(* an operator's acknowledgement never does (AlertService.open, acknowledge).        *)
THEOREM AlertsReopenOnEvidence == ServicesSpec => ResolvedComesBackOpen
  <1> DEFINE Evident ==
        \A a \in Rows :
          alert[a] = "RESOLVED" /\ alert'[a] # "RESOLVED"
          => /\ alert'[a] = "OPEN" /\ a[2] = hour
             /\ \E r \in Reconciler : a[1] \in recon[r].seen
  <1>1. ASSUME AlertInv, [AlertsStep]_alertVars
        PROVE  [Evident]_alertVars
    <2>1. CASE UNCHANGED alert
      BY <2>1
    <2>2. ASSUME NEW r \in Reconciler, OpenAlert(r)
          PROVE  Evident
      <3>1. PICK c \in recon[r].todo : alert' = [alert EXCEPT ![<<c, hour>>] = "OPEN"]
        BY <2>2 DEF OpenAlert
      <3>2. c \in recon[r].seen
        BY <1>1, <3>1 DEF AlertInv
      <3>3. \A a \in Rows : alert'[a] # alert[a] => a = <<c, hour>> /\ alert'[a] = "OPEN"
        BY <1>1, <3>1 DEF AlertInv, AlertTypeOK
      <3>. QED
        BY <3>2, <3>3
    <2>3. ASSUME NEW r \in Reconciler, ResolveCleared(r)
          PROVE  Evident
      BY <2>3 DEF ResolveCleared
    <2>4. ASSUME NEW o \in Operator, WriteAlert(o)
          PROVE  Evident
      <3>1. operator[o] \in Writing /\ Locks(o)
        BY <1>1, <2>4, LockTyped DEF WriteAlert, AlertInv
      <3>2. alert[operator[o].row] = operator[o].read
        BY <1>1, <3>1 DEF AlertInv
      <3>3. \/ UNCHANGED alert
            \/ /\ operator[o].read # "RESOLVED"
               /\ alert' = [alert EXCEPT ![operator[o].row] = operator[o].does]
        BY <2>4 DEF WriteAlert
      <3>. QED
        BY <1>1, <3>2, <3>3 DEF AlertInv, AlertTypeOK
    <2>5. ASSUME \/ ConditionChanges \/ HourPasses
                 \/ \E r \in Reconciler : ReadConditions(r) \/ ReconcilerDies(r)
                 \/ \E o \in Operator : ReadAlert(o)
          PROVE  UNCHANGED alert
      BY <2>5 DEF ConditionChanges, HourPasses, ReadConditions, ReconcilerDies, ReadAlert
    <2>. QED
      BY <1>1, <2>1, <2>2, <2>3, <2>4, <2>5 DEF AlertsStep
  <1>2. AlertInv /\ [AlertsStep]_alertVars => [Evident]_alertVars
    BY <1>1
  <1>. QED
    BY <1>2, ServicesAlerts, AlertInvariant, PTL DEF ResolvedComesBackOpen

-----------------------------------------------------------------------------
(* Calls of a provider.                                                       *)

(* What was kept of the first n fallbacks.                                        *)
KeptUpTo(f, p, fallback) ==
    f = [n \in 0..Len(fallback) |->
            IF n = 0 THEN <<p>>
            ELSE IF fallback[n] = p THEN f[n - 1] ELSE Append(f[n - 1], fallback[n])]

LEMMA CandidatesDef ==
    ASSUME NEW p \in Provider, NEW fallback \in Seq(Provider)
    PROVE  \E f : /\ Candidates(p, fallback) = f[Len(fallback)]
                  /\ f[0] = <<p>>
                  /\ \A n \in 1..Len(fallback) :
                        f[n] = IF fallback[n] = p THEN f[n - 1] ELSE Append(f[n - 1], fallback[n])
  <1> DEFINE A == Seq(Provider)
             N == Len(fallback)
             G == [x \in A \X (1..N) |->
                      IF fallback[x[2]] = p THEN x[1] ELSE Append(x[1], fallback[x[2]])]
             f == CHOOSE f : KeptUpTo(f, p, fallback)
  <1>1. N \in Nat /\ <<p>> \in A
    OBVIOUS
  <1>2. G \in [A \X (1..N) -> A]
    OBVIOUS
  <1>3. \A s \in A, n \in 1..N :
            G[<<s, n>>] = IF fallback[n] = p THEN s ELSE Append(s, fallback[n])
    OBVIOUS
  <1>4. \E g : KeptUpTo(g, p, fallback)
    <2> HIDE DEF A, N, G
    <2>1. PICK g \in [0..N -> A] : RecursesUpTo(g, <<p>>, G, N)
      BY <1>1, <1>2, RecursionUpTo, Zenon
    <2>2. \A m \in 0..N : g[m] = IF m = 0 THEN <<p>> ELSE G[<<g[m - 1], m>>]
      BY <2>1 DEF RecursesUpTo
    <2>3. ASSUME NEW m \in 0..N
          PROVE  g[m] = IF m = 0 THEN <<p>>
                        ELSE IF fallback[m] = p THEN g[m - 1] ELSE Append(g[m - 1], fallback[m])
      <3>1. CASE m = 0
        BY <2>2, <3>1
      <3>2. CASE m # 0
        <4>1. m \in 1..N /\ m - 1 \in 0..N
          BY <1>1, <3>2
        <4>2. g[m - 1] \in A
          BY <4>1
        <4>3. g[m] = G[<<g[m - 1], m>>]
          BY <2>2, <3>2
        <4>. QED
          BY <1>3, <3>2, <4>1, <4>2, <4>3
      <3>. QED
        BY <3>1, <3>2
    <2>4. g = [m \in 0..N |-> g[m]]
      OBVIOUS
    <2>5. KeptUpTo(g, p, fallback)
      BY <2>3, <2>4 DEF KeptUpTo, N
    <2>. QED
      BY <2>5, Zenon
  <1>5. Candidates(p, fallback) = f[Len(fallback)]
    BY Zenon DEF Candidates, KeptUpTo
  <1>6. KeptUpTo(f, p, fallback)
    BY <1>4, Zenon
  <1>. HIDE DEF f
  <1>7. \A n \in 0..Len(fallback) :
            f[n] = IF n = 0 THEN <<p>>
                   ELSE IF fallback[n] = p THEN f[n - 1] ELSE Append(f[n - 1], fallback[n])
    BY <1>6 DEF KeptUpTo
  <1>8. f[0] = <<p>>
    BY <1>1, <1>7
  <1>9. \A n \in 1..Len(fallback) :
            f[n] = IF fallback[n] = p THEN f[n - 1] ELSE Append(f[n - 1], fallback[n])
    BY <1>1, <1>7
  <1>. QED
    BY <1>5, <1>8, <1>9, Zenon

(* The provider asked for is the first candidate and no other one.                   *)
LEMMA CandidatesDiffer ==
    ASSUME NEW p \in Provider, NEW fallback \in Seq(Provider)
    PROVE  Candidates(p, fallback) \in Seq(Provider) /\ FirstOnce(Candidates(p, fallback))
  <1>1. PICK f : /\ Candidates(p, fallback) = f[Len(fallback)]
                 /\ f[0] = <<p>>
                 /\ \A n \in 1..Len(fallback) :
                       f[n] = IF fallback[n] = p THEN f[n - 1] ELSE Append(f[n - 1], fallback[n])
    BY CandidatesDef
  <1> DEFINE Kept(n) ==
        /\ f[n] \in Seq(Provider) /\ Len(f[n]) >= 1 /\ f[n][1] = p
        /\ \A i \in 2..Len(f[n]) : f[n][i] # p
      S == {n \in 0..Len(fallback) : Kept(n)}
  <1>2. 0 \in S
    <2>1. f[0] = <<p>> /\ <<p>> \in Seq(Provider) /\ Len(<<p>>) = 1 /\ <<p>>[1] = p
      BY <1>1
    <2>2. 0 \in 0..Len(fallback)
      OBVIOUS
    <2>3. Kept(0)
      BY <2>1
    <2>. QED
      BY <2>2, <2>3
  <1>3. ASSUME NEW n \in 0..(Len(fallback) - 1), n \in S
        PROVE  n + 1 \in S
    <2>0. n + 1 \in 1..Len(fallback) /\ (n + 1) - 1 = n /\ fallback[n + 1] \in Provider
      OBVIOUS
    <2>1. Kept(n)
      BY <1>3
    <2>2. CASE fallback[n + 1] = p
      <3>1. f[n + 1] = f[n]
        BY <1>1, <2>0, <2>2
      <3>. QED
        BY <2>0, <2>1, <3>1
    <2>3. CASE fallback[n + 1] # p
      <3>1. f[n + 1] = Append(f[n], fallback[n + 1])
        BY <1>1, <2>0, <2>3
      <3>2. /\ f[n + 1] \in Seq(Provider) /\ Len(f[n + 1]) = Len(f[n]) + 1
            /\ f[n + 1][Len(f[n]) + 1] = fallback[n + 1]
            /\ \A i \in 1..Len(f[n]) : f[n + 1][i] = f[n][i]
        BY <2>0, <2>1, <3>1
      <3>3. ASSUME NEW i \in 2..Len(f[n + 1]) PROVE f[n + 1][i] # p
        <4>1. i = Len(f[n]) + 1 \/ i \in 2..Len(f[n])
          BY <2>1, <3>2
        <4>2. CASE i = Len(f[n]) + 1
          BY <2>3, <3>2, <4>2, Zenon
        <4>3. CASE i \in 2..Len(f[n])
          <5>1. i \in 1..Len(f[n]) /\ f[n][i] # p
            BY <2>1, <4>3
          <5>. QED
            BY <3>2, <5>1, Zenon
        <4>. QED
          BY <4>1, <4>2, <4>3, Zenon
      <3>4. Len(f[n + 1]) >= 1 /\ f[n + 1][1] = p
        BY <2>1, <3>2
      <3>. QED
        BY <2>0, <3>2, <3>3, <3>4
    <2>. QED
      BY <2>2, <2>3
  <1>4. 0..Len(fallback) \subseteq S
    <2> HIDE DEF S
    <2>1. Len(fallback) \in Nat
      OBVIOUS
    <2>2. \A n \in 0..(Len(fallback) - 1) : n \in S => n + 1 \in S
      BY <1>3, Zenon
    <2>. QED
      BY <1>2, <2>1, <2>2, InductionUpTo, Zenon
  <1>5. Kept(Len(fallback))
    BY <1>4
  <1>. QED
    BY <1>1, <1>5 DEF FirstOnce

LEMMA ChainDiffers ==
    ASSUME NEW p \in Provider, NEW fallback \in Fallbacks
    PROVE  Chain(p, fallback) \in Seq(Provider) /\ FirstOnce(Chain(p, fallback))
  <1> DEFINE c == Candidates(p, fallback)
  <1>1. c \in Seq(Provider) /\ FirstOnce(c)
    BY ProviderAssumption, CandidatesDiffer
  <1>. HIDE DEF c
  <1> DEFINE n == IF Len(c) > 4 THEN 4 ELSE Len(c)
  <1>2. n \in 0..Len(c)
    BY <1>1
  <1>3. Chain(p, fallback) = SubSeq(c, 1, n)
    BY DEF Chain, FirstFour, c
  <1>. HIDE DEF n
  <1>4. /\ SubSeq(c, 1, n) \in Seq(Provider) /\ Len(SubSeq(c, 1, n)) = n
        /\ \A i \in 1..n : SubSeq(c, 1, n)[i] = c[i]
    BY <1>1, <1>2
  <1>. QED
    BY <1>1, <1>2, <1>3, <1>4 DEF FirstOnce

(* The delay doubles, up to the maximum.                                          *)
LEMMA BackoffDef ==
    \A n \in 1..MaxAttempts : Backoff[n] \in Nat /\ (n > 1 => Backoff[n] = 2 * Backoff[n - 1])
  <1> DEFINE N == MaxAttempts - 1
             G == [x \in Nat \X (1..N) |-> 2 * x[1]]
             Doubles(f) == f = [n \in 1..MaxAttempts |-> IF n = 1 THEN BaseDelay ELSE 2 * f[n - 1]]
  <1>1. N \in Nat /\ BaseDelay \in Nat /\ MaxAttempts \in Nat
    BY ProviderAssumption
  <1>2. G \in [Nat \X (1..N) -> Nat] /\ \A d \in Nat, m \in 1..N : G[<<d, m>>] = 2 * d
    OBVIOUS
  <1>3. \E f \in [1..MaxAttempts -> Nat] : Doubles(f)
    <2> HIDE DEF G
    <2>1. PICK g \in [0..N -> Nat] : RecursesUpTo(g, BaseDelay, G, N)
      <3> HIDE DEF N
      <3>. QED
        BY <1>1, <1>2, RecursionUpTo, Zenon
    <2>2. \A m \in 0..N : g[m] = IF m = 0 THEN BaseDelay ELSE G[<<g[m - 1], m>>]
      BY <2>1 DEF RecursesUpTo
    <2> DEFINE f == [n \in 1..MaxAttempts |-> g[n - 1]]
    <2>3. \A n \in 1..MaxAttempts : n - 1 \in 0..N /\ f[n] = g[n - 1] /\ f[n] \in Nat
      BY <1>1
    <2>4. f \in [1..MaxAttempts -> Nat]
      BY <2>3
    <2>5. ASSUME NEW n \in 1..MaxAttempts
          PROVE  f[n] = IF n = 1 THEN BaseDelay ELSE 2 * f[n - 1]
      <3> HIDE DEF f
      <3>1. CASE n = 1
        <4>1. g[0] = BaseDelay
          <5>1. 0 \in 0..N
            BY <1>1
          <5> HIDE DEF N
          <5>. QED
            BY <2>2, <5>1
        <4>2. n - 1 = 0
          BY <3>1
        <4>. QED
          BY <2>3, <3>1, <4>1, <4>2
      <3>2. CASE n # 1
        <4>1. n - 1 \in 1..N /\ n - 1 \in 1..MaxAttempts
          BY <1>1, <3>2
        <4>2. f[n] = G[<<g[(n - 1) - 1], n - 1>>]
          BY <2>2, <2>3, <4>1
        <4>3. f[n - 1] = g[(n - 1) - 1] /\ f[n - 1] \in Nat
          BY <2>3, <4>1
        <4>4. G[<<f[n - 1], n - 1>>] = 2 * f[n - 1]
          <5> HIDE DEF N
          <5>. QED
            BY <1>2, <4>1, <4>3, Zenon
        <4>. QED
          BY <3>2, <4>2, <4>3, <4>4
      <3>. QED
        BY <3>1, <3>2
    <2>6. Doubles(f)
      <3>1. f = [n \in 1..MaxAttempts |-> f[n]]
        OBVIOUS
      <3> HIDE DEF f
      <3>. QED
        BY <2>5, <3>1
    <2> HIDE DEF f, Doubles
    <2>. QED
      BY <2>4, <2>6
  <1>4. Backoff = CHOOSE f : Doubles(f)
    BY Zenon DEF Backoff
  <1>5. Doubles(Backoff)
    <2> HIDE DEF Doubles
    <2>. QED
      BY <1>3, <1>4, Zenon
  <1>6. \A n \in 1..MaxAttempts : Backoff[n] = IF n = 1 THEN BaseDelay ELSE 2 * Backoff[n - 1]
    BY <1>5
  <1> HIDE DEF Doubles, G
  <1> DEFINE S == {n \in 0..N : Backoff[n + 1] \in Nat}
  <1>7. 0 \in S
    BY <1>1, <1>6
  <1>8. \A n \in 0..(N - 1) : n \in S => n + 1 \in S
    <2> SUFFICES ASSUME NEW n \in 0..(N - 1), Backoff[n + 1] \in Nat
                 PROVE  Backoff[(n + 1) + 1] \in Nat
      BY <1>1
    <2>1. (n + 1) + 1 \in 1..MaxAttempts /\ (n + 1) + 1 # 1 /\ ((n + 1) + 1) - 1 = n + 1
      BY <1>1
    <2>2. Backoff[(n + 1) + 1] = 2 * Backoff[n + 1]
      BY <1>6, <2>1
    <2>. QED
      BY <2>2
  <1>9. 0..N \subseteq S
    <2> HIDE DEF S, N
    <2>. QED
      BY <1>1, <1>7, <1>8, InductionUpTo, Zenon
  <1>10. ASSUME NEW n \in 1..MaxAttempts
         PROVE  Backoff[n] \in Nat
    <2>1. n - 1 \in 0..N /\ (n - 1) + 1 = n
      BY <1>1
    <2>. QED
      BY <1>9, <2>1
  <1>. QED
    BY <1>6, <1>10

(* A later attempt waits as long or longer, and never longer than the maximum.        *)
LEMMA RetryDelayGrows ==
    /\ \A n \in 1..MaxAttempts : RetryDelay(n) \in Nat /\ RetryDelay(n) <= MaxDelay
    /\ \A n \in 1..MaxAttempts : n > 1 => RetryDelay(n - 1) <= RetryDelay(n)
  <1>1. MaxDelay \in Nat /\ MaxAttempts \in Nat
    BY ProviderAssumption
  <1>2. ASSUME NEW n \in 1..MaxAttempts
        PROVE  RetryDelay(n) \in Nat /\ RetryDelay(n) <= MaxDelay
    BY <1>1, BackoffDef DEF RetryDelay
  <1>3. ASSUME NEW n \in 1..MaxAttempts, n > 1
        PROVE  RetryDelay(n - 1) <= RetryDelay(n)
    <2>1. n - 1 \in 1..MaxAttempts
      BY <1>1, <1>3
    <2>2. Backoff[n - 1] \in Nat /\ Backoff[n] = 2 * Backoff[n - 1]
      BY <1>3, <2>1, BackoffDef
    <2>. QED
      BY <1>1, <2>2 DEF RetryDelay
  <1>. QED
    BY <1>2, <1>3

CallTypeOK ==
    /\ chain \in Seq(Provider) /\ FirstOnce(chain)
    /\ tried \in Seq(Error \cup {"OK"}) /\ Len(tried) <= Len(chain)
    /\ attempt \in 1..MaxAttempts
    /\ delays \in Seq(Nat) /\ Len(delays) = attempt - 1
    /\ \A i \in 1..Len(delays) : delays[i] = RetryDelay(i)

(* What ended the call is what the last candidate asked answered.                   *)
OutcomeTrue ==
    \/ outcome = Pending
    \/ /\ Len(tried) > 0 /\ tried[Len(tried)] = "OK"
       /\ outcome = [kind |-> "result", provider |-> chain[Len(tried)],
                     fallbackFrom |-> IF Len(tried) > 1 THEN chain[1] ELSE "none"]
    \/ /\ Len(tried) < Len(chain) /\ chain[Len(tried) + 1] \notin configured
       /\ outcome = [kind |-> "error", error |-> "CAPABILITY"]
    \/ /\ Len(tried) > 0 /\ tried[Len(tried)] \in Error \ {"CAPABILITY"}
       /\ outcome = [kind |-> "error", error |-> tried[Len(tried)]]
       /\ tried[Len(tried)] \in Transient => Len(tried) = Len(chain)

CallsInv ==
    /\ CallTypeOK
    /\ OutcomeTrue
    /\ \A i \in 1..Len(tried) : tried[i] \notin Transient => i = Len(tried) /\ Ended

(* No answer from the wire is taken for a provider that is not configured.          *)
LEMMA ErrorOfTyped ==
    \A p, wire : wire \in Wire \ {"ok"} => ErrorOf(p, wire) \in Error \ {"CAPABILITY"}
  BY DEF ErrorOf, HttpError, SdkError, RefusalError, Wire, Refusal, Error

LEMMA CallsInvInit == ServicesInit => CallsInv
  <1> SUFFICES ASSUME ServicesInit PROVE CallsInv
    OBVIOUS
  <1>1. /\ tried = <<>> /\ outcome = Pending /\ attempt = 1 /\ delays = <<>>
        /\ chain = <<>> \/ \E p \in Provider, f \in Fallbacks : chain = Chain(p, f)
    BY DEF ServicesInit, CallsInit, CallsIdle
  <1>2. chain \in Seq(Provider) /\ FirstOnce(chain)
    <2>1. CASE chain = <<>>
      <3>1. <<>> \in Seq(Provider) /\ FirstOnce(<<>>)
        BY DEF FirstOnce
      <3>. QED
        BY <2>1, <3>1
    <2>2. CASE \E p \in Provider, f \in Fallbacks : chain = Chain(p, f)
      BY <2>2, ChainDiffers
    <2>. QED
      BY <1>1, <2>1, <2>2
  <1>3. attempt \in 1..MaxAttempts
    BY <1>1, ProviderAssumption
  <1>. QED
    BY <1>1, <1>2, <1>3 DEF CallsInv, CallTypeOK, OutcomeTrue

(* A candidate has answered: what was there before keeps its place.                   *)
LEMMA AnswerAdded ==
    ASSUME CallsInv, NEW e \in Error \cup {"OK"}, Answers(e)
    PROVE  /\ CallTypeOK'
           /\ UNCHANGED chain /\ Len(tried') = Len(tried) + 1 /\ tried'[Len(tried) + 1] = e
           /\ Len(tried) \in Nat /\ Len(tried) < Len(chain)
           /\ \A i \in 1..Len(tried) : tried'[i] = tried[i] /\ tried[i] \in Transient
           /\ outcome = Pending
  <1>1. /\ outcome = Pending /\ Len(tried) < Len(chain) /\ tried' = Append(tried, e)
        /\ UNCHANGED <<configured, chain, attempt, delays>>
    BY DEF Answers
  <1>2. /\ tried \in Seq(Error \cup {"OK"}) /\ chain \in Seq(Provider) /\ FirstOnce(chain)
        /\ Len(tried) \in Nat /\ Len(chain) \in Nat
    BY DEF CallsInv, CallTypeOK
  <1>3. /\ tried' \in Seq(Error \cup {"OK"}) /\ Len(tried') = Len(tried) + 1
        /\ tried'[Len(tried) + 1] = e /\ \A i \in 1..Len(tried) : tried'[i] = tried[i]
    BY <1>1, <1>2
  <1>4. \A i \in 1..Len(tried) : tried[i] \in Transient
    BY <1>1 DEF CallsInv, Ended
  <1>5. CallTypeOK'
    <2>1. /\ attempt \in 1..MaxAttempts /\ delays \in Seq(Nat) /\ Len(delays) = attempt - 1
          /\ \A i \in 1..Len(delays) : delays[i] = RetryDelay(i)
      BY DEF CallsInv, CallTypeOK
    <2>2. /\ delays' = delays /\ attempt' = attempt /\ chain' = chain /\ Len(tried') <= Len(chain')
      BY <1>1, <1>2, <1>3
    <2>. QED
      BY <1>2, <1>3, <2>1, <2>2 DEF CallTypeOK
  <1>. QED
    BY <1>1, <1>2, <1>3, <1>4, <1>5

LEMMA SucceedsKeeps ==
    ASSUME CallsInv, Succeeds
    PROVE  CallsInv'
  <1>1. Answers("OK")
    BY DEF Succeeds
  <1>2. /\ CallTypeOK'
        /\ chain' = chain /\ Len(tried') = Len(tried) + 1 /\ tried'[Len(tried) + 1] = "OK"
        /\ Len(tried) \in Nat /\ Len(tried) < Len(chain)
        /\ \A i \in 1..Len(tried) : tried'[i] = tried[i] /\ tried[i] \in Transient
    BY <1>1, AnswerAdded
  <1>3. outcome' = [kind |-> "result", provider |-> chain[Len(tried) + 1],
                    fallbackFrom |-> IF Len(tried) > 0 THEN chain[1] ELSE "none"]
    BY DEF Succeeds, Candidate
  <1>4. OutcomeTrue'
    <2>1. outcome' = [kind |-> "result", provider |-> chain'[Len(tried')],
                      fallbackFrom |-> IF Len(tried') > 1 THEN chain'[1] ELSE "none"]
      BY <1>2, <1>3
    <2>2. Len(tried') > 0 /\ tried'[Len(tried')] = "OK"
      BY <1>2
    <2>. QED
      BY <2>1, <2>2 DEF OutcomeTrue
  <1>5. Ended'
    BY <1>3 DEF Ended, Pending
  <1>. QED
    BY <1>2, <1>4, <1>5 DEF CallsInv

LEMMA FailingKeeps ==
    ASSUME CallsInv, NEW e \in Error \ {"CAPABILITY"}, Failing(e)
    PROVE  CallsInv'
  <1>1. Answers(e)
    BY DEF Failing
  <1>2. /\ CallTypeOK' /\ outcome = Pending
        /\ chain' = chain /\ Len(tried') = Len(tried) + 1 /\ tried'[Len(tried) + 1] = e
        /\ Len(tried) \in Nat /\ Len(tried) < Len(chain)
        /\ \A i \in 1..Len(tried) : tried'[i] = tried[i] /\ tried[i] \in Transient
    BY <1>1, AnswerAdded
  <1>3. Len(chain) \in Nat
    BY DEF CallsInv, CallTypeOK
  <1>4. CASE e \in Transient /\ Len(tried) + 1 < Len(chain)
    <2>1. outcome' = Pending
      BY <1>2, <1>4 DEF Failing
    <2>2. \A i \in 1..Len(tried') : tried'[i] \in Transient
      BY <1>2, <1>4
    <2>. QED
      BY <1>2, <2>1, <2>2 DEF CallsInv, OutcomeTrue
  <1>5. CASE ~(e \in Transient /\ Len(tried) + 1 < Len(chain))
    <2>1. outcome' = [kind |-> "error", error |-> e]
      BY <1>5 DEF Failing, Fails
    <2>2. /\ Len(tried') > 0 /\ tried'[Len(tried')] = e
          /\ e \in Transient => Len(tried') = Len(chain')
      BY <1>2, <1>3, <1>5
    <2>3. OutcomeTrue'
      BY <2>1, <2>2 DEF OutcomeTrue
    <2>4. Ended'
      BY <2>1 DEF Ended, Pending
    <2>5. \A i \in 1..Len(tried') : tried'[i] \notin Transient => i = Len(tried') /\ Ended'
      BY <1>2, <2>4
    <2>. QED
      BY <1>2, <2>3, <2>5 DEF CallsInv
  <1>. QED
    BY <1>4, <1>5

LEMMA CallsInvNext == CallsInv /\ [ServicesNext]_servicesVars => CallsInv'
  <1> SUFFICES ASSUME CallsInv, [ServicesNext]_servicesVars
               PROVE  CallsInv'
    OBVIOUS
  <1>1. CASE UNCHANGED callVars
    <2>1. UNCHANGED <<configured, chain, tried, outcome, attempt, delays>>
      BY <1>1 DEF callVars
    <2>. QED
      BY <2>1 DEF CallsInv, CallTypeOK, OutcomeTrue, Ended
  <1>2. CASE NotConfigured
    <2>1. /\ outcome = Pending /\ Len(tried) < Len(chain) /\ chain[Len(tried) + 1] \notin configured
          /\ outcome' = [kind |-> "error", error |-> "CAPABILITY"]
          /\ UNCHANGED <<configured, chain, tried, attempt, delays>>
      BY <1>2 DEF NotConfigured, Candidate, Fails
    <2>2. CallTypeOK'
      BY <2>1 DEF CallsInv, CallTypeOK
    <2>3. OutcomeTrue'
      BY <2>1 DEF OutcomeTrue
    <2>4. \A i \in 1..Len(tried) : tried[i] \in Transient
      BY <2>1 DEF CallsInv, Ended
    <2>. QED
      BY <2>1, <2>2, <2>3, <2>4 DEF CallsInv
  <1>3. CASE CandidateAnswers
    <2>1. ASSUME NEW wire \in Wire, wire # "ok", Failing(ErrorOf(Candidate, wire))
          PROVE  CallsInv'
      <3>1. ErrorOf(Candidate, wire) \in Error \ {"CAPABILITY"}
        BY <2>1, ErrorOfTyped
      <3>. QED
        BY <2>1, <3>1, FailingKeeps
    <2>2. "RATE_LIMITED" \in Error \ {"CAPABILITY"}
      BY DEF Error
    <2>. QED
      BY <1>3, <2>1, <2>2, FailingKeeps, SucceedsKeeps DEF CandidateAnswers
  <1>4. CASE JobRetries
    <2>1. /\ attempt < MaxAttempts /\ attempt' = attempt + 1
          /\ delays' = Append(delays, RetryDelay(attempt))
          /\ tried' = <<>> /\ outcome' = Pending /\ UNCHANGED <<configured, chain>>
      BY <1>4 DEF JobRetries
    <2>2. /\ chain \in Seq(Provider) /\ FirstOnce(chain) /\ attempt \in 1..MaxAttempts
          /\ delays \in Seq(Nat) /\ Len(delays) = attempt - 1
          /\ \A i \in 1..Len(delays) : delays[i] = RetryDelay(i)
      BY DEF CallsInv, CallTypeOK
    <2>3. RetryDelay(attempt) \in Nat
      BY <2>2, RetryDelayGrows
    <2>4. /\ delays' \in Seq(Nat) /\ Len(delays') = attempt' - 1
          /\ \A i \in 1..Len(delays') : delays'[i] = RetryDelay(i)
      <3>1. /\ delays' \in Seq(Nat) /\ Len(delays') = Len(delays) + 1
            /\ delays'[Len(delays) + 1] = RetryDelay(attempt)
            /\ \A i \in 1..Len(delays) : delays'[i] = delays[i]
        BY <2>1, <2>2, <2>3
      <3>2. Len(delays) \in Nat /\ Len(delays) + 1 = attempt
        BY <2>2
      <3>3. ASSUME NEW i \in 1..Len(delays')
            PROVE  delays'[i] = RetryDelay(i)
        <4>1. CASE i = attempt
          BY <3>1, <3>2, <4>1
        <4>2. CASE i \in 1..Len(delays)
          BY <2>2, <3>1, <4>2
        <4>. QED
          BY <3>1, <3>2, <4>1, <4>2
      <3>. QED
        BY <2>1, <2>2, <3>1, <3>2, <3>3
    <2>5. attempt' \in 1..MaxAttempts
      BY <2>1, <2>2, ProviderAssumption
    <2>6. /\ tried' \in Seq(Error \cup {"OK"}) /\ Len(tried') = 0 /\ Len(chain) \in Nat
      BY <2>1, <2>2
    <2>7. CallTypeOK'
      BY <2>1, <2>2, <2>4, <2>5, <2>6 DEF CallTypeOK
    <2>. QED
      BY <2>1, <2>6, <2>7 DEF CallsInv, OutcomeTrue
  <1>. QED
    BY <1>1, <1>2, <1>3, <1>4 DEF ServicesNext, servicesVars, CallsStep

(* Whatever the providers answer, in every attempt they are asked one after the other,   *)
(* the one asked for not again, the answer is that of the last one, and the job waits      *)
(* longer from attempt to attempt, up to the maximum (ProviderRouter.complete_structured,  *)
(* retry_delay_seconds).                                                        *)
THEOREM CallsRouted == ServicesSpec => []CallsAreRouted
  <1>1. ASSUME CallsInv PROVE CallsAreRouted
    <2>1. /\ chain \in Seq(Provider) /\ FirstOnce(chain) /\ Len(tried) \in Nat /\ Len(chain) \in Nat
          /\ Len(tried) <= Len(chain) /\ Len(delays) = attempt - 1 /\ attempt \in 1..MaxAttempts
          /\ \A i \in 1..Len(delays) : delays[i] = RetryDelay(i)
      BY <1>1 DEF CallsInv, CallTypeOK
    <2>2. ASSUME outcome.kind = "result"
          PROVE  /\ tried[Len(tried)] = "OK" /\ outcome.provider = chain[Len(tried)]
                 /\ (outcome.fallbackFrom = "none") = (outcome.provider = chain[1])
      <3>1. /\ Len(tried) > 0 /\ tried[Len(tried)] = "OK"
            /\ outcome.provider = chain[Len(tried)]
            /\ outcome.fallbackFrom = IF Len(tried) > 1 THEN chain[1] ELSE "none"
        BY <1>1, <2>2 DEF CallsInv, OutcomeTrue, Pending
      <3>2. 1 \in DOMAIN chain /\ Len(tried) \in DOMAIN chain /\ chain[1] # "none"
        BY <2>1, <3>1, ProviderAssumption
      <3>3. chain[Len(tried)] = chain[1] <=> Len(tried) = 1
        <4>1. Len(tried) > 0 /\ Len(tried) \in Nat /\ Len(chain) \in Nat /\ Len(tried) <= Len(chain)
          BY <2>1, <3>1, Zenon
        <4>2. Len(tried) = 1 \/ Len(tried) \in 2..Len(chain)
          <5> DEFINE n == Len(tried)
                     N == Len(chain)
          <5>1. n > 0 /\ n \in Nat /\ N \in Nat /\ n <= N
            BY <4>1
          <5>2. n = 1 \/ n \in 2..N
            <6> HIDE DEF n, N
            <6>. QED
              BY <5>1
          <5>. QED
            BY <5>2
        <4>3. CASE Len(tried) = 1
          BY <4>3, Zenon
        <4>4. CASE Len(tried) \in 2..Len(chain)
          <5>1. chain[Len(tried)] # chain[1]
            BY <2>1, <4>4, Zenon DEF FirstOnce
          <5>2. Len(tried) # 1
            BY <4>1, <4>4
          <5>. QED
            BY <5>1, <5>2, Zenon
        <4>. QED
          BY <4>2, <4>3, <4>4, Zenon
      <3>. QED
        BY <2>1, <3>1, <3>2, <3>3
    <2>3. ASSUME outcome.kind = "error"
          PROVE  IF outcome.error = "CAPABILITY" THEN chain[Len(tried) + 1] \notin configured
                 ELSE /\ outcome.error = tried[Len(tried)]
                      /\ outcome.error \in Transient => Len(tried) = Len(chain)
      BY <1>1, <2>3 DEF CallsInv, OutcomeTrue, Pending
    <2>4. ASSUME NEW i \in 1..Len(delays)
          PROVE  delays[i] <= MaxDelay /\ (i > 1 => delays[i - 1] <= delays[i])
      <3>1. i \in 1..MaxAttempts /\ (i > 1 => i - 1 \in 1..Len(delays))
        BY <2>1, ProviderAssumption
      <3>. QED
        BY <2>1, <3>1, RetryDelayGrows
    <2>. QED
      BY <1>1, <2>1, <2>2, <2>3, <2>4 DEF CallsInv, CallsAreRouted
  <1>2. CallsInv => CallsAreRouted
    BY <1>1
  <1>. QED
    BY <1>2, CallsInvInit, CallsInvNext, PTL DEF ServicesSpec

-----------------------------------------------------------------------------
(* Documents.                                                                *)

DeclaredLine == [label : Label, value : Value]

DocInv ==
    /\ lines \in Seq(DeclaredLine)
    /\ docPhase = "processed" =>
         /\ result.findings = Inconsistencies
         /\ (result.type = "UNKNOWN") = (result.confidence = 25)

(* The sets of lines a finding may be about: those that name one subject.           *)
Subjects ==
    {Aliases[kind] : kind \in DOMAIN Aliases}
    \cup {{l} : l \in Label \ UNION {Aliases[kind] : kind \in DOMAIN Aliases}}
    \cup {{l \in DOMAIN RequirementOf : RequirementOf[l] = r} :
            r \in {RequirementOf[l] : l \in DOMAIN RequirementOf}}

(* A set of fewer than two is one whose members are all the same.                  *)
LEMMA FewerThanTwo ==
    ASSUME NEW S, IsFiniteSet(S)
    PROVE  Cardinality(S) < 2 <=> \A x, y \in S : x = y
  <1>1. Cardinality(S) \in Nat
    BY FS_CardinalityType
  <1>2. ASSUME NEW x \in S, NEW y \in S, x # y
        PROVE  ~(Cardinality(S) < 2)
    <2>1. IsFiniteSet({x}) /\ Cardinality({x}) = 1
      BY FS_Singleton, Zenon
    <2>2. y \notin {x}
      BY <1>2
    <2>3. Cardinality({x} \cup {y}) = 1 + 1
      BY <2>1, <2>2, FS_AddElement
    <2>4. {x} \cup {y} \in SUBSET S
      OBVIOUS
    <2>5. Cardinality({x} \cup {y}) <= Cardinality(S)
      BY <2>4, FS_Subset
    <2>. QED
      BY <1>1, <2>3, <2>5
  <1>3. ASSUME \A x, y \in S : x = y
        PROVE  Cardinality(S) < 2
    <2>1. CASE S = {}
      <3>1. Cardinality({}) = 0
        BY FS_EmptySet
      <3>. QED
        BY <2>1, <3>1
    <2>2. CASE S # {}
      <3>1. PICK x \in S : TRUE
        BY <2>2
      <3>2. S = {x}
        BY <1>3, <3>1
      <3>3. Cardinality({x}) = 1
        BY FS_Singleton, Zenon
      <3>. QED
        BY <3>2, <3>3
    <2>. QED
      BY <2>1, <2>2
  <1>. QED
    BY <1>2, <1>3

(* The values of some lines are finitely many.                                     *)
LEMMA ValuesFinite ==
    ASSUME lines \in Seq(DeclaredLine), NEW at \in SUBSET DOMAIN lines
    PROVE  IsFiniteSet({lines[i].value.folded : i \in at})
  <1> DEFINE S == {lines[i].value.folded : i \in at}
             f == [i \in at |-> lines[i].value.folded]
  <1>1. DOMAIN lines = 1..Len(lines) /\ Len(lines) \in Nat
    OBVIOUS
  <1>2. IsFiniteSet(1..Len(lines))
    BY <1>1, FS_Interval
  <1>3. IsFiniteSet(at)
    BY <1>1, <1>2, FS_Subset
  <1>4. f \in Surjection(at, S)
    BY DEF Surjection
  <1>. HIDE DEF S, f
  <1>5. IsFiniteSet(S)
    BY <1>3, <1>4, FS_Surjection
  <1>. QED
    BY <1>5 DEF S

(* A finding is made exactly when two of the lines differ, and cites them all.       *)
LEMMA ConflictFound ==
    ASSUME lines \in Seq(DeclaredLine), NEW at \in SUBSET DOMAIN lines, NEW kind, NEW about
    PROVE  /\ \A i, k \in at :
                 lines[i].value.folded # lines[k].value.folded
                 => \E f \in Conflict(kind, about, at) : f.lines = at
           /\ \A f \in Conflict(kind, about, at) :
                 /\ f.lines = at
                 /\ \E i, k \in at : lines[i].value.folded # lines[k].value.folded
  <1> DEFINE S == {lines[i].value.folded : i \in at}
             found == [kind |-> kind, subject |-> about, lines |-> at]
  <1>1. Cardinality(S) < 2 <=> \A x, y \in S : x = y
    BY ValuesFinite, FewerThanTwo, Zenon
  <1>2. (\A x, y \in S : x = y) <=> \A i, k \in at : lines[i].value.folded = lines[k].value.folded
    OBVIOUS
  <1>3. Conflict(kind, about, at) = IF Cardinality(S) < 2 THEN {} ELSE {found}
    BY Zenon DEF Conflict
  <1>4. found.lines = at
    OBVIOUS
  <1>. HIDE DEF S, found
  <1>. QED
    BY <1>1, <1>2, <1>3, <1>4

LEMMA LabelledAt == lines \in Seq(DeclaredLine) => \A names : Labelled(names) \in SUBSET DOMAIN lines
  BY DEF Labelled

(* Every finding is about the lines of one subject, and about every subject there is   *)
(* a finding if its lines conflict.                                              *)
LEMMA FindingsBySubject ==
    /\ \A f \in Inconsistencies :
          \E names \in Subjects : \E kind, about : f \in Conflict(kind, about, Labelled(names))
    /\ \A names \in Subjects :
          \E kind, about : Conflict(kind, about, Labelled(names)) \subseteq Inconsistencies
  <1> DEFINE declared == UNION {Aliases[kind] : kind \in DOMAIN Aliases}
             as(q) == {l \in DOMAIN RequirementOf : RequirementOf[l] = q}
             required == {RequirementOf[l] : l \in DOMAIN RequirementOf}
             A(kind) == Conflict(kind, kind, Labelled(Aliases[kind]))
             B(l) == Conflict("DUPLICATED_SECTION", l, Labelled({l}))
             C(q) == Conflict("CONTRADICTORY_REQUIREMENT", q, Labelled(as(q)))
             U == UNION {A(kind) : kind \in DOMAIN Aliases}
             V == UNION {B(l) : l \in Label \ declared}
             W == UNION {C(q) : q \in required}
  <1>1. \A f : f \in Inconsistencies
                <=> \/ \E kind \in DOMAIN Aliases : f \in A(kind)
                    \/ \E l \in Label \ declared : f \in B(l)
                    \/ \E q \in required : f \in C(q)
    <2>1. Inconsistencies = U \cup V \cup W
      BY Zenon DEF Inconsistencies
    <2>2. \A f : f \in U <=> \E kind \in DOMAIN Aliases : f \in A(kind)
      BY Zenon
    <2>3. \A f : f \in V <=> \E l \in Label \ declared : f \in B(l)
      BY Zenon
    <2>4. \A f : f \in W <=> \E q \in required : f \in C(q)
      BY Zenon
    <2>. HIDE DEF U, V, W, A, B, C, declared, required
    <2>. QED
      BY <2>1, <2>2, <2>3, <2>4
  <1>2. Subjects = {Aliases[kind] : kind \in DOMAIN Aliases} \cup {{l} : l \in Label \ declared}
                   \cup {as(q) : q \in required}
    BY Zenon DEF Subjects
  <1>3. ASSUME NEW f \in Inconsistencies
        PROVE  \E names \in Subjects : \E kind, about : f \in Conflict(kind, about, Labelled(names))
    <2> HIDE DEF declared, as, required
    <2>1. CASE \E kind \in DOMAIN Aliases : f \in A(kind)
      BY <1>2, <2>1, Zenon
    <2>2. CASE \E l \in Label \ declared : f \in B(l)
      BY <1>2, <2>2, Zenon
    <2>3. CASE \E q \in required : f \in C(q)
      BY <1>2, <2>3, Zenon
    <2>. HIDE DEF A, B, C
    <2>. QED
      BY <1>1, <2>1, <2>2, <2>3, Zenon
  <1>4. ASSUME NEW names \in Subjects
        PROVE  \E kind, about : Conflict(kind, about, Labelled(names)) \subseteq Inconsistencies
    <2> HIDE DEF declared, as, required
    <2>1. CASE \E kind \in DOMAIN Aliases : names = Aliases[kind]
      <3>1. PICK kind \in DOMAIN Aliases : names = Aliases[kind]
        BY <2>1
      <3>2. A(kind) \subseteq Inconsistencies
        <4>. HIDE DEF A, B, C
        <4>. QED
          BY <1>1, Zenon
      <3>. QED
        BY <3>1, <3>2
    <2>2. CASE \E l \in Label \ declared : names = {l}
      <3>1. PICK l \in Label \ declared : names = {l}
        BY <2>2
      <3>2. B(l) \subseteq Inconsistencies
        <4>. HIDE DEF A, B, C
        <4>. QED
          BY <1>1, Zenon
      <3>. QED
        BY <3>1, <3>2
    <2>3. CASE \E q \in required : names = as(q)
      <3>1. PICK q \in required : names = as(q)
        BY <2>3
      <3>2. C(q) \subseteq Inconsistencies
        <4>. HIDE DEF A, B, C
        <4>. QED
          BY <1>1, Zenon
      <3>. QED
        BY <3>1, <3>2
    <2>. QED
      BY <1>2, <2>1, <2>2, <2>3, Zenon
  <1>. QED
    BY <1>3, <1>4

LEMMA SubjectsAreOne ==
    /\ \A names \in Subjects : \A k, l \in names : OneSubject(k, l)
    /\ \A k, l \in Label : OneSubject(k, l) => \E names \in Subjects : {k, l} \subseteq names
  <1>1. ASSUME NEW names \in Subjects, NEW k \in names, NEW l \in names
        PROVE  OneSubject(k, l)
    BY <1>1 DEF Subjects, OneSubject
  <1>2. ASSUME NEW k \in Label, NEW l \in Label, OneSubject(k, l)
        PROVE  \E names \in Subjects : {k, l} \subseteq names
    <2>1. CASE \E kind \in DOMAIN Aliases : {k, l} \subseteq Aliases[kind]
      BY <2>1, Zenon DEF Subjects
    <2>2. CASE k = l /\ k \in UNION {Aliases[kind] : kind \in DOMAIN Aliases}
      <3>1. PICK kind \in DOMAIN Aliases : k \in Aliases[kind]
        BY <2>2, Zenon
      <3>. QED
        BY <2>2, <3>1, Zenon DEF Subjects
    <2>3. CASE k = l /\ k \notin UNION {Aliases[kind] : kind \in DOMAIN Aliases}
      <3>1. {k} \in Subjects
        BY <2>3, Zenon DEF Subjects
      <3>. QED
        BY <2>3, <3>1
    <2>4. CASE {k, l} \subseteq DOMAIN RequirementOf /\ RequirementOf[k] = RequirementOf[l]
      <3> DEFINE names == {m \in DOMAIN RequirementOf : RequirementOf[m] = RequirementOf[k]}
      <3>1. names \in Subjects
        BY <2>4, Zenon DEF Subjects
      <3>2. {k, l} \subseteq names
        BY <2>4
      <3>. QED
        BY <3>1, <3>2
    <2>. QED
      BY <1>2, <2>1, <2>2, <2>3, <2>4 DEF OneSubject
  <1>. QED
    BY <1>1, <1>2

LEMMA AllConflictsFound ==
    ASSUME lines \in Seq(DeclaredLine)
    PROVE  /\ \A i, k \in DOMAIN lines :
                 OneSubject(lines[i].label, lines[k].label)
                 /\ lines[i].value.folded # lines[k].value.folded
                   => \E f \in Inconsistencies : {i, k} \subseteq f.lines
           /\ \A f \in Inconsistencies : \E i, k \in f.lines :
                 /\ OneSubject(lines[i].label, lines[k].label)
                 /\ lines[i].value.folded # lines[k].value.folded
  <1>0. \A names : Labelled(names) \in SUBSET DOMAIN lines
    BY LabelledAt
  <1>1. ASSUME NEW i \in DOMAIN lines, NEW k \in DOMAIN lines,
               OneSubject(lines[i].label, lines[k].label),
               lines[i].value.folded # lines[k].value.folded
        PROVE  \E f \in Inconsistencies : {i, k} \subseteq f.lines
    <2>1. lines[i].label \in Label /\ lines[k].label \in Label
      <3>1. lines[i] \in DeclaredLine /\ lines[k] \in DeclaredLine
        OBVIOUS
      <3>. QED
        BY <3>1 DEF DeclaredLine
    <2>2. PICK names \in Subjects : {lines[i].label, lines[k].label} \subseteq names
      BY <1>1, <2>1, SubjectsAreOne, Zenon
    <2>3. i \in Labelled(names) /\ k \in Labelled(names)
      BY <2>2 DEF Labelled
    <2>4. PICK kind, about : Conflict(kind, about, Labelled(names)) \subseteq Inconsistencies
      BY FindingsBySubject, Zenon
    <2>5. \E f \in Conflict(kind, about, Labelled(names)) : f.lines = Labelled(names)
      BY <1>1, <2>3, <1>0, ConflictFound
    <2>. QED
      BY <2>3, <2>4, <2>5
  <1>2. ASSUME NEW f \in Inconsistencies
        PROVE  \E i, k \in f.lines : /\ OneSubject(lines[i].label, lines[k].label)
                                     /\ lines[i].value.folded # lines[k].value.folded
    <2>0. PICK names \in Subjects : \E kind, about : f \in Conflict(kind, about, Labelled(names))
      BY FindingsBySubject, Zenon
    <2>1. PICK kind, about : f \in Conflict(kind, about, Labelled(names))
      BY <2>0
    <2>2. f.lines = Labelled(names)
      BY <2>1, <1>0, ConflictFound
    <2>3. PICK i \in Labelled(names), k \in Labelled(names) :
            lines[i].value.folded # lines[k].value.folded
      BY <2>1, <1>0, ConflictFound, Zenon
    <2>4. lines[i].label \in names /\ lines[k].label \in names
      BY DEF Labelled
    <2>. QED
      BY <2>2, <2>3, <2>4, SubjectsAreOne, Zenon
  <1>. QED
    BY <1>1, <1>2

(* The classification finds the most signals of a kind, and no type only in a text       *)
(* without any; a type found is worth at least 65 hundredths.                      *)
LEMMA ConfidenceTells ==
    ASSUME NEW signals \in [ToSet(DocumentTypes) -> 0..MaxSignals]
    PROVE  (Classified(signals) = "UNKNOWN") = (Confidence(signals) = 25)
  <1> DEFINE n(i) == signals[DocumentTypes[i]]
             First(i) == \A k \in 1..5 : n(i) > n(k) \/ (n(i) = n(k) /\ i <= k)
             best == CHOOSE i \in 1..5 : First(i)
  <1>1. \A i \in 1..5 : n(i) \in Nat /\ DocumentTypes[i] # "UNKNOWN"
    <2>1. \A i \in 1..5 : DocumentTypes[i] \in ToSet(DocumentTypes) /\ DocumentTypes[i] # "UNKNOWN"
      BY DEF DocumentTypes, ToSet
    <2>. QED
      BY <2>1, DocumentAssumption
  <1>. HIDE DEF n
  <1>2. \E i \in 1..5 : First(i)
    <2>1. /\ n(1) \in Nat /\ n(2) \in Nat /\ n(3) \in Nat /\ n(4) \in Nat /\ n(5) \in Nat
          /\ 1..5 = {1, 2, 3, 4, 5}
      BY <1>1
    <2>2. \A i \in 1..5 :
            First(i) <=> /\ n(i) > n(1) \/ (n(i) = n(1) /\ i <= 1)
                         /\ n(i) > n(2) \/ (n(i) = n(2) /\ i <= 2)
                         /\ n(i) > n(3) \/ (n(i) = n(3) /\ i <= 3)
                         /\ n(i) > n(4) \/ (n(i) = n(4) /\ i <= 4)
                         /\ n(i) > n(5) \/ (n(i) = n(5) /\ i <= 5)
      BY <2>1
    <2>. HIDE DEF First
    <2>3. First(1) \/ First(2) \/ First(3) \/ First(4) \/ First(5)
      BY <2>1, <2>2
    <2>. QED
      BY <2>1, <2>3
  <1>3. best \in 1..5
    BY <1>2
  <1>4. Classified(signals) = IF n(best) = 0 THEN "UNKNOWN" ELSE DocumentTypes[best]
    BY Zenon DEF Classified, n
  <1>. HIDE DEF best
  <1>5. CASE n(best) = 0
    BY <1>4, <1>5 DEF Confidence
  <1>6. CASE n(best) # 0
    <2>1. Classified(signals) # "UNKNOWN" /\ signals[Classified(signals)] = n(best)
      BY <1>1, <1>3, <1>4, <1>6 DEF n
    <2>2. Confidence(signals) # 25
      BY <1>1, <1>3, <1>6, <2>1 DEF Confidence
    <2>. QED
      BY <2>1, <2>2
  <1>. QED
    BY <1>5, <1>6

LEMMA DocInvInit == ServicesInit => DocInv
  <1>1. ServicesInit => lines = <<>> /\ docPhase # "processed"
    BY DEF ServicesInit, DocInit, DocIdle
  <1>2. <<>> \in Seq(DeclaredLine)
    OBVIOUS
  <1>. QED
    BY <1>1, <1>2, Zenon DEF DocInv

LEMMA DocInvNext == DocInv /\ [ServicesNext]_servicesVars => DocInv'
  <1> SUFFICES ASSUME DocInv, [ServicesNext]_servicesVars
               PROVE  DocInv'
    OBVIOUS
  <1>1. ASSUME UNCHANGED docVars
        PROVE  DocInv'
    <2>1. Inconsistencies' = Inconsistencies
      BY <1>1 DEF docVars, Inconsistencies, Conflict, Labelled
    <2>. QED
      BY <1>1, <2>1 DEF docVars, DocInv
  <1>2. ASSUME docPhase' # "processed", lines' \in Seq(DeclaredLine)
        PROVE  DocInv'
    BY <1>2 DEF DocInv
  <1>3. CASE OpenFile
    BY <1>2, <1>3 DEF OpenFile, DocFails, DocInv
  <1>4. CASE DeclaringLine
    BY <1>2, <1>4 DEF DeclaringLine, DocInv, DeclaredLine
  <1>5. CASE Process
    <2>1. CASE DocFails
      BY <1>2, <2>1 DEF DocFails, DocInv
    <2>2. ASSUME NEW signals \in [ToSet(DocumentTypes) -> 0..MaxSignals], NEW assisted, NEW present,
                 result' = [type |-> Classified(signals), confidence |-> Confidence(signals),
                            missing |-> Required(Classified(signals)) \ (present \cup Mentioned),
                            findings |-> Inconsistencies, assisted |-> assisted],
                 UNCHANGED lines
          PROVE  DocInv'
      <3>1. Inconsistencies' = Inconsistencies
        BY <2>2 DEF Inconsistencies, Conflict, Labelled
      <3>2. /\ result'.findings = Inconsistencies /\ result'.type = Classified(signals)
            /\ result'.confidence = Confidence(signals)
        BY <2>2
      <3>. QED
        BY <2>2, <3>1, <3>2, ConfidenceTells DEF DocInv
    <2>. QED
      BY <1>5, <2>1, <2>2 DEF Process
  <1>. QED
    BY <1>1, <1>3, <1>4, <1>5 DEF ServicesNext, servicesVars, DocStep

(* However a document is worded, two lines that declare one subject differently are       *)
(* cited by one finding, and no finding is about lines that agree (processor.py,        *)
(* _deterministic_inconsistencies and _conflict_finding).                         *)
THEOREM ConflictsReported == ServicesSpec => []ConflictsAreReported
  <1>1. DocInv => ConflictsAreReported
    BY AllConflictsFound DEF DocInv, ConflictsAreReported
  <1>. QED
    BY <1>1, DocInvInit, DocInvNext, PTL DEF ServicesSpec

-----------------------------------------------------------------------------
(* Verdicts on recorded cases.                                                 *)

LEMMA TimesGrows ==
    ASSUME NEW a \in Int, NEW b \in Int, a <= b, NEW n \in Nat
    PROVE  a * n <= b * n
  <1>1. (b - a) * n >= 0
    BY SMTT(20)
  <1>2. (b - a) * n = b * n - a * n
    BY SMTT(20)
  <1>3. a * n \in Int /\ b * n \in Int
    OBVIOUS
  <1> DEFINE x == a * n
             y == b * n
             z == (b - a) * n
  <1>4. x \in Int /\ y \in Int /\ z >= 0 /\ z = y - x
    BY <1>1, <1>2, <1>3
  <1> HIDE DEF x, y, z
  <1>5. x <= y
    BY <1>4
  <1>. QED
    BY <1>5 DEF x, y

LEMMA TimesGrowsStrictly ==
    ASSUME NEW a \in Int, NEW b \in Int, a < b, NEW n \in Nat, n > 0
    PROVE  a * n < b * n
  <1>1. (a + 1) * n <= b * n
    BY TimesGrows
  <1>2. (a + 1) * n = a * n + n /\ a * n \in Int /\ b * n \in Int
    BY SMTT(20)
  <1> DEFINE x == a * n
             y == b * n
             z == (a + 1) * n
  <1>3. x \in Int /\ y \in Int /\ z <= y /\ z = x + n
    BY <1>1, <1>2
  <1> HIDE DEF x, y, z
  <1>4. x < y
    BY <1>3
  <1>. QED
    BY <1>4 DEF x, y

(* What the cases of a subject leave.                                             *)
Impacts == {ImpactOf(e) : e \in {e \in Evidence : Valid(e)}} \cup {None}

CaseRows ==
    CASE subject = "evaluation" -> [{"suite"} -> {CaseScored(a) : a \in Actual} \cup {CaseError}]
      [] subject = "experiment" -> [{"control", "candidate"} -> Row]
      [] subject = "comparison" -> [ToSet(Providers) -> Row]
      [] subject = "impact" -> [impact : Impacts, feedback : Feedback \cup {None}]
      [] OTHER -> {}

ScoresInv ==
    /\ (subject \in {"evaluation", "experiment", "comparison", "impact"}
        \/ (subject = "idle" /\ verdict.kind = "idle"))
    /\ scored \in Seq(CaseRows)
    /\ VerdictsAreFair

-----------------------------------------------------------------------------
(* The gate passes perfect suites only.                                            *)
LEMMA GatePassesPerfect ==
    ASSUME subject = "evaluation", scored \in Seq(CaseRows),
           passes_regression_gate(RowsOf("suite"))
    PROVE  scored # <<>> /\ \A i \in DOMAIN scored : scored[i]["suite"] \in Perfect
  <1>1. \A i \in DOMAIN scored :
            scored[i]["suite"] \in {CaseScored(a) : a \in Actual} \cup {CaseError}
    BY DEF CaseRows
  <1>2. \A i \in DOMAIN scored : RowsOf("suite")[i] = scored[i]["suite"]
    BY DEF RowsOf
  <1>3. DOMAIN RowsOf("suite") = DOMAIN scored
    BY DEF RowsOf
  <1>4. RowsOf("suite") # <<>> /\ \A i \in DOMAIN scored : scored[i]["suite"].success
    BY <1>2, <1>3 DEF passes_regression_gate
  <1>5. scored # <<>>
    <2>1. CASE scored = <<>>
      BY <1>4, <2>1 DEF RowsOf
    <2>. QED
      BY <2>1
  <1>6. ASSUME NEW i \in DOMAIN scored PROVE scored[i]["suite"] \in Perfect
    <2>1. scored[i]["suite"].success
      BY <1>4
    <2>2. CASE scored[i]["suite"] = CaseError
      BY <2>1, <2>2 DEF CaseError
    <2>3. CASE \E a \in Actual : scored[i]["suite"] = CaseScored(a)
      <3>1. PICK a \in Actual : scored[i]["suite"] = CaseScored(a)
        BY <2>3
      <3>2. CaseScored(a).success = \A n \in DOMAIN Assertions(a) : Assertions(a)[n]
        BY Zenon DEF CaseScored
      <3>3. \A n \in DOMAIN Assertions(a) : Assertions(a)[n]
        BY <2>1, <3>1, <3>2, Zenon
      <3>. QED
        BY <3>1, <3>3, Zenon DEF Perfect
    <2>. QED
      BY <1>1, <2>2, <2>3
  <1>. QED
    BY <1>5, <1>6

-----------------------------------------------------------------------------
(* Scores of prompts and of providers.                                             *)
PointsOf(p) == [i \in DOMAIN scored |-> Points(scored[i][p])]

CostsOf(p) == [i \in DOMAIN scored |-> scored[i][p].cost]

LEMMA RowNumbers ==
    ASSUME NEW r \in Row
    PROVE  /\ r.quality \in Nat /\ r.latency \in Nat /\ r.cost \in Nat
           /\ r.completed \in BOOLEAN /\ (~r.completed => r.cost = 0)
  <1>1. /\ {r.quality, r.cost, r.latency} \subseteq Nat
        /\ r.completed \in BOOLEAN /\ (~r.completed => r.cost = 0)
    BY ScoresAssumption, Zenon
  <1>. QED
    BY <1>1

LEMMA RowTyped ==
    ASSUME NEW r \in Row
    PROVE  Points(r) \in Int /\ r.cost \in Nat
  <1>1. r.quality \in Nat /\ r.latency \in Nat /\ r.cost \in Nat
    BY RowNumbers
  <1>. QED
    BY <1>1 DEF Points

(* A row that is no worse has no fewer points and costs no more.                     *)
LEMMA NoWorseCounts ==
    ASSUME NEW r \in Row, NEW s \in Row, NoWorse(r, s)
    PROVE  Points(s) <= Points(r) /\ r.cost <= s.cost
  <1>1. /\ r.quality \in Nat /\ r.latency \in Nat /\ r.cost \in Nat
        /\ s.quality \in Nat /\ s.latency \in Nat /\ s.cost \in Nat
        /\ r.completed \in BOOLEAN /\ s.completed \in BOOLEAN
        /\ (~r.completed => r.cost = 0)
    BY RowNumbers
  <1>2. CASE ~s.completed
    BY <1>1, <1>2 DEF NoWorse, Points
  <1>3. CASE s.completed
    BY <1>1, <1>3 DEF NoWorse, Points
  <1>. QED
    BY <1>1, <1>2, <1>3

LEMMA CasesFinite ==
    ASSUME NEW S, scored \in Seq(S)
    PROVE  /\ DOMAIN scored = 1..Len(scored) /\ Len(scored) \in Nat
           /\ IsFiniteSet(DOMAIN scored) /\ Cardinality(DOMAIN scored) = Len(scored)
  <1>1. DOMAIN scored = 1..Len(scored) /\ Len(scored) \in Nat
    OBVIOUS
  <1>2. IsFiniteSet(1..Len(scored)) /\ Cardinality(1..Len(scored)) = Len(scored)
    BY <1>1, FS_Interval
  <1>. QED
    BY <1>1, <1>2

LEMMA RowsCounted ==
    ASSUME NEW P, scored \in Seq([P -> Row]), NEW p \in P, NEW i \in DOMAIN scored
    PROVE  /\ PointsOf(p)[i] = Points(scored[i][p]) /\ CostsOf(p)[i] = scored[i][p].cost
           /\ scored[i][p] \in Row
           /\ PointsOf(p)[i] \in Int /\ CostsOf(p)[i] \in Nat
  <1>1. /\ PointsOf(p)[i] = Points(scored[i][p])
        /\ CostsOf(p)[i] = scored[i][p].cost
        /\ scored[i][p] \in Row
    BY DEF PointsOf, CostsOf
  <1>. QED
    BY <1>1, RowTyped

LEMMA VariantPointsDef ==
    ASSUME NEW P, scored \in Seq([P -> Row]), NEW p \in P
    PROVE  /\ VariantPoints(RowsOf(p)) =
                SumFunctionOnSet(PointsOf(p), DOMAIN scored)
                - 10000 * (SumFunctionOnSet(CostsOf(p), DOMAIN scored) * Len(scored))
           /\ Len(RowsOf(p)) = Len(scored)
  <1>1. /\ DOMAIN RowsOf(p) = DOMAIN scored
        /\ \A i \in DOMAIN scored : RowsOf(p)[i] = scored[i][p]
    BY DEF RowsOf
  <1>2. Len(RowsOf(p)) = Len(scored)
    BY DEF RowsOf
  <1>3. [i \in DOMAIN RowsOf(p) |-> Points(RowsOf(p)[i])] = PointsOf(p)
    BY <1>1 DEF PointsOf
  <1>4. [i \in DOMAIN RowsOf(p) |-> RowsOf(p)[i].cost] = CostsOf(p)
    BY <1>1 DEF CostsOf
  <1>5. DOMAIN PointsOf(p) = DOMAIN scored /\ DOMAIN CostsOf(p) = DOMAIN scored
    BY DEF PointsOf, CostsOf
  <1>6. SumFunction(PointsOf(p)) = SumFunctionOnSet(PointsOf(p), DOMAIN scored)
    BY <1>5, Zenon DEF SumFunction
  <1>7. Cost(RowsOf(p)) = SumFunctionOnSet(CostsOf(p), DOMAIN scored)
    BY <1>4, <1>5, Zenon DEF SumFunction, Cost
  <1>8. VariantPoints(RowsOf(p)) =
            SumFunction([i \in DOMAIN RowsOf(p) |-> Points(RowsOf(p)[i])])
            - 10000 * (Cost(RowsOf(p)) * Len(RowsOf(p)))
    BY DEF VariantPoints
  <1>9. VariantPoints(RowsOf(p)) =
            SumFunction(PointsOf(p)) - 10000 * (Cost(RowsOf(p)) * Len(RowsOf(p)))
    BY <1>3, <1>8
  <1>10. VariantPoints(RowsOf(p)) =
             SumFunctionOnSet(PointsOf(p), DOMAIN scored)
             - 10000 * (SumFunctionOnSet(CostsOf(p), DOMAIN scored) * Len(scored))
    <2>1. IsFiniteSet(DOMAIN scored) /\ Len(scored) \in Nat
      BY CasesFinite
    <2>3. \A i \in DOMAIN scored : PointsOf(p)[i] \in Int /\ CostsOf(p)[i] \in Nat
      BY RowsCounted, Zenon
    <2>4. \A i \in DOMAIN scored : PointsOf(p)[i] \in Int /\ CostsOf(p)[i] \in Int
      BY <2>3
    <2>2. /\ SumFunctionOnSet(PointsOf(p), DOMAIN scored) \in Int
          /\ SumFunctionOnSet(CostsOf(p), DOMAIN scored) \in Int
      BY <2>1, <2>4, SumInt
    <2>. QED
      BY <1>2, <1>6, <1>7, <1>9, <2>1, <2>2
  <1>. QED
    BY <1>2, <1>10

(* A variant that is nowhere worse has no fewer points.                              *)
LEMMA NoWorseEverywhere ==
    ASSUME NEW P, scored \in Seq([P -> Row]), NEW p \in P, NEW q \in P, Everywhere(q, p)
    PROVE  /\ VariantPoints(RowsOf(p)) \in Int /\ VariantPoints(RowsOf(q)) \in Int
           /\ VariantPoints(RowsOf(p)) <= VariantPoints(RowsOf(q))
  <1> DEFINE D == DOMAIN scored
             n == Len(scored)
             gp == SumFunctionOnSet(PointsOf(p), D)
             gq == SumFunctionOnSet(PointsOf(q), D)
             cp == SumFunctionOnSet(CostsOf(p), D)
             cq == SumFunctionOnSet(CostsOf(q), D)
  <1>1. IsFiniteSet(D) /\ n \in Nat
    BY CasesFinite
  <1>2. /\ VariantPoints(RowsOf(p)) = gp - 10000 * (cp * n)
        /\ VariantPoints(RowsOf(q)) = gq - 10000 * (cq * n)
    BY VariantPointsDef
  <1>3. \A i \in D : /\ PointsOf(p)[i] \in Int /\ PointsOf(q)[i] \in Int
                     /\ CostsOf(p)[i] \in Int /\ CostsOf(q)[i] \in Int
                     /\ PointsOf(p)[i] <= PointsOf(q)[i] /\ CostsOf(q)[i] <= CostsOf(p)[i]
    <2> SUFFICES ASSUME NEW i \in D
                 PROVE  /\ PointsOf(p)[i] \in Int /\ PointsOf(q)[i] \in Int
                        /\ CostsOf(p)[i] \in Int /\ CostsOf(q)[i] \in Int
                        /\ PointsOf(p)[i] <= PointsOf(q)[i] /\ CostsOf(q)[i] <= CostsOf(p)[i]
      OBVIOUS
    <2>1. NoWorse(scored[i][q], scored[i][p])
      BY DEF Everywhere
    <2>2. /\ PointsOf(p)[i] = Points(scored[i][p]) /\ CostsOf(p)[i] = scored[i][p].cost
          /\ scored[i][p] \in Row /\ PointsOf(p)[i] \in Int /\ CostsOf(p)[i] \in Nat
      BY RowsCounted, Zenon
    <2>3. /\ PointsOf(q)[i] = Points(scored[i][q]) /\ CostsOf(q)[i] = scored[i][q].cost
          /\ scored[i][q] \in Row /\ PointsOf(q)[i] \in Int /\ CostsOf(q)[i] \in Nat
      BY RowsCounted, Zenon
    <2>4. Points(scored[i][p]) <= Points(scored[i][q]) /\ scored[i][q].cost <= scored[i][p].cost
      BY <2>1, <2>2, <2>3, NoWorseCounts
    <2>. QED
      BY <2>2, <2>3, <2>4
  <1> HIDE DEF D, n
  <1>4. gp \in Int /\ gq \in Int /\ cp \in Int /\ cq \in Int
    BY <1>1, <1>3, SumInt
  <1>5. gp <= gq
    BY <1>1, <1>3, SumMonotone
  <1>6. cq <= cp
    BY <1>1, <1>3, SumMonotone
  <1> HIDE DEF gp, gq, cp, cq
  <1>7. cq * n <= cp * n /\ cq * n \in Int /\ cp * n \in Int
    BY <1>1, <1>4, <1>6, TimesGrows
  <1>. QED
    BY <1>2, <1>4, <1>5, <1>7

(* An experiment is not won by what is worse in some cases and better in none.         *)
LEMMA WinnerIsFair ==
    ASSUME scored \in Seq([{"control", "candidate"} -> Row]),
           NEW p \in {"control", "candidate"}, NEW q \in {"control", "candidate"}, p # q,
           p = choose_winner(RowsOf("control"), RowsOf("candidate"))
    PROVE  ~Everywhere(q, p)
  <1> DEFINE n == Len(scored)
             x == VariantPoints(RowsOf("control"))
             y == VariantPoints(RowsOf("candidate"))
  <1>1. SUFFICES ASSUME Everywhere(q, p) PROVE FALSE
    OBVIOUS
  <1>2. n \in Nat
    BY CasesFinite
  <1>3. /\ Len(RowsOf("control")) = n /\ Len(RowsOf("candidate")) = n
    <2> DEFINE P == {"control", "candidate"}
    <2>1. "control" \in P /\ "candidate" \in P
      OBVIOUS
    <2>2. scored \in Seq([P -> Row])
      OBVIOUS
    <2> HIDE DEF P
    <2>. QED
      BY <2>1, <2>2, VariantPointsDef
  <1>4. /\ VariantPoints(RowsOf(p)) \in Int /\ VariantPoints(RowsOf(q)) \in Int
        /\ VariantPoints(RowsOf(p)) <= VariantPoints(RowsOf(q))
    BY <1>1, NoWorseEverywhere
  <1>5. x \in Int /\ y \in Int
    BY <1>4
  <1> DEFINE difference == y * n - x * n
             noise == 10 * n * n
  <1>6. /\ RowsOf("control") # <<>>
        /\ ~(difference < noise /\ -difference < noise)
        /\ p = IF difference > 0 THEN "candidate" ELSE "control"
    <2>1. p = IF RowsOf("control") = <<>> \/ (difference < noise /\ -difference < noise) THEN "none"
              ELSE IF difference > 0 THEN "candidate" ELSE "control"
      BY <1>3, Zenon DEF choose_winner
    <2> HIDE DEF difference, noise
    <2>. QED
      BY <2>1
  <1>7. n > 0
    BY <1>6, <1>2 DEF RowsOf
  <1>8. x * n \in Int /\ y * n \in Int /\ noise \in Int /\ noise > 0
    BY <1>2, <1>5, <1>7
  <1>9. CASE p = "candidate"
    <2>1. y <= x
      BY <1>4, <1>9
    <2>2. y * n <= x * n
      BY <1>2, <1>5, <2>1, TimesGrows
    <2> DEFINE a == x * n
               b == y * n
    <2>3. a \in Int /\ b \in Int /\ b <= a
      BY <1>8, <2>2
    <2>4. b - a > 0
      BY <1>6, <1>9
    <2> HIDE DEF a, b
    <2>. QED
      BY <2>3, <2>4
  <1>10. CASE p = "control"
    <2>1. x <= y
      BY <1>4, <1>10
    <2>2. x * n <= y * n
      BY <1>2, <1>5, <2>1, TimesGrows
    <2> DEFINE a == x * n
               b == y * n
    <2>3. a \in Int /\ b \in Int /\ a <= b /\ noise \in Int /\ noise > 0
      BY <1>8, <2>2
    <2>4. ~(b - a > 0) /\ ~(b - a < noise /\ -(b - a) < noise)
      BY <1>6, <1>10
    <2> HIDE DEF a, b, noise
    <2>. QED
      BY <2>3, <2>4
  <1>. QED
    BY <1>9, <1>10

EarnedOf(p) == [i \in Completed(p) |-> 5000 * scored[i][p].quality + 20000 - scored[i][p].latency]

SpentOf(p) == [i \in Completed(p) |-> scored[i][p].cost]

LEMMA CompletedCounted ==
    ASSUME NEW P, scored \in Seq([P -> Row]), NEW p \in P
    PROVE  /\ IsFiniteSet(Completed(p)) /\ Cardinality(Completed(p)) \in Nat
           /\ (Completed(p) # {} => Cardinality(Completed(p)) > 0 /\ Len(scored) > 0)
           /\ Len(scored) \in Nat
           /\ Earned(p) = SumFunctionOnSet(EarnedOf(p), Completed(p))
           /\ Spent(p) = SumFunctionOnSet(SpentOf(p), Completed(p))
           /\ Earned(p) \in Int /\ Spent(p) \in Int
           /\ \A i \in Completed(p) : /\ EarnedOf(p)[i] \in Int /\ SpentOf(p)[i] \in Int
                                      /\ scored[i][p] \in Row /\ i \in DOMAIN scored
                                      /\ scored[i][p].completed
  <1>1. DOMAIN scored = 1..Len(scored) /\ Len(scored) \in Nat /\ IsFiniteSet(DOMAIN scored)
    BY CasesFinite
  <1>2. Completed(p) \subseteq DOMAIN scored
    BY DEF Completed
  <1>3. IsFiniteSet(Completed(p)) /\ Cardinality(Completed(p)) \in Nat
    BY <1>1, <1>2, FS_Subset, FS_CardinalityType
  <1>4. ASSUME Completed(p) # {}
        PROVE  Cardinality(Completed(p)) > 0 /\ Len(scored) > 0
    <2>1. Cardinality(Completed(p)) # 0
      BY <1>3, <1>4, FS_EmptySet
    <2>. QED
      BY <1>1, <1>2, <1>3, <1>4, <2>1
  <1>5. ASSUME NEW i \in Completed(p)
        PROVE  /\ EarnedOf(p)[i] \in Int /\ SpentOf(p)[i] \in Int
               /\ scored[i][p] \in Row /\ i \in DOMAIN scored /\ scored[i][p].completed
    <2>1. scored[i][p] \in Row /\ i \in DOMAIN scored /\ scored[i][p].completed
      BY <1>2 DEF Completed
    <2>2. /\ EarnedOf(p)[i] = 5000 * scored[i][p].quality + 20000 - scored[i][p].latency
          /\ SpentOf(p)[i] = scored[i][p].cost
      BY DEF EarnedOf, SpentOf
    <2>3. /\ scored[i][p].quality \in Nat /\ scored[i][p].latency \in Nat
          /\ scored[i][p].cost \in Nat
      BY <2>1, RowNumbers
    <2>. QED
      BY <2>1, <2>2, <2>3
  <1>6. DOMAIN EarnedOf(p) = Completed(p) /\ DOMAIN SpentOf(p) = Completed(p)
    BY DEF EarnedOf, SpentOf
  <1>7. /\ Earned(p) = SumFunction(EarnedOf(p))
        /\ Spent(p) = SumFunction(SpentOf(p))
    BY DEF Earned, Spent, EarnedOf, SpentOf
  <1>8. /\ Earned(p) = SumFunctionOnSet(EarnedOf(p), Completed(p))
        /\ Spent(p) = SumFunctionOnSet(SpentOf(p), Completed(p))
    BY <1>6, <1>7, Zenon DEF SumFunction
  <1>9. Earned(p) \in Int /\ Spent(p) \in Int
    BY <1>3, <1>5, <1>8, SumInt
  <1>. QED
    BY <1>1, <1>3, <1>4, <1>5, <1>8, <1>9

(* A provider that completed the same cases, nowhere worse and once faster, has        *)
(* earned more and spent no more.                                                *)
LEMMA FasterEarnsMore ==
    ASSUME NEW P, scored \in Seq([P -> Row]), NEW p \in P, NEW q \in P,
           Completed(q) = Completed(p), Everywhere(q, p),
           NEW k \in Completed(p), scored[k][q].latency < scored[k][p].latency
    PROVE  Earned(p) < Earned(q) /\ Spent(q) <= Spent(p)
  <1> DEFINE C == Completed(p)
  <1>1. /\ IsFiniteSet(C)
        /\ \A i \in C : /\ EarnedOf(p)[i] \in Int /\ SpentOf(p)[i] \in Int
                       /\ scored[i][p] \in Row /\ i \in DOMAIN scored
                       /\ scored[i][p].completed
    BY CompletedCounted
  <1>2. \A i \in C : /\ EarnedOf(q)[i] \in Int /\ SpentOf(q)[i] \in Int
                     /\ scored[i][q] \in Row
    BY CompletedCounted
  <1>3. /\ Earned(p) = SumFunctionOnSet(EarnedOf(p), C) /\ Spent(p) = SumFunctionOnSet(SpentOf(p), C)
        /\ Earned(q) = SumFunctionOnSet(EarnedOf(q), C) /\ Spent(q) = SumFunctionOnSet(SpentOf(q), C)
    BY CompletedCounted
  <1>4. \A i \in C : /\ EarnedOf(p)[i] = 5000 * scored[i][p].quality + 20000 - scored[i][p].latency
                     /\ EarnedOf(q)[i] = 5000 * scored[i][q].quality + 20000 - scored[i][q].latency
                     /\ SpentOf(p)[i] = scored[i][p].cost /\ SpentOf(q)[i] = scored[i][q].cost
    BY DEF EarnedOf, SpentOf
  <1>5. k \in C
    OBVIOUS
  <1> HIDE DEF C
  <1>6. ASSUME NEW i \in C
        PROVE  /\ EarnedOf(p)[i] <= EarnedOf(q)[i] /\ SpentOf(q)[i] <= SpentOf(p)[i]
               /\ (scored[i][q].latency < scored[i][p].latency => EarnedOf(p)[i] < EarnedOf(q)[i])
    <2>1. NoWorse(scored[i][q], scored[i][p])
      BY <1>1 DEF Everywhere
    <2>2. /\ scored[i][p].quality \in Nat /\ scored[i][p].latency \in Nat
          /\ scored[i][p].cost \in Nat
      BY <1>1, RowNumbers
    <2>3. /\ scored[i][q].quality \in Nat /\ scored[i][q].latency \in Nat
          /\ scored[i][q].cost \in Nat
      BY <1>2, RowNumbers
    <2>4. /\ scored[i][q].quality >= scored[i][p].quality /\ scored[i][q].cost <= scored[i][p].cost
          /\ scored[i][q].latency <= scored[i][p].latency
      BY <1>1, <2>1 DEF NoWorse
    <2>5. /\ EarnedOf(p)[i] = 5000 * scored[i][p].quality + 20000 - scored[i][p].latency
          /\ EarnedOf(q)[i] = 5000 * scored[i][q].quality + 20000 - scored[i][q].latency
          /\ SpentOf(p)[i] = scored[i][p].cost /\ SpentOf(q)[i] = scored[i][q].cost
      BY <1>4
    <2> DEFINE ql == scored[i][p].quality
               qm == scored[i][q].quality
               ll == scored[i][p].latency
               lm == scored[i][q].latency
    <2>6. /\ ql \in Nat /\ qm \in Nat /\ ll \in Nat /\ lm \in Nat /\ qm >= ql /\ lm <= ll
          /\ EarnedOf(p)[i] = 5000 * ql + 20000 - ll
          /\ EarnedOf(q)[i] = 5000 * qm + 20000 - lm
      BY <2>2, <2>3, <2>4, <2>5
    <2> HIDE DEF ql, qm, ll, lm
    <2>7. /\ EarnedOf(p)[i] <= EarnedOf(q)[i]
          /\ (lm < ll => EarnedOf(p)[i] < EarnedOf(q)[i])
      BY <2>6
    <2>. QED
      BY <2>2, <2>3, <2>4, <2>5, <2>7 DEF ll, lm
  <1>7. SumFunctionOnSet(EarnedOf(p), C) < SumFunctionOnSet(EarnedOf(q), C)
    BY <1>1, <1>2, <1>5, <1>6, SumStrict
  <1>8. SumFunctionOnSet(SpentOf(q), C) <= SumFunctionOnSet(SpentOf(p), C)
    BY <1>1, <1>2, <1>6, SumMonotone
  <1>. QED
    BY <1>3, <1>7, <1>8

LEMMA MorePoints ==
    ASSUME NEW a \in Int, NEW b \in Int, a < b, NEW c \in Int, NEW d \in Int, d <= c,
           NEW n \in Nat, n > 0, NEW N \in Nat, N > 0, NEW k \in Int
    PROVE  ((a - 10000 * (c * n)) * N - k) * n < ((b - 10000 * (d * n)) * N - k) * n
  <1> DEFINE x == a - 10000 * (c * n)
             y == b - 10000 * (d * n)
  <1>1. x \in Int /\ y \in Int /\ x < y
    <2> DEFINE u == c * n
               v == d * n
    <2>1. u \in Int /\ v \in Int /\ v <= u
      BY TimesGrows
    <2> HIDE DEF u, v
    <2>2. a - 10000 * u < b - 10000 * v /\ a - 10000 * u \in Int /\ b - 10000 * v \in Int
      BY <2>1
    <2>. QED
      BY <2>2 DEF u, v
  <1> HIDE DEF x, y
  <1> DEFINE u == x * N
             v == y * N
  <1>2. u \in Int /\ v \in Int /\ u < v
    BY <1>1, TimesGrowsStrictly
  <1> HIDE DEF u, v
  <1>3. (u - k) * n < (v - k) * n
    <2>1. u - k \in Int /\ v - k \in Int /\ u - k < v - k
      BY <1>2
    <2>. QED
      BY <2>1, TimesGrowsStrictly
  <1>. QED
    BY <1>3 DEF u, v, x, y

(* The recommended provider completed something, and none that completed the same      *)
(* cases, nowhere worse and once faster, is passed over.                            *)
LEMMA RecommendedIsFair ==
    ASSUME scored \in Seq([ToSet(Providers) -> Row]),
           NEW p \in ToSet(Providers), Recommended(p)
    PROVE  /\ \E i \in DOMAIN scored : scored[i][p].completed
           /\ \A q \in ToSet(Providers) \ {p} :
                ~ /\ \A i \in DOMAIN scored : scored[i][q].completed = scored[i][p].completed
                  /\ Everywhere(q, p)
                  /\ \E i \in DOMAIN scored : scored[i][q].completed
                       /\ scored[i][q].latency < scored[i][p].latency
  <1>1. \E i \in DOMAIN scored : scored[i][p].completed
    BY DEF Recommended, Completed
  <1>2. ASSUME NEW q \in ToSet(Providers) \ {p},
               \A i \in DOMAIN scored : scored[i][q].completed = scored[i][p].completed,
               Everywhere(q, p),
               NEW k \in DOMAIN scored, scored[k][q].completed,
               scored[k][q].latency < scored[k][p].latency
        PROVE  FALSE
    <2> DEFINE P == ToSet(Providers)
               n == Cardinality(Completed(p))
    <2>1. Completed(q) = Completed(p) /\ k \in Completed(p)
      BY <1>2 DEF Completed
    <2>2. scored \in Seq([P -> Row]) /\ p \in P /\ q \in P
      OBVIOUS
    <2>3. Earned(p) < Earned(q) /\ Spent(q) <= Spent(p)
      <3> HIDE DEF P
      <3>. QED
        BY <1>2, <2>1, <2>2, FasterEarnsMore
    <2>4. /\ Earned(p) \in Int /\ Spent(p) \in Int /\ Earned(q) \in Int /\ Spent(q) \in Int
          /\ n \in Nat /\ n > 0 /\ Len(scored) \in Nat /\ Len(scored) > 0
      <3> HIDE DEF P
      <3>. QED
        BY <2>1, <2>2, CompletedCounted
    <2> DEFINE K == 10000 * ((Len(scored) - n) * n)
               x == ((Earned(p) - 10000 * (Spent(p) * n)) * Len(scored) - K) * n
               y == ((Earned(q) - 10000 * (Spent(q) * n)) * Len(scored) - K) * n
    <2>5. K \in Int
      BY <2>4
    <2>6. x = Score(p, q) /\ y = Score(q, p)
      BY <2>1 DEF Score, ProviderPoints
    <2>7. x < y
      <3> DEFINE N == Len(scored)
                 a == Earned(p)
                 b == Earned(q)
                 c == Spent(p)
                 d == Spent(q)
      <3>1. /\ a \in Int /\ b \in Int /\ a < b /\ c \in Int /\ d \in Int /\ d <= c
            /\ n \in Nat /\ n > 0 /\ N \in Nat /\ N > 0
        BY <2>3, <2>4
      <3> HIDE DEF K, n, N, a, b, c, d
      <3>2. ((a - 10000 * (c * n)) * N - K) * n < ((b - 10000 * (d * n)) * N - K) * n
        BY <2>5, <3>1, MorePoints
      <3>. QED
        BY <3>2 DEF N, a, b, c, d
    <2>8. x \in Int /\ y \in Int
      <3> HIDE DEF K, n
      <3>1. \A a, c, N, m \in Int : ((a - 10000 * (c * m)) * N - K) * m \in Int
        BY <2>5
      <3>2. Len(scored) \in Int /\ n \in Int
        BY <2>4
      <3>. QED
        BY <2>4, <3>1, <3>2
    <2> HIDE DEF x, y
    <2>9. Score(p, q) >= Score(q, p)
      <3>1. PICK j \in DOMAIN Providers : q = Providers[j]
        BY DEF ToSet
      <3>2. Completed(q) # {}
        BY <2>1
      <3>3. Score(p, q) > Score(q, p) \/ Score(p, q) = Score(q, p)
        <4>1. Score(p, Providers[j]) > Score(Providers[j], p)
              \/ Score(p, Providers[j]) = Score(Providers[j], p)
          BY <3>1, <3>2 DEF Recommended
        <4>. QED
          BY <3>1, <4>1
      <3>4. Score(p, q) \in Int /\ Score(q, p) \in Int
        BY <2>6, <2>8, Zenon
      <3>. QED
        BY <3>3, <3>4
    <2>. QED
      BY <2>6, <2>7, <2>8, <2>9
  <1>. QED
    BY <1>1, <1>2

-----------------------------------------------------------------------------
(* Rates and averages, rounded half up.                                            *)
LEMMA DivBounds ==
    ASSUME NEW x \in Int, NEW d \in Nat, d > 0
    PROVE  x \div d \in Int /\ d * (x \div d) <= x /\ x < d * ((x \div d) + 1)
  <1>1. x = d * (x \div d) + (x % d) /\ x % d \in 0..(d - 1)
    OBVIOUS
  <1>2. x \div d \in Int
    OBVIOUS
  <1>. QED
    BY <1>1, <1>2

LEMMA DivCompares ==
    ASSUME NEW x \in Int, NEW d \in Nat, d > 0, NEW k \in Int
    PROVE  (d * k <= x => k <= x \div d) /\ (x < d * (k + 1) => x \div d <= k)
  <1> DEFINE h == x \div d
  <1>1. h \in Int /\ d * h <= x /\ x < d * (h + 1) /\ d * k \in Int /\ d * (k + 1) \in Int
        /\ d * h \in Int /\ d * (h + 1) \in Int
    BY DivBounds
  <1> HIDE DEF h
  <1>2. ASSUME d * k <= x, h < k PROVE FALSE
    <2>1. (h + 1) * d <= k * d
      BY <1>1, <1>2, TimesGrows
    <2>2. d * (h + 1) <= d * k
      BY <1>1, <2>1
    <2>. QED
      BY <1>1, <1>2, <2>2
  <1>3. ASSUME x < d * (k + 1), k < h PROVE FALSE
    <2>1. (k + 1) * d <= h * d
      BY <1>1, <1>3, TimesGrows
    <2>2. d * (k + 1) <= d * h
      BY <1>1, <2>1
    <2>. QED
      BY <1>1, <1>3, <2>2
  <1>. QED
    BY <1>1, <1>2, <1>3 DEF h

LEMMA HalfUpCompares ==
    ASSUME NEW n \in Int, NEW d \in Nat, d > 0, NEW k \in Int
    PROVE  /\ HalfUp(n, d) \in Int
           /\ (2 * (d * k) <= 2 * n + d => k <= HalfUp(n, d))
           /\ (2 * n + d < 2 * (d * k) + 2 * d => HalfUp(n, d) <= k)
  <1> DEFINE x == 2 * n + d
             e == 2 * d
  <1>1. x \in Int /\ e \in Nat /\ e > 0 /\ HalfUp(n, d) = x \div e
    BY DEF HalfUp
  <1>2. e * k = 2 * (d * k) /\ e * (k + 1) = 2 * (d * k) + 2 * d
    OBVIOUS
  <1>3. 2 * n + d = x /\ 2 * d = e
    OBVIOUS
  <1> HIDE DEF x, e
  <1>4. /\ x \div e \in Int /\ (e * k <= x => k <= x \div e) /\ (x < e * (k + 1) => x \div e <= k)
    BY <1>1, DivBounds, DivCompares
  <1>. QED
    BY <1>1, <1>2, <1>3, <1>4

LEMMA HalfUpGrows ==
    ASSUME NEW n \in Int, NEW m \in Int, n <= m, NEW d \in Nat, d > 0
    PROVE  HalfUp(n, d) <= HalfUp(m, d)
  <1> DEFINE h == HalfUp(n, d)
  <1>1. h \in Int
    BY HalfUpCompares
  <1>2. 2 * (d * h) <= 2 * n + d
    <2>1. h = (2 * n + d) \div (2 * d)
      BY DEF HalfUp
    <2>2. (2 * d) * ((2 * n + d) \div (2 * d)) <= 2 * n + d
      BY DivBounds
    <2> HIDE DEF h
    <2>3. (2 * d) * h <= 2 * n + d
      BY <2>1, <2>2
    <2>. QED
      BY <1>1, <2>3
  <1> HIDE DEF h
  <1>3. 2 * (d * h) <= 2 * m + d
    <2> DEFINE x == d * h
    <2>1. x \in Int /\ 2 * x <= 2 * n + d
      BY <1>1, <1>2
    <2> HIDE DEF x
    <2>2. 2 * x <= 2 * m + d
      BY <2>1
    <2>. QED
      BY <2>2 DEF x
  <1>4. h <= HalfUp(m, d)
    BY <1>1, <1>3, HalfUpCompares
  <1>. QED
    BY <1>4 DEF h

LEMMA HalfUpExact ==
    ASSUME NEW k \in Int, NEW d \in Nat, d > 0
    PROVE  HalfUp(d * k, d) = k
  <1> DEFINE n == d * k
  <1>1. n \in Int
    OBVIOUS
  <1>2. 2 * (d * k) <= 2 * n + d /\ 2 * n + d < 2 * (d * k) + 2 * d
    <2>1. d * k = n
      OBVIOUS
    <2> HIDE DEF n
    <2>. QED
      BY <1>1, <2>1
  <1> HIDE DEF n
  <1>3. HalfUp(n, d) \in Int /\ k <= HalfUp(n, d) /\ HalfUp(n, d) <= k
    BY <1>1, <1>2, HalfUpCompares
  <1>. QED
    BY <1>3 DEF n

LEMMA WholeNumber == Whole \in Nat /\ Whole > 0
  BY SMT DEF Whole

LEMMA RatioRounds ==
    ASSUME NEW a \in Nat, NEW b \in Nat, a <= b
    PROVE  /\ ratio(a, b) \in 0..Whole
           /\ (a = 0 => ratio(a, b) = 0)
           /\ (a = b /\ b > 0 => ratio(a, b) = Whole)
           /\ (b < 2 * Whole /\ a > 0 => ratio(a, b) > 0)
           /\ (b < 2 * Whole /\ a < b => ratio(a, b) < Whole)
  <1>0. Whole \in Nat /\ Whole > 0
    BY WholeNumber
  <1>1. CASE b = 0
    BY <1>0, <1>1 DEF ratio
  <1>2. CASE b > 0
    <2> DEFINE n == Whole * a
    <2>1. n \in Int /\ ratio(a, b) = HalfUp(n, b)
      BY <1>0, <1>2 DEF ratio
    <2>2. n = Whole * a
      OBVIOUS
    <2> HIDE DEF n
    <2>3. /\ HalfUp(n, b) \in Int
          /\ (2 * (b * 0) <= 2 * n + b => 0 <= HalfUp(n, b))
          /\ (2 * (b * 1) <= 2 * n + b => 1 <= HalfUp(n, b))
          /\ (2 * (b * Whole) <= 2 * n + b => Whole <= HalfUp(n, b))
      BY <1>0, <1>2, <2>1, HalfUpCompares
    <2>4. /\ (2 * n + b < 2 * (b * 0) + 2 * b => HalfUp(n, b) <= 0)
          /\ (2 * n + b < 2 * (b * (Whole - 1)) + 2 * b => HalfUp(n, b) <= (Whole - 1))
          /\ (2 * n + b < 2 * (b * Whole) + 2 * b => HalfUp(n, b) <= Whole)
      <3>1. Whole - 1 \in Int /\ Whole \in Int
        BY <1>0
      <3>2. \A k \in Int : 2 * n + b < 2 * (b * k) + 2 * b => HalfUp(n, b) <= k
        BY <1>2, <2>1, HalfUpCompares
      <3>. QED
        BY <3>1, <3>2
    <2> DEFINE h == HalfUp(n, b)
    <2> HIDE DEF h
    <2>5. /\ h \in Int /\ h \in 0..Whole
          /\ (a = 0 => h = 0) /\ (a = b => h = Whole)
          /\ (b < 2 * Whole /\ a > 0 => h > 0)
          /\ (b < 2 * Whole /\ a < b => h < Whole)
      <3>1. /\ h \in Int /\ (0 <= 2 * n + b => 0 <= h) /\ (2 * b <= 2 * n + b => 1 <= h)
            /\ (2 * n + b < 2 * b => h <= 0)
        BY <2>1, <2>3, <2>4 DEF h
      <3>2. (2000000 * b <= 2 * n + b => 1000000 <= h)
        BY SMT, <2>1, <2>3 DEF h, Whole
      <3>3. /\ (2 * n + b < 2000000 * b => h <= 999999)
            /\ (2 * n + b < 2000000 * b + 2 * b => h <= 1000000)
        BY SMT, <2>1, <2>4 DEF h, Whole
      <3>4. n \in Int /\ n = 1000000 * a /\ a \in Int /\ b \in Int /\ 0 <= a /\ a <= b /\ 0 < b
        BY SMT, <1>2, <2>1, <2>2 DEF Whole
      <3>5. 0 <= h /\ h <= 1000000
        BY SMT, <3>1, <3>3, <3>4
      <3>6. /\ (a = 0 => h = 0) /\ (a = b => h = 1000000)
            /\ (b < 2000000 /\ a > 0 => h > 0)
            /\ (b < 2000000 /\ a < b => h < 1000000)
        BY SMT, <3>1, <3>2, <3>3, <3>4, <3>5
      <3>. QED
        <4>1. /\ 0 <= h /\ h <= Whole /\ (a = b => h = Whole)
              /\ (b < 2 * Whole /\ a > 0 => h > 0) /\ (b < 2 * Whole /\ a < b => h < Whole)
          BY SMT, <3>1, <3>5, <3>6 DEF Whole
        <4>2. a = 0 => h = 0
          BY SMT, <3>6
        <4>. QED
          BY <1>0, <3>1, <4>1, <4>2
    <2>. QED
      BY <2>1, <2>5 DEF h
  <1>. QED
    BY <1>1, <1>2

LEMMA RatioGrows ==
    ASSUME NEW a \in Nat, NEW c \in Nat, NEW b \in Nat, a <= c
    PROVE  ratio(a, b) <= ratio(c, b)
  <1>1. CASE b = 0
    BY <1>1 DEF ratio
  <1>2. CASE b > 0
    <2> DEFINE n == Whole * a
               m == Whole * c
    <2>1. n \in Int /\ m \in Int /\ n <= m
      BY WholeNumber
    <2>2. ratio(a, b) = HalfUp(n, b) /\ ratio(c, b) = HalfUp(m, b)
      BY <1>2 DEF ratio
    <2> HIDE DEF n, m
    <2>. QED
      BY <1>2, <2>1, <2>2, HalfUpGrows
  <1>. QED
    BY <1>1, <1>2

-----------------------------------------------------------------------------
(* What is shown of the impact of tasks.                                            *)
TaskRows == [impact : Impacts, feedback : Feedback \cup {None}]

LEMMA ImpactTyped ==
    ASSUME NEW x \in Impacts, x # None
    PROVE  /\ x.accepted \in {"YES", "NO", "UNKNOWN"}
           /\ (x.first => x.accepted = "YES")
           /\ x.automation_rate \in 0..Whole
  <1>1. PICK e \in Evidence : Valid(e) /\ x = ImpactOf(e)
    BY DEF Impacts
  <1>2. e.automated \in Nat /\ e.before \in Nat /\ e.accepted \in {"YES", "NO", "UNKNOWN"}
    <2>1. /\ {e.manual, e.duration, e.before, e.automated, e.editing, e.rework, e.errors} \subseteq Nat
          /\ e.accepted \in {"YES", "NO", "UNKNOWN"}
      BY ScoresAssumption, Zenon
    <2>2. e.automated \in Nat /\ e.before \in Nat
      BY <2>1, Zenon
    <2>. QED
      BY <2>1, <2>2, Zenon
  <1>3. /\ x.accepted = e.accepted /\ x.first = e.first
        /\ x.automation_rate = IF e.automated >= e.before /\ e.automated > 0 THEN Whole
                               ELSE ratio(e.automated, e.before)
    BY <1>1 DEF ImpactOf
  <1>4. x.first => x.accepted = "YES"
    BY <1>1, <1>3 DEF Valid
  <1>5. x.automation_rate \in 0..Whole
    <2>1. CASE e.automated >= e.before /\ e.automated > 0
      BY <1>3, <2>1, WholeNumber
    <2>2. CASE ~(e.automated >= e.before /\ e.automated > 0)
      <3>1. e.automated <= e.before
        BY <1>2, <2>2
      <3>2. ratio(e.automated, e.before) \in 0..Whole
        BY <1>2, <3>1, RatioRounds
      <3>. QED
        BY <1>3, <2>2, <3>2
    <2>. QED
      BY <2>1, <2>2
  <1>. QED
    BY <1>2, <1>3, <1>4, <1>5

ImpactsOf(d) == {i \in Given("impact") : d \in {Whatever, scored[i]["impact"].department}}

KnownOf(d) == {i \in ImpactsOf(d) : scored[i]["impact"].accepted # "UNKNOWN"}

AcceptedOf(d) == {i \in KnownOf(d) : scored[i]["impact"].accepted = "YES"}

FirstOf(d) == {i \in KnownOf(d) : scored[i]["impact"].first}

AutomatedOf(d) == [i \in ImpactsOf(d) |-> scored[i]["impact"].automation_rate]

Ratings == [i \in Given("feedback") |-> scored[i]["feedback"].rating]

LEMMA AnalyticsFields ==
    ASSUME NEW d, NEW v, v = Analytics(d)
    PROVE  /\ v.impacts = ImpactsOf(d)
           /\ v.human_acceptance_rate = ratio(Cardinality(AcceptedOf(d)), Cardinality(KnownOf(d)))
           /\ v.first_pass_rate = ratio(Cardinality(FirstOf(d)), Cardinality(KnownOf(d)))
           /\ v.automation = SumFunctionOnSet(AutomatedOf(d), ImpactsOf(d))
           /\ (ImpactsOf(d) = {} => /\ v.technical_success_rate = 0 /\ v.revision_rate = 0
                                   /\ v.error_rate = 0)
           /\ v.satisfaction = IF Cardinality(Given("feedback")) = 0 THEN 0
                               ELSE HalfUp(100 * SumFunctionOnSet(Ratings, Given("feedback")),
                                           Cardinality(Given("feedback")))
  <1> DEFINE impacts == {i \in Given("impact") :
                            d \in {Whatever, scored[i]["impact"].department}}
             of == [i \in impacts |-> scored[i]["impact"]]
             known == {i \in impacts : of[i].accepted # "UNKNOWN"}
             said == [i \in Given("feedback") |-> scored[i]["feedback"]]
             n == Cardinality(impacts)
             m == Cardinality(DOMAIN said)
  <1>1. /\ v.impacts = impacts
        /\ v.human_acceptance_rate
             = ratio(Cardinality({i \in known : of[i].accepted = "YES"}), Cardinality(known))
        /\ v.first_pass_rate = ratio(Cardinality({i \in known : of[i].first}), Cardinality(known))
        /\ v.automation = SumFunction([i \in impacts |-> of[i].automation_rate])
        /\ v.technical_success_rate = ratio(n, n)
        /\ v.revision_rate = ratio(Cardinality({i \in impacts : of[i].rework > 0}), n)
        /\ v.error_rate = ratio(Cardinality({i \in impacts : of[i].errors > 0}), n)
        /\ v.satisfaction = IF m = 0 THEN 0
                            ELSE HalfUp(100 * SumFunction([i \in DOMAIN said |-> said[i].rating]), m)
    BY DEF Analytics
  <1>2. impacts = ImpactsOf(d) /\ \A i \in impacts : of[i] = scored[i]["impact"]
    BY DEF ImpactsOf
  <1>3. DOMAIN said = Given("feedback") /\ \A i \in DOMAIN said : said[i] = scored[i]["feedback"]
    OBVIOUS
  <1> HIDE DEF impacts, of, said
  <1>4. known = KnownOf(d)
    BY <1>2 DEF KnownOf
  <1>5. {i \in known : of[i].accepted = "YES"} = AcceptedOf(d)
    BY <1>2, <1>4 DEF AcceptedOf
  <1>6. {i \in known : of[i].first} = FirstOf(d)
    BY <1>2, <1>4 DEF FirstOf
  <1>7. [i \in impacts |-> of[i].automation_rate] = AutomatedOf(d)
    BY <1>2 DEF AutomatedOf
  <1>8. SumFunction(AutomatedOf(d)) = SumFunctionOnSet(AutomatedOf(d), ImpactsOf(d))
    BY DEF SumFunction, AutomatedOf
  <1>9. [i \in DOMAIN said |-> said[i].rating] = Ratings
    BY <1>3 DEF Ratings
  <1>10. SumFunction(Ratings) = SumFunctionOnSet(Ratings, Given("feedback"))
    BY DEF SumFunction, Ratings
  <1>11. ASSUME ImpactsOf(d) = {}
         PROVE  /\ v.technical_success_rate = 0 /\ v.revision_rate = 0 /\ v.error_rate = 0
    <2>1. n = 0
      BY <1>2, <1>11, FS_EmptySet
    <2>2. \A c : ratio(c, 0) = 0
      BY DEF ratio
    <2>. QED
      BY <1>1, <2>1, <2>2
  <1> HIDE DEF known
  <1>. QED
    BY <1>1, <1>2, <1>3, <1>4, <1>5, <1>6, <1>7, <1>8, <1>9, <1>10, <1>11

LEMMA AnalyticsCounts ==
    ASSUME scored \in Seq(TaskRows), NEW d
    PROVE  /\ IsFiniteSet(ImpactsOf(d)) /\ IsFiniteSet(Given("feedback"))
           /\ Cardinality(ImpactsOf(d)) \in Nat /\ Cardinality(Given("feedback")) \in Nat
           /\ Cardinality(KnownOf(d)) \in Nat /\ Cardinality(KnownOf(d)) <= Cardinality(ImpactsOf(d))
           /\ Cardinality(AcceptedOf(d)) \in Nat /\ Cardinality(FirstOf(d)) \in Nat
           /\ Cardinality(FirstOf(d)) <= Cardinality(AcceptedOf(d))
           /\ Cardinality(AcceptedOf(d)) <= Cardinality(KnownOf(d))
           /\ (AcceptedOf(d) # {} <=> Cardinality(AcceptedOf(d)) > 0)
           /\ (KnownOf(d) # {} <=> Cardinality(KnownOf(d)) > 0)
           /\ (AcceptedOf(d) # KnownOf(d) => Cardinality(AcceptedOf(d)) < Cardinality(KnownOf(d)))
           /\ \A i \in ImpactsOf(d) : /\ i \in DOMAIN scored
                                      /\ scored[i]["impact"].accepted \in {"YES", "NO", "UNKNOWN"}
                                      /\ scored[i]["impact"].automation_rate \in 0..Whole
           /\ \A i \in Given("feedback") : /\ i \in DOMAIN scored
                                          /\ scored[i]["feedback"] \in Feedback
                                          /\ scored[i]["feedback"] # None
  <1>1. IsFiniteSet(DOMAIN scored)
    BY CasesFinite
  <1>2. ASSUME NEW i \in ImpactsOf(d)
        PROVE  /\ i \in DOMAIN scored
               /\ scored[i]["impact"].accepted \in {"YES", "NO", "UNKNOWN"}
               /\ (scored[i]["impact"].first => scored[i]["impact"].accepted = "YES")
               /\ scored[i]["impact"].automation_rate \in 0..Whole
    <2>1. i \in DOMAIN scored /\ scored[i]["impact"] # None
      BY DEF ImpactsOf, Given
    <2>2. scored[i] \in TaskRows
      BY <2>1
    <2>3. scored[i]["impact"] \in Impacts
      BY <2>2 DEF TaskRows
    <2>. QED
      BY <2>1, <2>3, ImpactTyped
  <1>3. ASSUME NEW i \in Given("feedback")
        PROVE  i \in DOMAIN scored /\ scored[i]["feedback"] \in Feedback /\ scored[i]["feedback"] # None
    <2>1. i \in DOMAIN scored /\ scored[i]["feedback"] # None
      BY DEF Given
    <2>2. scored[i] \in TaskRows
      BY <2>1
    <2>3. scored[i]["feedback"] \in Feedback \cup {None}
      BY <2>2 DEF TaskRows
    <2>. QED
      BY <2>1, <2>3
  <1>4. /\ ImpactsOf(d) \subseteq DOMAIN scored /\ Given("feedback") \subseteq DOMAIN scored
        /\ KnownOf(d) \subseteq ImpactsOf(d) /\ AcceptedOf(d) \subseteq KnownOf(d)
    BY <1>2, <1>3 DEF KnownOf, AcceptedOf
  <1>5. FirstOf(d) \subseteq AcceptedOf(d)
    BY <1>2 DEF FirstOf, AcceptedOf, KnownOf
  <1>6. /\ IsFiniteSet(ImpactsOf(d)) /\ IsFiniteSet(Given("feedback"))
        /\ Cardinality(ImpactsOf(d)) \in Nat /\ Cardinality(Given("feedback")) \in Nat
    BY <1>1, <1>4, FS_Subset, FS_CardinalityType
  <1>7. /\ IsFiniteSet(KnownOf(d)) /\ Cardinality(KnownOf(d)) \in Nat
        /\ Cardinality(KnownOf(d)) <= Cardinality(ImpactsOf(d))
    BY <1>4, <1>6, FS_Subset, FS_CardinalityType
  <1>8. /\ IsFiniteSet(AcceptedOf(d)) /\ Cardinality(AcceptedOf(d)) \in Nat
        /\ Cardinality(AcceptedOf(d)) <= Cardinality(KnownOf(d))
        /\ (AcceptedOf(d) # KnownOf(d) => Cardinality(AcceptedOf(d)) < Cardinality(KnownOf(d)))
    BY <1>4, <1>7, FS_Subset, FS_CardinalityType
  <1>9. /\ IsFiniteSet(FirstOf(d)) /\ Cardinality(FirstOf(d)) \in Nat
        /\ Cardinality(FirstOf(d)) <= Cardinality(AcceptedOf(d))
    BY <1>5, <1>8, FS_Subset, FS_CardinalityType
  <1>10. (AcceptedOf(d) # {} <=> Cardinality(AcceptedOf(d)) > 0)
         /\ (KnownOf(d) # {} <=> Cardinality(KnownOf(d)) > 0)
    BY <1>7, <1>8, FS_EmptySet
  <1>. QED
    BY <1>2, <1>3, <1>6, <1>7, <1>8, <1>9, <1>10

(* The average lies between some rating and some rating.                             *)
LEMMA AverageBetween ==
    ASSUME NEW S, IsFiniteSet(S), Cardinality(S) > 0, NEW f, \A i \in S : f[i] \in Int,
           NEW h, h = HalfUp(100 * SumFunctionOnSet(f, S), Cardinality(S))
    PROVE  (\E i \in S : 100 * f[i] <= h) /\ (\E i \in S : h <= 100 * f[i])
  <1> DEFINE n == Cardinality(S)
             sum == SumFunctionOnSet(f, S)
             Constant(k) == [i \in S |-> k]
  <1>1. n \in Nat /\ n > 0 /\ sum \in Int
    BY FS_CardinalityType, SumInt
  <1>2. h \in Int
    <2> DEFINE x == 100 * sum
    <2>1. x \in Int /\ 0 \in Int /\ h = HalfUp(x, n)
      BY <1>1
    <2> HIDE DEF x, n
    <2>2. HalfUp(x, n) \in Int
      BY <1>1, <2>1, HalfUpCompares
    <2>. QED
      BY <2>1, <2>2
  <1>3. \A k \in Int : SumFunctionOnSet(Constant(k), S) = k * n
    BY SumConstant
  <1>4. \A k \in Int : HalfUp(n * (100 * k), n) = 100 * k
    <2> SUFFICES ASSUME NEW k \in Int PROVE HalfUp(n * (100 * k), n) = 100 * k
      OBVIOUS
    <2> DEFINE c == 100 * k
    <2>1. c \in Int
      OBVIOUS
    <2> HIDE DEF c, n
    <2>2. HalfUp(n * c, n) = c
      BY <1>1, <2>1, HalfUpExact
    <2>. QED
      BY <2>2 DEF c
  <1>5. \A k \in Int : \A i \in S : Constant(k)[i] = k
    OBVIOUS
  <1> HIDE DEF n, sum, Constant
  <1>6. ASSUME \A i \in S : ~(100 * f[i] <= h) PROVE FALSE
    <2> DEFINE k == (h \div 100) + 1
    <2>1. k \in Int /\ h < 100 * k /\ \A x \in Int : ~(100 * x <= h) => k <= x
      BY <1>2
    <2> HIDE DEF k
    <2>2. \A i \in S : Constant(k)[i] \in Int /\ f[i] \in Int /\ Constant(k)[i] <= f[i]
      BY <1>5, <1>6, <2>1
    <2>3. SumFunctionOnSet(Constant(k), S) <= sum
      BY <2>2, SumMonotone DEF sum
    <2>4. k * n <= sum
      BY <1>3, <2>1, <2>3
    <2>5. n * (100 * k) <= 100 * sum /\ n * (100 * k) \in Int /\ 100 * sum \in Int
      <3> DEFINE x == k * n
      <3>1. n * (100 * k) = 100 * x /\ x \in Int
        BY <1>1, <2>1
      <3>2. x <= sum
        BY <2>4
      <3> HIDE DEF x
      <3>. QED
        BY <1>1, <3>1, <3>2
    <2>6. HalfUp(n * (100 * k), n) <= HalfUp(100 * sum, n)
      BY <1>1, <2>5, HalfUpGrows
    <2>7. HalfUp(n * (100 * k), n) = 100 * k /\ HalfUp(100 * sum, n) = h
      BY <1>4, <2>1 DEF n, sum
    <2>. QED
      BY <1>2, <2>1, <2>6, <2>7
  <1>7. ASSUME \A i \in S : ~(h <= 100 * f[i]) PROVE FALSE
    <2> DEFINE k == (h - 1) \div 100
    <2>1. k \in Int /\ 100 * k < h /\ \A x \in Int : ~(h <= 100 * x) => x <= k
      BY <1>2
    <2> HIDE DEF k
    <2>2. \A i \in S : Constant(k)[i] \in Int /\ f[i] \in Int /\ f[i] <= Constant(k)[i]
      BY <1>5, <1>7, <2>1
    <2>3. sum <= SumFunctionOnSet(Constant(k), S)
      BY <2>2, SumMonotone DEF sum
    <2>4. sum <= k * n
      BY <1>3, <2>1, <2>3
    <2>5. 100 * sum <= n * (100 * k) /\ n * (100 * k) \in Int /\ 100 * sum \in Int
      <3> DEFINE x == k * n
      <3>1. n * (100 * k) = 100 * x /\ x \in Int
        BY <1>1, <2>1
      <3>2. sum <= x
        BY <2>4
      <3> HIDE DEF x
      <3>. QED
        BY <1>1, <3>1, <3>2
    <2>6. HalfUp(100 * sum, n) <= HalfUp(n * (100 * k), n)
      BY <1>1, <2>5, HalfUpGrows
    <2>7. HalfUp(n * (100 * k), n) = 100 * k /\ HalfUp(100 * sum, n) = h
      BY <1>4, <2>1 DEF n, sum
    <2>. QED
      BY <1>2, <2>1, <2>6, <2>7
  <1>. QED
    BY <1>6, <1>7

(* What is shown of the impact agrees with itself.                                  *)
LEMMA AnalyticsIsFair ==
    ASSUME scored \in Seq(TaskRows), NEW d, NEW v, v = Analytics(d)
    PROVE  AnalyticsAgree(v)
  <1> DEFINE says(what) == \E i \in v.impacts : scored[i]["impact"].accepted = what
             rated == {scored[i]["feedback"] : i \in DOMAIN scored} \ {None}
             a == Cardinality(AcceptedOf(d))
             b == Cardinality(KnownOf(d))
             c == Cardinality(FirstOf(d))
             n == Cardinality(ImpactsOf(d))
  <1>1. /\ v.impacts = ImpactsOf(d)
        /\ v.human_acceptance_rate = ratio(a, b) /\ v.first_pass_rate = ratio(c, b)
        /\ v.automation = SumFunctionOnSet(AutomatedOf(d), ImpactsOf(d))
    BY AnalyticsFields
  <1>2. ImpactsOf(d) = {} => /\ v.technical_success_rate = 0 /\ v.revision_rate = 0
                            /\ v.error_rate = 0
    BY AnalyticsFields
  <1>3. /\ a \in Nat /\ b \in Nat /\ c \in Nat /\ n \in Nat /\ c <= a /\ a <= b /\ b <= n
        /\ (AcceptedOf(d) # {} <=> a > 0) /\ (KnownOf(d) # {} <=> b > 0)
        /\ (AcceptedOf(d) # KnownOf(d) => a < b)
        /\ IsFiniteSet(ImpactsOf(d))
    BY AnalyticsCounts
  <1>4. \A i \in ImpactsOf(d) : /\ scored[i]["impact"].accepted \in {"YES", "NO", "UNKNOWN"}
                                /\ scored[i]["impact"].automation_rate \in 0..Whole
    BY AnalyticsCounts
  <1>5. says("YES") <=> AcceptedOf(d) # {}
    BY <1>1 DEF AcceptedOf, KnownOf
  <1>6. says("NO") <=> AcceptedOf(d) # KnownOf(d)
    BY <1>1, <1>4 DEF AcceptedOf, KnownOf
  <1>7. AcceptedOf(d) # {} => KnownOf(d) # {}
    BY DEF AcceptedOf
  <1>8. \A f : (f \in rated) <=> \E i \in Given("feedback") : scored[i]["feedback"] = f
    BY DEF Given
  <1>9. /\ ratio(a, b) \in 0..Whole /\ (a = 0 => ratio(a, b) = 0)
        /\ (a = b /\ b > 0 => ratio(a, b) = Whole)
        /\ (b < 2 * Whole /\ a > 0 => ratio(a, b) > 0)
        /\ (b < 2 * Whole /\ a < b => ratio(a, b) < Whole)
    <2> HIDE DEF a, b
    <2>. QED
      BY <1>3, RatioRounds
  <1>10. ratio(c, b) <= ratio(a, b)
    <2> HIDE DEF a, b, c
    <2>. QED
      BY <1>3, RatioGrows
  <1>11. v.automation \in 0..(Whole * n)
    <2> DEFINE S == ImpactsOf(d)
               most == [i \in S |-> Whole]
    <2>1. \A i \in S : AutomatedOf(d)[i] \in Nat /\ AutomatedOf(d)[i] \in Int
                      /\ AutomatedOf(d)[i] <= most[i] /\ most[i] = Whole /\ most[i] \in Int
      BY <1>4, WholeNumber DEF AutomatedOf
    <2>2. SumFunctionOnSet(AutomatedOf(d), S) \in Nat
      BY <1>3, <2>1, SumNonNegative
    <2>3. SumFunctionOnSet(AutomatedOf(d), S) <= SumFunctionOnSet(most, S)
      <3> HIDE DEF most
      <3>. QED
        BY <1>3, <2>1, SumMonotone
    <2>4. SumFunctionOnSet(most, S) = Whole * Cardinality(S)
      <3> HIDE DEF most
      <3>. QED
        BY <1>3, <2>1, SumConstant, WholeNumber
    <2> DEFINE x == SumFunctionOnSet(AutomatedOf(d), S)
    <2>5. x \in Nat /\ x <= Whole * n /\ v.automation = x
      BY <1>1, <2>2, <2>3, <2>4
    <2> HIDE DEF x, n
    <2>. QED
      BY <1>3, <2>5
  <1>12. IF rated = {} THEN v.satisfaction = 0
         ELSE \E low, high \in rated : /\ 100 * low.rating <= v.satisfaction
                                       /\ v.satisfaction <= 100 * high.rating
    <2> DEFINE S == Given("feedback")
               m == Cardinality(S)
    <2>1. /\ IsFiniteSet(S) /\ m \in Nat
          /\ \A i \in S : scored[i]["feedback"] \in Feedback
      BY AnalyticsCounts
    <2>2. v.satisfaction = IF m = 0 THEN 0 ELSE HalfUp(100 * SumFunctionOnSet(Ratings, S), m)
      BY AnalyticsFields
    <2>3. \A i \in S : Ratings[i] = scored[i]["feedback"].rating /\ Ratings[i] \in Int
      BY <2>1, ScoresAssumption DEF Ratings
    <2>4. m = 0 <=> S = {}
      BY <2>1, FS_EmptySet
    <2>5. rated = {} <=> S = {}
      <3> HIDE DEF rated
      <3>. QED
        BY <1>8
    <2>6. CASE S = {}
      BY <2>2, <2>4, <2>5, <2>6
    <2>7. CASE S # {}
      <3>1. m > 0 /\ v.satisfaction = HalfUp(100 * SumFunctionOnSet(Ratings, S), m)
        BY <2>1, <2>2, <2>4, <2>7
      <3>2. (\E i \in S : 100 * Ratings[i] <= v.satisfaction)
            /\ (\E i \in S : v.satisfaction <= 100 * Ratings[i])
        <4> DEFINE h == v.satisfaction
        <4>1. h = HalfUp(100 * SumFunctionOnSet(Ratings, S), Cardinality(S))
          BY <3>1
        <4> HIDE DEF h, S
        <4>2. (\E i \in S : 100 * Ratings[i] <= h) /\ (\E i \in S : h <= 100 * Ratings[i])
          BY <2>1, <2>3, <3>1, <4>1, AverageBetween DEF m
        <4>. QED
          BY <4>2 DEF h
      <3>3. PICK i \in S : 100 * Ratings[i] <= v.satisfaction
        BY <3>2
      <3>4. PICK j \in S : v.satisfaction <= 100 * Ratings[j]
        BY <3>2
      <3> HIDE DEF rated
      <3>5. scored[i]["feedback"] \in rated /\ scored[j]["feedback"] \in rated
        BY <1>8
      <3>6. /\ 100 * scored[i]["feedback"].rating <= v.satisfaction
            /\ v.satisfaction <= 100 * scored[j]["feedback"].rating
        BY <2>3, <3>3, <3>4
      <3>. QED
        BY <2>5, <2>7, <3>5, <3>6
    <2>. QED
      BY <2>6, <2>7
  <1>13. v.first_pass_rate <= v.human_acceptance_rate
    BY <1>1, <1>10
  <1> DEFINE h == v.human_acceptance_rate
  <1> HIDE DEF a, b, c, n, says, rated, h
  <1>18. h \in Int /\ h = ratio(a, b) /\ 0 <= h
    BY <1>1, <1>9 DEF h
  <1>14. (h > 0 => says("YES")) /\ (says("YES") /\ ~says("NO") => h = Whole)
    <2>1. CASE a = 0
      <3>1. h = 0 /\ ~says("YES")
        BY <1>3, <1>5, <1>9, <1>18, <2>1
      <3>. QED
        BY <3>1
    <2>2. CASE a > 0
      <3>1. says("YES") /\ b > 0
        BY <1>3, <1>5, <2>2
      <3>2. ~says("NO") => a = b
        BY <1>6 DEF a, b
      <3>. QED
        BY <1>9, <1>18, <3>1, <3>2
    <2>. QED
      BY <1>3, <2>1, <2>2
  <1>15. n < 2 * Whole => (says("YES") => h > 0) /\ (says("NO") => h < Whole)
    BY <1>1, <1>3, <1>5, <1>6, <1>7, <1>9, WholeNumber DEF h
  <1>16. Cardinality(v.impacts) = n
    BY <1>1 DEF n
  <1>17. \A rate \in {v.technical_success_rate, v.revision_rate, v.error_rate} :
            v.impacts = {} => rate = 0
    BY <1>1, <1>2
  <1>. QED
    BY <1>11, <1>12, <1>13, <1>14, <1>15, <1>16, <1>17 DEF AnalyticsAgree, h, says, rated

-----------------------------------------------------------------------------
LEMMA ScoresInvInit == ServicesInit => ScoresInv
  <1>1. ASSUME ServicesInit PROVE ScoresInv
    <2>1. scored = <<>> /\ verdict.kind \in {"none", "idle"}
          /\ (subject \in {"evaluation", "experiment", "comparison", "impact"}
              \/ (subject = "idle" /\ verdict.kind = "idle"))
      BY <1>1 DEF ServicesInit, ScoresInit, ScoresIdle, None
    <2>2. VerdictsAreFair
      BY <2>1 DEF VerdictsAreFair
    <2>. QED
      BY <2>1, <2>2 DEF ScoresInv
  <1>. QED
    BY <1>1

LEMMA VerdictKeeps ==
    ASSUME scored \in Seq(CaseRows), Verdict
    PROVE  VerdictsAreFair'
  <1>0. scored' = scored
    BY DEF Verdict
  <1>1. CASE subject = "evaluation"
    <2>1. verdict' = [kind |-> "gate", passed |-> passes_regression_gate(RowsOf("suite"))]
      BY <1>1 DEF Verdict
    <2>2. verdict'.kind = "gate" /\ verdict'.passed = passes_regression_gate(RowsOf("suite"))
      <3> DEFINE x == passes_regression_gate(RowsOf("suite"))
      <3>1. verdict' = [kind |-> "gate", passed |-> x]
        BY <2>1
      <3> HIDE DEF x
      <3>2. verdict'.kind = "gate" /\ verdict'.passed = x
        BY <3>1
      <3>. QED
        BY <3>2 DEF x
    <2>3. verdict'.passed => /\ scored' # <<>>
                            /\ \A i \in DOMAIN scored' : scored'[i]["suite"] \in Perfect
      BY <1>0, <1>1, <2>2, GatePassesPerfect
    <2>. QED
      BY <2>2, <2>3 DEF VerdictsAreFair
  <1>2. CASE subject = "experiment"
    <2> DEFINE x == choose_winner(RowsOf("control"), RowsOf("candidate"))
    <2>1. verdict' = [kind |-> "winner", who |-> x]
      BY <1>2 DEF Verdict
    <2> HIDE DEF x
    <2>2. verdict'.kind = "winner" /\ verdict'.who = x
      BY <2>1
    <2>3. scored \in Seq([{"control", "candidate"} -> Row])
      BY <1>2 DEF CaseRows
    <2>4. ASSUME NEW p \in {"control", "candidate"}, NEW q \in {"control", "candidate"},
                 p # q, p = x
          PROVE  ~Everywhere(q, p)'
      <3>1. ~Everywhere(q, p)
        BY <2>3, <2>4, WinnerIsFair DEF x
      <3>. QED
        BY <1>0, <3>1 DEF Everywhere
    <2>. QED
      BY <2>2, <2>4 DEF VerdictsAreFair
  <1>3. CASE subject = "comparison"
    <2>1. scored \in Seq([ToSet(Providers) -> Row])
      BY <1>3 DEF CaseRows
    <2>2. CASE verdict' = [kind |-> "error"]
      BY <2>2 DEF VerdictsAreFair
    <2>3. ASSUME NEW p \in ToSet(Providers), Recommended(p),
                 verdict' = [kind |-> "recommended", who |-> p]
          PROVE  VerdictsAreFair'
      <3>1. verdict'.kind = "recommended" /\ verdict'.who = p
        BY <2>3
      <3>2. \E i \in DOMAIN scored' : scored'[i][p].completed
        BY <1>0, <2>1, <2>3, RecommendedIsFair
      <3>3. ASSUME NEW q \in ToSet(Providers) \ {p},
                   \A i \in DOMAIN scored' : scored'[i][q].completed = scored'[i][p].completed,
                   Everywhere(q, p)',
                   NEW k \in DOMAIN scored', scored'[k][q].completed,
                   scored'[k][q].latency < scored'[k][p].latency
            PROVE  FALSE
        <4>1. Everywhere(q, p)
          BY <1>0, <3>3 DEF Everywhere
        <4>. QED
          BY <1>0, <2>1, <2>3, <3>3, <4>1, RecommendedIsFair
      <3>. QED
        BY <3>1, <3>2, <3>3 DEF VerdictsAreFair
    <2>. QED
      BY <1>3, <2>2, <2>3 DEF Verdict
  <1>4. CASE subject = "impact"
    <2>1. PICK d : verdict' = Analytics(d)
      BY <1>4 DEF Verdict
    <2>2. scored \in Seq(TaskRows)
      BY <1>4 DEF CaseRows, TaskRows
    <2>3. AnalyticsAgree(verdict')
      BY <2>1, <2>2, AnalyticsIsFair
    <2>4. AnalyticsAgree(verdict)'
      BY <1>0, <2>3, Zenon DEF AnalyticsAgree
    <2>5. verdict'.kind = "analytics"
      BY <2>1 DEF Analytics
    <2>. QED
      BY <2>4, <2>5 DEF VerdictsAreFair
  <1>. QED
    BY <1>1, <1>2, <1>3, <1>4 DEF Verdict

LEMMA ScoresInvNext == ScoresInv /\ [ServicesNext]_servicesVars => ScoresInv'
  <1> SUFFICES ASSUME ScoresInv, [ServicesNext]_servicesVars PROVE ScoresInv'
    OBVIOUS
  <1>1. /\ scored \in Seq(CaseRows) /\ VerdictsAreFair
        /\ (subject \in {"evaluation", "experiment", "comparison", "impact"}
            \/ (subject = "idle" /\ verdict.kind = "idle"))
    BY DEF ScoresInv
  <1>9. ASSUME verdict = None
        PROVE  subject \in {"evaluation", "experiment", "comparison", "impact"}
    BY <1>1, <1>9 DEF None
  <1>2. ASSUME verdict' = None
        PROVE  VerdictsAreFair'
    <2>1. verdict'.kind = "none"
      BY <1>2 DEF None
    <2>. QED
      BY <2>1 DEF VerdictsAreFair
  <1>3. CASE ScoreCase
    <2>1. subject # "impact" /\ verdict' = None /\ subject' = subject
          /\ subject \in {"evaluation", "experiment", "comparison"}
      BY <1>3, <1>9 DEF ScoreCase
    <2>2. PICK x \in [ToSet(Participants) ->
                        IF subject = "evaluation" THEN {CaseScored(a) : a \in Actual} \cup {CaseError}
                        ELSE Row] : scored' = Append(scored, x)
      BY <1>3 DEF ScoreCase
    <2>3. x \in CaseRows
      <3>1. CASE subject = "evaluation"
        <4>1. ToSet(Participants) = {"suite"}
          BY <3>1 DEF ToSet, Participants
        <4>. QED
          BY <2>2, <3>1, <4>1 DEF CaseRows
      <3>2. CASE subject = "experiment"
        <4>1. ToSet(Participants) = {"control", "candidate"}
          BY <3>2 DEF ToSet, Participants
        <4>. QED
          BY <2>2, <3>2, <4>1 DEF CaseRows
      <3>3. CASE subject = "comparison"
        <4>1. Participants = Providers
          BY <3>3 DEF Participants
        <4>. QED
          BY <2>2, <3>3, <4>1 DEF CaseRows
      <3>. QED
        BY <2>1, <3>1, <3>2, <3>3
    <2>4. CaseRows' = CaseRows
      BY <2>1 DEF CaseRows
    <2>5. scored' \in Seq(CaseRows')
      BY <1>1, <2>2, <2>3, <2>4
    <2>. QED
      BY <1>2, <2>1, <2>5 DEF ScoresInv
  <1>4. CASE RecordTask
    <2>1. subject = "impact" /\ verdict' = None /\ subject' = subject
      BY <1>4 DEF RecordTask
    <2>2. PICK i \in Impacts, f \in Feedback \cup {None} :
              scored' = Append(scored, [impact |-> i, feedback |-> f])
      BY <1>4 DEF RecordTask, Impacts
    <2>3. [impact |-> i, feedback |-> f] \in CaseRows
      BY <2>1 DEF CaseRows
    <2>4. CaseRows' = CaseRows
      BY <2>1 DEF CaseRows
    <2>5. scored' \in Seq(CaseRows')
      BY <1>1, <2>2, <2>3, <2>4
    <2>. QED
      BY <1>2, <2>1, <2>5 DEF ScoresInv
  <1>5. CASE Verdict
    <2>1. verdict = None /\ subject' = subject /\ scored' = scored
      BY <1>5 DEF Verdict
    <2>2. CaseRows' = CaseRows
      BY <2>1 DEF CaseRows
    <2>3. VerdictsAreFair'
      BY <1>1, <1>5, VerdictKeeps
    <2>4. subject' \in {"evaluation", "experiment", "comparison", "impact"}
      BY <1>9, <2>1
    <2>. QED
      BY <1>1, <2>1, <2>2, <2>3, <2>4 DEF ScoresInv
  <1>6. CASE UNCHANGED scoreVars
    <2>1. subject' = subject /\ scored' = scored /\ verdict' = verdict
      BY <1>6 DEF scoreVars
    <2>2. CaseRows' = CaseRows
      BY <2>1 DEF CaseRows
    <2>3. \A p, q : Everywhere(p, q)' <=> Everywhere(p, q)
      BY <2>1 DEF Everywhere
    <2>4. AnalyticsAgree(verdict)' <=> AnalyticsAgree(verdict)
      BY <2>1 DEF AnalyticsAgree
    <2>5. VerdictsAreFair'
      BY <1>1, <2>1, <2>3, <2>4 DEF VerdictsAreFair
    <2>. QED
      BY <1>1, <2>1, <2>2, <2>5 DEF ScoresInv
  <1>. QED
    BY <1>3, <1>4, <1>5, <1>6 DEF ServicesNext, servicesVars, ScoresStep

(* What is made of recorded cases is fair: the gate, an experiment's winner, the        *)
(* provider that is recommended, and the impact that is shown (VerdictsAreFair), for     *)
(* every number of cases and every rows they leave.                                *)
THEOREM VerdictsFair == ServicesSpec => []VerdictsAreFair
  <1>1. ScoresInv => VerdictsAreFair
    BY DEF ScoresInv
  <1>. QED
    BY <1>1, ScoresInvInit, ScoresInvNext, PTL DEF ServicesSpec

-----------------------------------------------------------------------------
(* Reports on a file.  First what rounding half up keeps of an order.                *)

LEMMA MicroNumber == Micro \in Nat /\ Micro > 0
  BY SMT DEF Micro

LEMMA DivideOut ==
    ASSUME NEW d \in Nat, d > 0, NEW x \in Int, NEW y \in Int, d * x <= d * y
    PROVE  x <= y
  <1>1. ASSUME y < x PROVE FALSE
    <2>1. y * d < x * d
      BY <1>1, TimesGrowsStrictly
    <2>2. y * d = d * y /\ x * d = d * x /\ d * x \in Int /\ d * y \in Int
      OBVIOUS
    <2> DEFINE p == d * x
               q == d * y
    <2>3. p \in Int /\ q \in Int /\ p <= q /\ q < p
      BY <2>1, <2>2
    <2> HIDE DEF p, q
    <2>. QED
      BY <2>3
  <1>. QED
    BY <1>1

LEMMA HalfUpIsBelow ==
    ASSUME NEW n \in Int, NEW d \in Nat, d > 0
    PROVE  HalfUp(n, d) \in Int /\ 2 * (d * HalfUp(n, d)) <= 2 * n + d
  <1> DEFINE h == HalfUp(n, d)
  <1>1. h = (2 * n + d) \div (2 * d)
    BY DEF HalfUp
  <1>2. (2 * d) * ((2 * n + d) \div (2 * d)) <= 2 * n + d
    BY DivBounds
  <1>3. h \in Int
    BY HalfUpCompares
  <1> HIDE DEF h
  <1>4. (2 * d) * h <= 2 * n + d
    BY <1>1, <1>2
  <1>5. 2 * (d * h) <= 2 * n + d
    BY <1>3, <1>4
  <1>. QED
    BY <1>3, <1>5 DEF h

LEMMA CrossAlgebra ==
    ASSUME NEW n \in Int, NEW m \in Int, NEW d \in Int, NEW e \in Int, NEW h \in Int
    PROVE  /\ e * (2 * (d * h)) = d * (2 * (e * h))
           /\ e * (2 * n + d) = 2 * (n * e) + d * e
           /\ d * (2 * m + e) = 2 * (m * d) + d * e
  BY SMTT(20)

(* A larger fraction is not rounded to less.                                      *)
LEMMA HalfUpCrosses ==
    ASSUME NEW n \in Int, NEW m \in Int, NEW d \in Nat, d > 0, NEW e \in Nat, e > 0,
           n * e <= m * d
    PROVE  HalfUp(n, d) <= HalfUp(m, e)
  <1> DEFINE h == HalfUp(n, d)
  <1>1. h \in Int /\ 2 * (d * h) <= 2 * n + d
    BY HalfUpIsBelow
  <1> HIDE DEF h
  <1> DEFINE p == 2 * (d * h)
             q == 2 * n + d
             r == 2 * (e * h)
             s == 2 * m + e
  <1>2. p \in Int /\ q \in Int /\ r \in Int /\ s \in Int /\ p <= q
    BY <1>1
  <1>3. e * p = d * r /\ e * q = 2 * (n * e) + d * e /\ d * s = 2 * (m * d) + d * e
    BY <1>1, CrossAlgebra
  <1>4. e * q <= d * s
    <2> DEFINE a == n * e
               b == m * d
               c == d * e
    <2>1. a \in Int /\ b \in Int /\ c \in Int /\ a <= b
      OBVIOUS
    <2>2. e * q = 2 * a + c /\ d * s = 2 * b + c
      BY <1>3
    <2> HIDE DEF a, b, c, q, s
    <2>. QED
      BY <2>1, <2>2
  <1>5. s = 2 * m + e /\ r = 2 * (e * h)
    OBVIOUS
  <1> HIDE DEF p, q, r, s
  <1>6. e * p <= e * q
    <2>1. p * e <= q * e
      BY <1>2, TimesGrows
    <2>. QED
      BY <1>2, <2>1
  <1>7. d * r <= d * s
    <2>1. e * p \in Int /\ e * q \in Int /\ d * s \in Int /\ d * r \in Int
      BY <1>2
    <2>. QED
      BY <1>3, <1>4, <1>6, <2>1
  <1>8. r <= s
    BY <1>2, <1>7, DivideOut
  <1>9. h <= HalfUp(m, e)
    BY <1>1, <1>5, <1>8, HalfUpCompares
  <1>. QED
    BY <1>9 DEF h

LEMMA RoundedIsHalfUp ==
    ASSUME NEW n \in Int, NEW d \in Nat, d > 0
    PROVE  /\ n >= 0 => Rounded(n, d) = HalfUp(n * Micro, d)
           /\ n < 0 => Rounded(n, d) = -HalfUp((-n) * Micro, d)
           /\ Rounded(n, d) \in Int
  <1>0. Micro \in Nat
    BY MicroNumber
  <1>1. \A k \in Int : (2 * k) * Micro = 2 * (k * Micro)
    BY <1>0
  <1>2. n >= 0 => Abs(n) = n
    BY DEF Abs
  <1>3. n < 0 => Abs(n) = -n
    BY DEF Abs
  <1>4. n >= 0 => Rounded(n, d) = HalfUp(n * Micro, d)
    BY <1>1, <1>2 DEF Rounded, HalfUp
  <1>5. n < 0 => Rounded(n, d) = -HalfUp((-n) * Micro, d)
    <2>1. -n \in Int
      OBVIOUS
    <2>. QED
      BY <1>1, <1>3, <2>1 DEF Rounded, HalfUp
  <1>6. /\ n * Micro \in Int /\ (-n) * Micro \in Int
    BY <1>0
  <1>7. HalfUp(n * Micro, d) \in Int /\ HalfUp((-n) * Micro, d) \in Int
    BY <1>6, HalfUpIsBelow
  <1>8. Rounded(n, d) \in Int
    BY <1>4, <1>5, <1>7
  <1>. QED
    BY <1>4, <1>5, <1>8

LEMMA ScaledCross ==
    ASSUME NEW n \in Int, NEW m \in Int, NEW d \in Int, NEW e \in Int, NEW u \in Nat, n * e <= m * d
    PROVE  (n * u) * e <= (m * u) * d
  <1> DEFINE a == n * e
             b == m * d
  <1>1. a \in Int /\ b \in Int /\ a <= b
    OBVIOUS
  <1>2. (n * u) * e = a * u /\ (m * u) * d = b * u
    BY SMTT(20)
  <1> HIDE DEF a, b
  <1>3. a * u <= b * u
    BY <1>1, TimesGrows
  <1>. QED
    BY <1>2, <1>3

(* A larger rate is not shown as less, below zero either.                            *)
LEMMA RoundedCrosses ==
    ASSUME NEW n \in Int, NEW m \in Int, NEW d \in Nat, d > 0, NEW e \in Nat, e > 0,
           n * e <= m * d
    PROVE  Rounded(n, d) <= Rounded(m, e)
  <1>0. Micro \in Nat
    BY MicroNumber
  <1>1. CASE n >= 0
    <2>1. m >= 0
      <3> SUFFICES ASSUME m < 0 PROVE FALSE
        OBVIOUS
      <3>1. m * d < 0 /\ n * e >= 0
        BY <1>1, SMTT(20)
      <3>. QED
        BY <3>1
    <2>2. (n * Micro) * e <= (m * Micro) * d
      BY <1>0, ScaledCross
    <2>3. n * Micro \in Int /\ m * Micro \in Int
      BY <1>0
    <2>4. HalfUp(n * Micro, d) <= HalfUp(m * Micro, e)
      BY <2>2, <2>3, HalfUpCrosses
    <2>. QED
      BY <1>1, <2>1, <2>4, RoundedIsHalfUp
  <1>2. CASE n < 0 /\ m >= 0
    <2>1. HalfUp((-n) * Micro, d) >= 0 /\ HalfUp(m * Micro, e) >= 0
      <3>1. ASSUME NEW k \in Int, k >= 0, NEW c \in Nat, c > 0 PROVE HalfUp(k * Micro, c) >= 0
        <4> DEFINE x == k * Micro
        <4>1. x \in Int /\ x >= 0
          BY <1>0, <3>1, SMTT(20)
        <4> HIDE DEF x
        <4>2. 2 * (c * 0) <= 2 * x + c
          BY <3>1, <4>1
        <4>3. 0 <= HalfUp(x, c) /\ HalfUp(x, c) \in Int
          BY <3>1, <4>1, <4>2, HalfUpCompares
        <4>. QED
          BY <4>3 DEF x
      <3>2. -n \in Int /\ -n >= 0
        BY <1>2
      <3>. QED
        BY <1>2, <3>1, <3>2
    <2>2. /\ HalfUp((-n) * Micro, d) \in Int /\ HalfUp(m * Micro, e) \in Int
      <3>1. (-n) * Micro \in Int /\ m * Micro \in Int
        BY <1>0
      <3>. QED
        BY <3>1, HalfUpIsBelow
    <2>3. Rounded(n, d) = -HalfUp((-n) * Micro, d) /\ Rounded(m, e) = HalfUp(m * Micro, e)
      BY <1>2, RoundedIsHalfUp
    <2> DEFINE a == HalfUp((-n) * Micro, d)
               b == HalfUp(m * Micro, e)
    <2>4. a \in Int /\ b \in Int /\ a >= 0 /\ b >= 0 /\ Rounded(n, d) = -a /\ Rounded(m, e) = b
      BY <2>1, <2>2, <2>3
    <2> HIDE DEF a, b
    <2>. QED
      BY <2>4
  <1>3. CASE n < 0 /\ m < 0
    <2> DEFINE p == -n
               q == -m
    <2>1. p \in Int /\ q \in Int
      OBVIOUS
    <2>2. q * d <= p * e
      <3>1. q * d = -(m * d) /\ p * e = -(n * e) /\ m * d \in Int /\ n * e \in Int
        OBVIOUS
      <3>. QED
        BY <3>1
    <2>3. Rounded(n, d) = -HalfUp(p * Micro, d) /\ Rounded(m, e) = -HalfUp(q * Micro, e)
      BY <1>3, RoundedIsHalfUp
    <2> HIDE DEF p, q
    <2>4. (q * Micro) * d <= (p * Micro) * e
      BY <1>0, <2>1, <2>2, ScaledCross
    <2>5. p * Micro \in Int /\ q * Micro \in Int
      BY <1>0, <2>1
    <2>6. HalfUp(q * Micro, e) <= HalfUp(p * Micro, d)
      BY <2>4, <2>5, HalfUpCrosses
    <2>7. HalfUp(q * Micro, e) \in Int /\ HalfUp(p * Micro, d) \in Int
      BY <2>5, HalfUpIsBelow
    <2>. QED
      BY <2>3, <2>6, <2>7
  <1>. QED
    BY <1>1, <1>2, <1>3

-----------------------------------------------------------------------------
(* All cells are of their columns, and a report is of rows that parsed.               *)
CellsOK == \A i \in DOMAIN rows, c \in columns : c \in DOMAIN rows[i] /\ rows[i][c] \in Cell(c)
Parsed == \A i \in DOMAIN rows, c \in columns : rows[i][c] # NotANumber

RowsOK ==
    /\ rows \in Seq([columns -> UNION {Cell(c) : c \in columns}])
    /\ CellsOK

CsvInv ==
    /\ RowsOK
    /\ csvPhase = "reported" =>
         /\ rows # <<>> /\ Parsed
         /\ report.metrics = Metrics(rows, DOMAIN rows)
         /\ report.segments = Segments(rows)
         /\ report.anomalies = Anomalies(rows)

(* Figures of the same rows of the same columns are the same.                         *)
LEMMA SameFigures ==
    ASSUME UNCHANGED <<columns, rows>>
    PROVE  /\ Metrics(rows, DOMAIN rows)' = Metrics(rows, DOMAIN rows)
           /\ Segments(rows)' = Segments(rows)
           /\ Anomalies(rows)' = Anomalies(rows)
  <1>1. Metrics(rows, DOMAIN rows)' = Metrics(rows, DOMAIN rows)
    BY DEF Metrics
  <1>2. SegmentColumn' = SegmentColumn
    BY DEF SegmentColumn
  <1>3. Segments(rows)' = Segments(rows)
    BY <1>2, Zenon DEF Segments, SegmentOf
  <1>4. Anomalies(rows)' = Anomalies(rows)
    BY Zenon DEF Anomalies
  <1>. QED
    BY <1>1, <1>3, <1>4

LEMMA CsvInvInit == ServicesInit => CsvInv
  <1> SUFFICES ASSUME ServicesInit PROVE CsvInv
    OBVIOUS
  <1>1. rows = <<>> /\ csvPhase # "reported"
    BY DEF ServicesInit, CsvInit, CsvIdle
  <1>. QED
    BY <1>1 DEF CsvInv, RowsOK, CellsOK

LEMMA CsvInvNext == CsvInv /\ [ServicesNext]_servicesVars => CsvInv'
  <1> SUFFICES ASSUME CsvInv, [ServicesNext]_servicesVars PROVE CsvInv'
    OBVIOUS
  <1>1. CASE UNCHANGED csvVars
    <2>1. UNCHANGED <<columns, rows>> /\ UNCHANGED <<csvPhase, report>>
      BY <1>1 DEF csvVars
    <2>2. RowsOK' /\ (Parsed => Parsed')
      BY <2>1 DEF CsvInv, RowsOK, CellsOK, Parsed
    <2>. QED
      BY <2>1, <2>2, SameFigures DEF CsvInv
  <1>2. CASE CsvFails /\ csvPhase = "reading"
    <2>1. UNCHANGED <<columns, rows>> /\ csvPhase' # "reported"
      BY <1>2 DEF CsvFails
    <2>. QED
      BY <2>1 DEF CsvInv, RowsOK, CellsOK
  <1>3. ASSUME csvPhase = "reading", NEW r \in [columns -> UNION {Cell(c) : c \in columns}],
               \A c \in columns : r[c] \in Cell(c), rows' = Append(rows, r),
               UNCHANGED <<columns, csvPhase, report>>
        PROVE  CsvInv'
    <2>1. rows \in Seq([columns -> UNION {Cell(c) : c \in columns}]) /\ CellsOK
      BY DEF CsvInv, RowsOK
    <2>2. /\ rows' \in Seq([columns -> UNION {Cell(c) : c \in columns}])
          /\ \A i \in DOMAIN rows' : (i \in DOMAIN rows /\ rows'[i] = rows[i]) \/ rows'[i] = r
      BY <1>3, <2>1
    <2>3. CellsOK'
      BY <1>3, <2>1, <2>2 DEF CellsOK
    <2>. QED
      BY <1>3, <2>2, <2>3 DEF CsvInv, RowsOK
  <1>4. ASSUME csvPhase = "reading",
               ~(rows = <<>> \/ \E i \in DOMAIN rows, c \in columns : rows[i][c] = NotANumber),
               report' = [metrics |-> Metrics(rows, DOMAIN rows), segments |-> Segments(rows),
                          anomalies |-> Anomalies(rows), trends |-> Trends(rows),
                          quality |-> Quality(rows)],
               UNCHANGED <<columns, rows>>
        PROVE  CsvInv'
    <2>1. RowsOK' /\ Parsed' /\ rows' # <<>>
      BY <1>4 DEF CsvInv, RowsOK, CellsOK, Parsed
    <2>2. /\ report'.metrics = Metrics(rows, DOMAIN rows)
          /\ report'.segments = Segments(rows)
          /\ report'.anomalies = Anomalies(rows)
      BY <1>4
    <2>3. /\ Metrics(rows, DOMAIN rows)' = Metrics(rows, DOMAIN rows)
          /\ Segments(rows)' = Segments(rows)
          /\ Anomalies(rows)' = Anomalies(rows)
      BY <1>4, SameFigures
    <2>. QED
      BY <2>1, <2>2, <2>3 DEF CsvInv
  <1>5. CASE CsvStep
    <2>1. CASE ReadRow
      <3>1. csvPhase = "reading"
        BY <2>1 DEF ReadRow
      <3>2. CASE CsvFails
        BY <1>2, <3>1, <3>2
      <3>3. CASE ~CsvFails
        BY <1>3, <2>1, <3>3 DEF ReadRow
      <3>. QED
        BY <3>2, <3>3
    <2>2. CASE Report
      <3>1. csvPhase = "reading"
        BY <2>2 DEF Report
      <3>2. CASE CsvFails
        BY <1>2, <3>1, <3>2
      <3>3. CASE ~CsvFails
        BY <1>4, <2>2, <3>3 DEF Report
      <3>. QED
        BY <3>2, <3>3
    <2>. QED
      BY <1>5, <2>1, <2>2 DEF CsvStep
  <1>. QED
    BY <1>1, <1>5 DEF ServicesNext, servicesVars

-----------------------------------------------------------------------------
(* The numbers of a column.                                                      *)
LEMMA RowIndices ==
    ASSUME CsvInv
    PROVE  /\ Len(rows) \in Nat /\ DOMAIN rows = 1..Len(rows)
           /\ IsFiniteSet(DOMAIN rows) /\ Cardinality(DOMAIN rows) = Len(rows)
  <1>1. Len(rows) \in Nat /\ DOMAIN rows = 1..Len(rows)
    BY DEF CsvInv, RowsOK
  <1>2. IsFiniteSet(1..Len(rows)) /\ Cardinality(1..Len(rows)) = Len(rows)
    <2> DEFINE n == Len(rows)
    <2>1. 1 \in Int /\ n \in Int
      BY <1>1
    <2> HIDE DEF n
    <2>2. IsFiniteSet(1..n) /\ Cardinality(1..n) = IF 1 > n THEN 0 ELSE n - 1 + 1
      BY <2>1, FS_Interval
    <2>3. n \in Nat
      BY <1>1 DEF n
    <2>4. Cardinality(1..n) = n
      BY <2>2, <2>3
    <2>. QED
      BY <2>2, <2>4 DEF n
  <1>. QED
    BY <1>1, <1>2

LEMMA NumbersOfColumn ==
    ASSUME CsvInv, Parsed, NEW c \in NumericColumns, NEW ix \in SUBSET DOMAIN rows
    PROVE  /\ IsFiniteSet(Valued(rows, ix, c)) /\ Valued(rows, ix, c) \subseteq ix
           /\ DOMAIN Column(rows, ix, c) = Valued(rows, ix, c)
           /\ \A i \in Valued(rows, ix, c) :
                 Column(rows, ix, c)[i] = rows[i][c] /\ rows[i][c] \in Int
  <1>1. Valued(rows, ix, c) \subseteq ix /\ Valued(rows, ix, c) \subseteq DOMAIN rows
    BY DEF Valued
  <1>2. IsFiniteSet(Valued(rows, ix, c))
    BY <1>1, RowIndices, FS_Subset
  <1>3. \A i \in Valued(rows, ix, c) : rows[i][c] \in Int
    <2> SUFFICES ASSUME NEW i \in Valued(rows, ix, c) PROVE rows[i][c] \in Int
      OBVIOUS
    <2>1. i \in DOMAIN rows /\ c \in DOMAIN rows[i] /\ rows[i][c] # Missing
      BY <1>1 DEF Valued
    <2>2. rows[i] \in [columns -> UNION {Cell(k) : k \in columns}]
      BY <2>1 DEF CsvInv, RowsOK
    <2>3. c \in columns
      BY <2>1, <2>2
    <2>4. rows[i][c] \in Cell(c) /\ rows[i][c] # NotANumber
      BY <2>1, <2>3 DEF CsvInv, RowsOK, CellsOK, Parsed
    <2>5. Cell(c) = Number \cup {Missing, NotANumber}
      BY DEF Cell
    <2>. QED
      BY <2>1, <2>4, <2>5, CsvAssumption
  <1>. QED
    BY <1>1, <1>2, <1>3 DEF Column

(* A sum is missing where there is no number.                                      *)
LEMMA SumOfColumn ==
    ASSUME CsvInv, Parsed, NEW c \in NumericColumns, NEW ix \in SUBSET DOMAIN rows
    PROVE  /\ Sum(rows, ix, c) = Missing <=> Valued(rows, ix, c) = {}
           /\ Valued(rows, ix, c) # {} =>
                /\ Sum(rows, ix, c) \in Int
                /\ Sum(rows, ix, c)
                   = SumFunctionOnSet(Column(rows, ix, c), Valued(rows, ix, c))
  <1> DEFINE V == Valued(rows, ix, c)
             f == Column(rows, ix, c)
  <1>1. IsFiniteSet(V) /\ DOMAIN f = V /\ \A i \in V : f[i] \in Int
    BY NumbersOfColumn
  <1>2. Sum(rows, ix, c) = IF V = {} THEN Missing ELSE SumFunction(f)
    BY DEF Sum
  <1> HIDE DEF V, f
  <1>3. SumFunction(f) = SumFunctionOnSet(f, V) /\ SumFunctionOnSet(f, V) \in Int
    BY <1>1, SumInt DEF SumFunction
  <1>4. V # {} => Sum(rows, ix, c) \in Int /\ Sum(rows, ix, c) = SumFunctionOnSet(f, V)
    BY <1>2, <1>3
  <1>5. Sum(rows, ix, c) = Missing <=> V = {}
    BY <1>2, <1>4, CsvAssumption
  <1>. QED
    BY <1>4, <1>5 DEF V, f

-----------------------------------------------------------------------------
(* Each row is in one segment.                                                    *)
Named == {SegmentOf(rows[i]) : i \in DOMAIN rows}
In(s) == {i \in DOMAIN rows : SegmentOf(rows[i]) = s}

LEMMA SegmentsAre ==
    ASSUME SegmentColumn # Missing
    PROVE  /\ DOMAIN Segments(rows) = Named
           /\ \A s \in Named : Segments(rows)[s] = Metrics(rows, In(s))
  BY DEF Segments, Named, In

LEMMA NamedIsFinite ==
    ASSUME CsvInv
    PROVE  /\ IsFiniteSet(Named) /\ (rows # <<>> => Named # {})
           /\ \A s : In(s) \in SUBSET DOMAIN rows
           /\ \A i \in DOMAIN rows : SegmentOf(rows[i]) \in Named
  <1> DEFINE f == [i \in DOMAIN rows |-> SegmentOf(rows[i])]
  <1>1. Named = {f[i] : i \in DOMAIN rows}
    BY DEF Named
  <1>2. f \in Surjection(DOMAIN rows, Named)
    BY DEF Named, Surjection
  <1>3. IsFiniteSet(Named)
    BY <1>2, RowIndices, FS_Surjection
  <1>4. rows # <<>> => Named # {}
    <2>1. rows # <<>> => 1 \in DOMAIN rows
      BY DEF CsvInv, RowsOK
    <2>. QED
      BY <2>1 DEF Named
  <1>. QED
    BY <1>3, <1>4 DEF Named, In

LEMMA SegmentRowsAddUp ==
    ASSUME CsvInv, NEW g, \A s \in Named : g[s] = Cardinality(In(s))
    PROVE  SumFunctionOnSet(g, Named) = Len(rows)
  <1> DEFINE I == DOMAIN rows
             f == [i \in I |-> 1]
             part == [i \in I |-> SegmentOf(rows[i])]
  <1>1. IsFiniteSet(I) /\ IsFiniteSet(Named) /\ part \in [I -> Named]
    BY RowIndices, NamedIsFinite
  <1>2. \A s : {i \in I : part[i] = s} = In(s)
    BY DEF In
  <1>3. \A i \in I : f[i] = 1
    OBVIOUS
  <1>4. \A s \in Named : g[s] = SumFunctionOnSet(f, {i \in I : part[i] = s})
    <2> SUFFICES ASSUME NEW s \in Named PROVE g[s] = SumFunctionOnSet(f, In(s))
      BY <1>2
    <2>1. IsFiniteSet(In(s)) /\ \A i \in In(s) : f[i] = 1
      BY <1>1, <1>3, FS_Subset DEF In
    <2> HIDE DEF f
    <2>2. SumFunctionOnSet(f, In(s)) = 1 * Cardinality(In(s)) /\ Cardinality(In(s)) \in Nat
      BY <2>1, SumConstant, FS_CardinalityType
    <2>. QED
      BY <2>2
  <1> HIDE DEF f, part
  <1>5. SumFunctionOnSet(g, Named) = SumFunctionOnSet(f, I)
    <2>1. \A i \in I : f[i] \in Int
      BY <1>3
    <2> DEFINE J == Named
    <2>2. /\ IsFiniteSet(I) /\ IsFiniteSet(J) /\ part \in [I -> J]
          /\ \A s \in J : g[s] = SumFunctionOnSet(f, {i \in I : part[i] = s})
      BY <1>1, <1>4
    <2> HIDE DEF I, J
    <2>3. SumFunctionOnSet(g, J) = SumFunctionOnSet(f, I)
      BY <2>1, <2>2, SumParts
    <2>. QED
      BY <2>3 DEF J
  <1>6. SumFunctionOnSet(f, I) = 1 * Cardinality(I)
    BY <1>1, <1>3, SumConstant
  <1>. QED
    BY <1>5, <1>6, RowIndices

(* A column's sum is that of the segments that have one.                           *)
LEMMA SegmentSumsAddUp ==
    ASSUME CsvInv, Parsed, NEW c \in NumericColumns,
           NEW J, J = {s \in Named : Sum(rows, In(s), c) # Missing},
           NEW g, \A s \in J : g[s] = Sum(rows, In(s), c)
    PROVE  /\ Sum(rows, DOMAIN rows, c) = Missing <=> J = {}
           /\ J # {} => Sum(rows, DOMAIN rows, c) = SumFunctionOnSet(g, J)
           /\ \A s \in J : g[s] \in Int
  <1> DEFINE V == Valued(rows, DOMAIN rows, c)
             f == Column(rows, DOMAIN rows, c)
             part == [i \in V |-> SegmentOf(rows[i])]
             W(s) == Valued(rows, In(s), c)
  <1>1. IsFiniteSet(V) /\ V \subseteq DOMAIN rows
        /\ \A i \in V : f[i] = rows[i][c] /\ f[i] \in Int
    BY NumbersOfColumn
  <1>2. \A s : W(s) = {i \in V : part[i] = s}
    BY DEF In, Valued
  <1>3. \A s : /\ (Sum(rows, In(s), c) = Missing <=> W(s) = {})
               /\ W(s) # {} => /\ Sum(rows, In(s), c) \in Int
                               /\ Sum(rows, In(s), c)
                                  = SumFunctionOnSet(Column(rows, In(s), c), W(s))
    BY NamedIsFinite, SumOfColumn
  <1>4. \A s : SumFunctionOnSet(Column(rows, In(s), c), W(s)) = SumFunctionOnSet(f, W(s))
    <2> SUFFICES ASSUME NEW s
                 PROVE  SumFunctionOnSet(Column(rows, In(s), c), W(s)) = SumFunctionOnSet(f, W(s))
      OBVIOUS
    <2> DEFINE h == Column(rows, In(s), c)
    <2>1. In(s) \in SUBSET DOMAIN rows
      BY NamedIsFinite
    <2>2. /\ IsFiniteSet(W(s))
          /\ \A i \in W(s) : h[i] = rows[i][c] /\ rows[i][c] \in Int
      BY <2>1, NumbersOfColumn
    <2>3. W(s) \subseteq V
      BY <1>2
    <2> HIDE DEF W, V, f, h
    <2>4. \A i \in W(s) : h[i] \in Int /\ f[i] = h[i]
      BY <1>1, <2>2, <2>3
    <2>5. SumFunctionOnSet(h, W(s)) = SumFunctionOnSet(f, W(s))
      BY <2>2, <2>4, SumSame
    <2>. QED
      BY <2>5 DEF h
  <1>5. IsFiniteSet(J) /\ part \in [V -> J]
    <2>1. \A i \in V : i \in W(SegmentOf(rows[i])) /\ SegmentOf(rows[i]) \in Named
      BY <1>1, <1>2, NamedIsFinite
    <2> HIDE DEF W
    <2>2. \A i \in V : SegmentOf(rows[i]) \in J
      BY <1>3, <2>1
    <2>3. IsFiniteSet(J)
      BY NamedIsFinite, FS_Subset
    <2>. QED
      BY <2>2, <2>3
  <1>6. \A s \in J : W(s) # {}
    BY <1>3
  <1> HIDE DEF W, f
  <1>7. \A s \in J : g[s] = SumFunctionOnSet(f, {i \in V : part[i] = s}) /\ g[s] \in Int
    <2> SUFFICES ASSUME NEW s \in J
                 PROVE  g[s] = SumFunctionOnSet(f, {i \in V : part[i] = s}) /\ g[s] \in Int
      OBVIOUS
    <2>1. g[s] = Sum(rows, In(s), c) /\ W(s) # {} /\ W(s) = {i \in V : part[i] = s}
      BY <1>2, <1>6
    <2> HIDE DEF part, V
    <2>2. g[s] \in Int /\ g[s] = SumFunctionOnSet(f, W(s))
      BY <1>3, <1>4, <2>1
    <2>. QED
      BY <2>1, <2>2
  <1>8. V = {} <=> J = {}
    <2>1. \A i \in V : part[i] \in J
      BY <1>5
    <2>2. \A s \in J : \E i \in V : TRUE
      BY <1>2, <1>6
    <2>. QED
      BY <2>1, <2>2
  <1>9. SumFunctionOnSet(g, J) = SumFunctionOnSet(f, V)
    <2> HIDE DEF V, part
    <2>. QED
      BY <1>1, <1>5, <1>7, SumParts
  <1>10. /\ (Sum(rows, DOMAIN rows, c) = Missing <=> V = {})
         /\ (V # {} => Sum(rows, DOMAIN rows, c) = SumFunctionOnSet(f, V))
    BY SumOfColumn DEF f
  <1>. QED
    BY <1>7, <1>8, <1>9, <1>10

CtrOf(ix) == Rate(Sum(rows, ix, "clicks"), Sum(rows, ix, "impressions"))

LEMMA RateOf ==
    ASSUME NEW n, NEW d, n # Missing => n \in Int, d # Missing => d \in Int
    PROVE  /\ Rate(n, d) # Missing => n \in Int /\ d \in Nat /\ d > 0
           /\ n \in Int /\ d \in Nat /\ d > 0 => Rate(n, d) = Rounded(n, d)
  <1>1. n \in Int /\ d \in Nat => n # Missing /\ d # Missing
    BY CsvAssumption
  <1>2. Rate(n, d) # Missing => n # Missing /\ d # Missing /\ ~(d <= 0)
    BY DEF Rate
  <1>3. n \in Int /\ d \in Nat /\ d > 0 => Rate(n, d) = Rounded(n, d)
    BY <1>1 DEF Rate
  <1>. QED
    BY <1>2, <1>3

(* The click rate of all rows lies between those of the segments.                     *)
LEMMA RateIsBetween ==
    ASSUME CsvInv, Parsed, rows # <<>>, \A s \in Named : CtrOf(In(s)) # Missing
    PROVE  \E low, high \in Named : /\ CtrOf(In(low)) <= CtrOf(DOMAIN rows)
                                    /\ CtrOf(DOMAIN rows) <= CtrOf(In(high))
  <1> DEFINE J == Named
             n == [s \in J |-> Sum(rows, In(s), "clicks")]
             d == [s \in J |-> Sum(rows, In(s), "impressions")]
             N == Sum(rows, DOMAIN rows, "clicks")
             D == Sum(rows, DOMAIN rows, "impressions")
             rate(s) == CtrOf(In(s))
             all == CtrOf(DOMAIN rows)
  <1>1. "clicks" \in NumericColumns /\ "impressions" \in NumericColumns
    BY DEF NumericColumns
  <1>2. IsFiniteSet(J) /\ J # {}
    BY NamedIsFinite
  <1>3. \A s \in J : n[s] \in Int /\ d[s] \in Nat /\ d[s] > 0 /\ rate(s) = Rounded(n[s], d[s])
    <2> SUFFICES ASSUME NEW s \in J
                 PROVE  /\ n[s] \in Int /\ d[s] \in Nat /\ d[s] > 0
                        /\ rate(s) = Rounded(n[s], d[s])
      OBVIOUS
    <2> DEFINE a == Sum(rows, In(s), "clicks")
               b == Sum(rows, In(s), "impressions")
    <2>1. (a # Missing => a \in Int) /\ (b # Missing => b \in Int)
      BY <1>1, NamedIsFinite, SumOfColumn
    <2>2. Rate(a, b) # Missing /\ rate(s) = Rate(a, b)
      BY DEF CtrOf
    <2>3. n[s] = a /\ d[s] = b
      OBVIOUS
    <2> HIDE DEF a, b, n, d, rate
    <2>. QED
      BY <2>1, <2>2, <2>3, RateOf
  <1>4. /\ \A s \in J : n[s] = Sum(rows, In(s), "clicks") /\ d[s] = Sum(rows, In(s), "impressions")
    OBVIOUS
  <1> HIDE DEF n, d, rate
  <1>5. /\ J = {s \in J : Sum(rows, In(s), "clicks") # Missing}
        /\ J = {s \in J : Sum(rows, In(s), "impressions") # Missing}
    BY <1>3, <1>4, CsvAssumption
  <1>6. N = SumFunctionOnSet(n, J)
    BY <1>1, <1>2, <1>4, <1>5, SegmentSumsAddUp
  <1>7. D = SumFunctionOnSet(d, J)
    BY <1>1, <1>2, <1>4, <1>5, SegmentSumsAddUp
  <1> HIDE DEF J, N, D
  <1>8. N \in Int /\ D \in Nat /\ D > 0
    <2>1. PICK s \in J : TRUE
      BY <1>2
    <2>2. N \in Int
      BY <1>2, <1>3, <1>6, SumInt
    <2>3. D \in Nat /\ d[s] <= D
      BY <1>2, <1>3, <1>7, SumNonNegative
    <2>. QED
      BY <1>3, <2>2, <2>3
  <1>9. all = Rounded(N, D)
    BY <1>8, RateOf DEF CtrOf, N, D
  <1>10. /\ \E s \in J : n[s] * D <= N * d[s]
         /\ \E s \in J : N * d[s] <= n[s] * D
    <2>1. \A s \in J : n[s] \in Int /\ d[s] \in Int
      BY <1>3
    <2>. QED
      BY <1>2, <1>6, <1>7, <2>1, Mediant
  <1> HIDE DEF all
  <1>11. PICK low \in J : n[low] * D <= N * d[low]
    BY <1>10
  <1>12. PICK high \in J : N * d[high] <= n[high] * D
    BY <1>10
  <1>13. rate(low) <= all
    <2>1. Rounded(n[low], d[low]) <= Rounded(N, D)
      BY <1>3, <1>8, <1>11, RoundedCrosses
    <2>. QED
      BY <1>3, <1>9, <2>1
  <1>14. all <= rate(high)
    <2>1. Rounded(N, D) <= Rounded(n[high], d[high])
      BY <1>3, <1>8, <1>12, RoundedCrosses
    <2>. QED
      BY <1>3, <1>9, <2>1
  <1>. QED
    BY <1>13, <1>14 DEF J, rate, all

-----------------------------------------------------------------------------
(* Anomalies.                                                                  *)
LEMMA OddNumbers ==
    ASSUME NEW V, IsFiniteSet(V), NEW f, DOMAIN f = V, \A x \in V : f[x] \in Int
    PROVE  /\ \A x \in V : IsOdd(f, x) => Cardinality(V) >= 6
           /\ \A O \in SUBSET V : O # {} /\ (\A x \in O : IsOdd(f, x))
                                    => 4 * Cardinality(O) < Cardinality(V)
  <1> DEFINE m == Cardinality(V)
             q == Squares(f)
             Y == SumFunctionOnSet(f, V)
             Q == SumFunctionOnSet(q, V)
             e == m * Q - Y * Y
  <1>1. DOMAIN q = V /\ \A x \in V : q[x] = f[x] * f[x]
    BY DEF Squares
  <1>2. SumFunction(f) = Y /\ SumFunction(q) = Q
    BY <1>1 DEF SumFunction
  <1> HIDE DEF q
  <1>3. \A x : IsOdd(f, x) <=> /\ m >= 3 /\ e # 0
                               /\ (m * f[x] - Y) * (m * f[x] - Y) > 4 * e
    BY <1>2 DEF IsOdd, q
  <1>4. e \in Nat
    BY <1>1, SpreadIsNat
  <1>5. m \in Nat /\ Y \in Int
    BY FS_CardinalityType, SumInt
  <1>6. ASSUME NEW x \in V, IsOdd(f, x) PROVE m >= 6
    <2> DEFINE v == (m * f[x] - Y) * (m * f[x] - Y)
    <2>1. v <= (m - 1) * e
      BY <1>1, OneFar
    <2>2. v > 4 * e /\ e # 0
      BY <1>3, <1>6
    <2>3. v \in Int
      BY <1>5
    <2> HIDE DEF v, e, m
    <2>4. e * 4 < e * (m - 1)
      <3>1. (m - 1) * e = e * (m - 1) /\ 4 * e = e * 4 /\ e * (m - 1) \in Int /\ e * 4 \in Int
        BY <1>4, <1>5
      <3>. QED
        BY <2>1, <2>2, <2>3, <3>1
    <2>5. 4 < m - 1
      <3> SUFFICES ASSUME m - 1 <= 4 PROVE FALSE
        BY <1>5
      <3>1. (m - 1) * e <= 4 * e
        BY <1>4, <1>5, TimesGrows
      <3>2. (m - 1) * e = e * (m - 1) /\ 4 * e = e * 4 /\ e * (m - 1) \in Int /\ e * 4 \in Int
        BY <1>4, <1>5
      <3>. QED
        BY <2>4, <3>1, <3>2
    <2>. QED
      BY <1>5, <2>5
  <1>7. ASSUME NEW O \in SUBSET V, O # {}, \A x \in O : IsOdd(f, x)
        PROVE  4 * Cardinality(O) < m
    <2>1. e # 0 /\ \A x \in O : (m * f[x] - Y) * (m * f[x] - Y) > 4 * e
      BY <1>3, <1>7
    <2>. QED
      BY <1>1, <1>7, <2>1, FewFar
  <1>. QED
    BY <1>6, <1>7 DEF m

LEMMA OddRows ==
    ASSUME CsvInv, Parsed, NEW c \in NumericColumns \cap columns
    PROVE  /\ \A i : <<i, c>> \in Anomalies(rows)
                     <=> /\ i \in Valued(rows, DOMAIN rows, c)
                         /\ IsOdd(Column(rows, DOMAIN rows, c), i)
           /\ \A i : <<i, c>> \in Anomalies(rows) => Len(rows) >= 6
           /\ LET odd == {i \in DOMAIN rows : <<i, c>> \in Anomalies(rows)}
              IN odd # {} => 4 * Cardinality(odd) < Cardinality(Valued(rows, DOMAIN rows, c))
  <1> DEFINE V == Valued(rows, DOMAIN rows, c)
             f == Column(rows, DOMAIN rows, c)
             odd == {i \in DOMAIN rows : <<i, c>> \in Anomalies(rows)}
  <1>1. IsFiniteSet(V) /\ V \subseteq DOMAIN rows /\ DOMAIN f = V /\ \A i \in V : f[i] \in Int
    BY NumbersOfColumn
  <1>2. \A i : <<i, c>> \in Anomalies(rows) <=> i \in V /\ IsOdd(f, i)
    BY <1>1 DEF Anomalies
  <1> HIDE DEF V, f
  <1>3. /\ \A i \in V : IsOdd(f, i) => Cardinality(V) >= 6
        /\ \A O \in SUBSET V : O # {} /\ (\A x \in O : IsOdd(f, x))
                                 => 4 * Cardinality(O) < Cardinality(V)
    BY <1>1, OddNumbers
  <1>4. Cardinality(V) <= Len(rows) /\ Cardinality(V) \in Nat /\ Len(rows) \in Nat
    BY <1>1, RowIndices, FS_Subset, FS_CardinalityType
  <1>5. \A i : <<i, c>> \in Anomalies(rows) => Len(rows) >= 6
    BY <1>2, <1>3, <1>4
  <1>6. odd \in SUBSET V /\ \A x \in odd : IsOdd(f, x)
    BY <1>2
  <1>7. odd # {} => 4 * Cardinality(odd) < Cardinality(V)
    BY <1>3, <1>6
  <1>. QED
    BY <1>2, <1>5, <1>7 DEF V, f

(* Each row of a reported file is in one segment: segments' rows and sums add up to the  *)
(* file's, its click rate lies between theirs, and fewer than one value in four of a     *)
(* column of six or more is an anomaly (_segments, _metrics, _rate, _anomalies).          *)
THEOREM ReportsAddUp == ServicesSpec => []ReportAddsUp
  <1>1. CsvInv => ReportAddsUp
    <2> SUFFICES ASSUME CsvInv, csvPhase = "reported" PROVE ReportAddsUp
      BY DEF ReportAddsUp
    <2>1. /\ rows # <<>> /\ Parsed
          /\ report.metrics = Metrics(rows, DOMAIN rows)
          /\ report.segments = Segments(rows)
          /\ report.anomalies = Anomalies(rows)
      BY DEF CsvInv
    <2> DEFINE Summed == {"impressions", "clicks", "spend", "conversions", "revenue"}
    <2>2. /\ DOMAIN report.metrics.sums = Summed
          /\ \A c \in Summed : report.metrics.sums[c] = Sum(rows, DOMAIN rows, c)
          /\ report.metrics.ctr = CtrOf(DOMAIN rows)
      BY <2>1 DEF Metrics, CtrOf
    <2>3. Summed \subseteq NumericColumns
      BY DEF NumericColumns
    <2>4. ASSUME SegmentColumn # Missing
          PROVE  /\ Segmented = Named
                 /\ \A s \in Named :
                       /\ report.segments[s].rows = Cardinality(In(s))
                       /\ \A c \in Summed : report.segments[s].sums[c] = Sum(rows, In(s), c)
                       /\ report.segments[s].ctr = CtrOf(In(s))
      BY <2>1, <2>4, SegmentsAre DEF Segmented, Metrics, CtrOf
    <2> DEFINE RowsAddUp == SumFunction([s \in Segmented |-> report.segments[s].rows]) = Len(rows)
               With(c) == {s \in Segmented : report.segments[s].sums[c] # Missing}
               SumsAddUp(c) == report.metrics.sums[c] =
                 IF With(c) = {} THEN Missing
                 ELSE SumFunction([s \in With(c) |-> report.segments[s].sums[c]])
               Between == (\A s \in Segmented : report.segments[s].ctr # Missing) =>
                 \E low, high \in Segmented :
                     /\ report.segments[low].ctr <= report.metrics.ctr
                     /\ report.metrics.ctr <= report.segments[high].ctr
               Odd(c) == {i \in DOMAIN rows : <<i, c>> \in report.anomalies}
               Few(c) == Odd(c) # {} =>
                           4 * Cardinality(Odd(c)) < Cardinality(Valued(rows, DOMAIN rows, c))
    <2>5. SegmentColumn # Missing => RowsAddUp
      <3> SUFFICES ASSUME SegmentColumn # Missing PROVE RowsAddUp
        OBVIOUS
      <3> DEFINE g == [s \in Segmented |-> report.segments[s].rows]
      <3>1. DOMAIN g = Named /\ \A s \in Named : g[s] = Cardinality(In(s))
        BY <2>4
      <3> HIDE DEF g
      <3>2. SumFunctionOnSet(g, Named) = Len(rows)
        BY <3>1, SegmentRowsAddUp
      <3>3. SumFunction(g) = Len(rows)
        BY <3>1, <3>2 DEF SumFunction
      <3>. QED
        BY <3>3 DEF g
    <2>6. ASSUME SegmentColumn # Missing, NEW c \in Summed PROVE SumsAddUp(c)
      <3> DEFINE J == With(c)
                 g == [s \in With(c) |-> report.segments[s].sums[c]]
                 all == Sum(rows, DOMAIN rows, c)
      <3>1. J = {s \in Named : Sum(rows, In(s), c) # Missing}
        BY <2>4, <2>6
      <3>2. DOMAIN g = J /\ \A s \in J : g[s] = Sum(rows, In(s), c)
        BY <2>4, <2>6
      <3>3. c \in NumericColumns
        BY <2>3
      <3>4. report.metrics.sums[c] = all
        BY <2>2
      <3> HIDE DEF g, J, With, Summed, all
      <3>5. (all = Missing <=> J = {}) /\ (J # {} => all = SumFunctionOnSet(g, J))
        BY <2>1, <3>1, <3>2, <3>3, SegmentSumsAddUp DEF all
      <3>6. all = IF J = {} THEN Missing ELSE SumFunction(g)
        BY <3>2, <3>5 DEF SumFunction
      <3>. QED
        BY <3>4, <3>6 DEF g, J
    <2>7. SegmentColumn # Missing => Between
      <3> SUFFICES ASSUME SegmentColumn # Missing,
                          \A s \in Segmented : report.segments[s].ctr # Missing
                   PROVE  \E low, high \in Segmented :
                             /\ report.segments[low].ctr <= report.metrics.ctr
                             /\ report.metrics.ctr <= report.segments[high].ctr
        OBVIOUS
      <3>1. \A s \in Named : CtrOf(In(s)) # Missing
        BY <2>4
      <3>2. \E low, high \in Named : /\ CtrOf(In(low)) <= CtrOf(DOMAIN rows)
                                     /\ CtrOf(DOMAIN rows) <= CtrOf(In(high))
        BY <2>1, <3>1, RateIsBetween
      <3>. QED
        BY <2>2, <2>4, <3>2
    <2>8. \A c \in NumericColumns \cap columns : Few(c)
      BY <2>1, OddRows
    <2>9. Cardinality(DOMAIN rows) < 6 => report.anomalies = {}
      <3> SUFFICES ASSUME Cardinality(DOMAIN rows) < 6, NEW a \in Anomalies(rows) PROVE FALSE
        BY <2>1
      <3>1. PICK i \in DOMAIN rows, c \in NumericColumns \cap columns : a = <<i, c>>
        BY DEF Anomalies
      <3>2. Len(rows) >= 6
        BY <2>1, <3>1, OddRows
      <3>. QED
        BY <3>2, RowIndices
    <2>. QED
      BY <2>2, <2>5, <2>6, <2>7, <2>8, <2>9 DEF ReportAddsUp
  <1>. QED
    BY <1>1, CsvInvInit, CsvInvNext, PTL DEF ServicesSpec

-----------------------------------------------------------------------------
(* Signed deliveries.                                                        *)

Asking == [pc : {"key", "signature", "payload"},
           endpoint : Endpoint, key : Key, signature : Signature]

Replied == [pc : {"answered"}, key : Key, resource : Task \cup Campaign]

WebhookTypeOK ==
    /\ task \in [Task -> OutcomeStatus]
    /\ receipts \subseteq Receipt
    /\ campaigns \subseteq Campaign
    /\ runs \subseteq Key \X Campaign
    /\ body \in [Signature -> Campaign]
    /\ call \in [Delivery -> {Unsent} \cup Asking \cup Replied]

FileReceipts == \A r \in receipts : r.endpoint \in FileEndpoint => r.resource \in Task

(* The conjuncts of DeliveredOnce.                                            *)
ReceivedOnce ==
    \A r, q \in receipts :
      r.key = q.key \/ r.signature = q.signature \/ r.resource = q.resource => r = q

TasksReceived == \A t \in Task : task[t] # "NONE" <=> \E r \in receipts : r.resource = t

CampaignsReceived ==
    \A r \in receipts : r.endpoint = "campaigns" => r.resource = body[r.signature]
                                                    /\ r.resource \in campaigns

RunsReceived == \A j \in runs : \E r \in receipts : r.key = j[1] /\ r.resource = j[2]

AnswersTrue ==
    \A d \in Delivery : call[d].pc = "answered" =>
      \E r \in receipts : r.key = call[d].key /\ r.resource = call[d].resource

WebhookInv ==
    /\ WebhookTypeOK /\ FileReceipts /\ ReceivedOnce /\ TasksReceived
    /\ CampaignsReceived /\ RunsReceived /\ AnswersTrue

(* A request that looks something up, or is answered.                            *)
LEMMA DeliveryMoves ==
    ASSUME WebhookInv, NEW d \in Delivery, NEW c \in {Unsent} \cup Asking \cup Replied,
           Goes(d, c), UNCHANGED <<task, receipts, campaigns, runs, body>>,
           c \in Replied => \E r \in receipts : r.key = c.key /\ r.resource = c.resource
    PROVE  WebhookInv'
  <1>1. call' = [call EXCEPT ![d] = c]
    BY DEF Goes
  <1>2. WebhookTypeOK'
    BY <1>1 DEF WebhookInv, WebhookTypeOK
  <1>3. AnswersTrue'
    <2>1. c.pc = "answered" => c \in Replied
      BY DEF Unsent, Asking
    <2>. QED
      BY <1>1, <2>1 DEF WebhookInv, WebhookTypeOK, AnswersTrue
  <1>4. FileReceipts' /\ ReceivedOnce' /\ TasksReceived' /\ CampaignsReceived' /\ RunsReceived'
    BY DEF WebhookInv, FileReceipts, ReceivedOnce, TasksReceived, CampaignsReceived, RunsReceived
  <1>. QED
    BY <1>2, <1>3, <1>4 DEF WebhookInv

(* What is accepted under a key and a signature nobody has used, for a resource that  *)
(* was not there: all invariants but that of the resource's own kind.              *)
LEMMA ReceiptAdded ==
    ASSUME WebhookInv, NEW d \in Delivery, NEW x \in Task \cup Campaign, call[d] \in Asking,
           ~Conflicts(d), AddReceipt(d, x), Answer(d, x), UNCHANGED body,
           \A r \in receipts : r.resource # x,
           call[d].endpoint \in FileEndpoint => x \in Task,
           call[d].endpoint = "campaigns" => x = body[call[d].signature] /\ x \in campaigns',
           campaigns \subseteq campaigns'
    PROVE  /\ receipts' \subseteq Receipt
           /\ call' \in [Delivery -> {Unsent} \cup Asking \cup Replied]
           /\ FileReceipts' /\ ReceivedOnce' /\ CampaignsReceived' /\ AnswersTrue'
           /\ receipts \subseteq receipts'
           /\ \E q \in receipts' : q.key = call[d].key /\ q.resource = x
                                   /\ receipts' = receipts \cup {q}
  <1> DEFINE q == [key |-> call[d].key, signature |-> call[d].signature,
                   endpoint |-> call[d].endpoint, resource |-> x]
             c == [pc |-> "answered", key |-> call[d].key, resource |-> x]
  <1>1. /\ q \in Receipt /\ q.key = call[d].key /\ q.signature = call[d].signature
        /\ q.endpoint = call[d].endpoint /\ q.resource = x
    BY DEF Asking, Receipt
  <1>2. c \in Replied /\ c.key = q.key /\ c.resource = q.resource
    BY DEF Asking, Replied
  <1>3. receipts' = receipts \cup {q} /\ call' = [call EXCEPT ![d] = c]
    BY DEF AddReceipt, Answer, Goes
  <1> HIDE DEF q, c
  <1>4. \A r \in receipts : r.key # q.key /\ r.signature # q.signature /\ r.resource # q.resource
    BY <1>1 DEF Conflicts
  <1>5. ReceivedOnce'
    BY <1>3, <1>4 DEF WebhookInv, ReceivedOnce
  <1>6. FileReceipts' /\ CampaignsReceived'
    BY <1>1, <1>3 DEF WebhookInv, FileReceipts, CampaignsReceived
  <1>7. AnswersTrue'
    BY <1>2, <1>3 DEF WebhookInv, WebhookTypeOK, AnswersTrue
  <1>8. receipts' \subseteq Receipt /\ call' \in [Delivery -> {Unsent} \cup Asking \cup Replied]
    BY <1>1, <1>2, <1>3 DEF WebhookInv, WebhookTypeOK
  <1>. QED
    BY <1>1, <1>3, <1>5, <1>6, <1>7, <1>8

LEMMA AcceptCampaignKeeps ==
    ASSUME WebhookInv, NEW d \in Delivery, AcceptCampaign(d)
    PROVE  WebhookInv'
  <1> DEFINE c == body[call[d].signature]
  <1>1. /\ call[d].pc = "payload" /\ call[d].endpoint = "campaigns" /\ UNCHANGED <<task, body>>
    BY DEF AcceptCampaign
  <1>2. call[d] \in Asking
    BY <1>1 DEF WebhookInv, WebhookTypeOK, Unsent, Replied
  <1>3. CASE c \in campaigns \/ Conflicts(d)
    BY <1>1, <1>3, DeliveryMoves DEF AcceptCampaign, RefuseDelivery, Unsent, Replied
  <1>4. CASE ~(c \in campaigns \/ Conflicts(d))
    <2>1. /\ campaigns' = campaigns \cup {c} /\ runs' \in {runs, runs \cup {<<call[d].key, c>>}}
          /\ AddReceipt(d, c) /\ Answer(d, c)
      BY <1>4 DEF AcceptCampaign
    <2>2. c \in Campaign /\ call[d].key \in Key
      BY <1>2 DEF Asking, WebhookInv, WebhookTypeOK
    <2>3. \A r \in receipts : r.resource # c
      <3> SUFFICES ASSUME NEW r \in receipts, r.resource = c PROVE FALSE
        OBVIOUS
      <3>1. r.endpoint \in Endpoint
        BY DEF WebhookInv, WebhookTypeOK, Receipt
      <3>2. r.endpoint # "campaigns"
        BY <1>4 DEF WebhookInv, CampaignsReceived
      <3>3. r.resource \in Task
        BY <3>1, <3>2 DEF Endpoint, WebhookInv, FileReceipts
      <3>. QED
        BY <2>2, <3>3, WebhooksAssumption
    <2> HIDE DEF c
    <2>4. /\ receipts' \subseteq Receipt
          /\ call' \in [Delivery -> {Unsent} \cup Asking \cup Replied]
          /\ FileReceipts' /\ ReceivedOnce' /\ CampaignsReceived' /\ AnswersTrue'
          /\ receipts \subseteq receipts'
      BY <1>1, <1>2, <1>4, <2>1, <2>2, <2>3, ReceiptAdded DEF FileEndpoint, c
    <2>5. PICK q \in receipts' : /\ q.key = call[d].key /\ q.resource = c
                                 /\ receipts' = receipts \cup {q}
      BY <1>1, <1>2, <1>4, <2>1, <2>2, <2>3, ReceiptAdded DEF FileEndpoint, c
    <2>6. WebhookTypeOK'
      BY <1>1, <2>1, <2>2, <2>4 DEF WebhookInv, WebhookTypeOK
    <2>7. TasksReceived'
      BY <1>1, <2>2, <2>5, WebhooksAssumption DEF WebhookInv, TasksReceived
    <2>8. RunsReceived'
      BY <2>1, <2>4, <2>5 DEF WebhookInv, RunsReceived
    <2>. QED
      BY <2>4, <2>6, <2>7, <2>8 DEF WebhookInv
  <1>. QED
    BY <1>3, <1>4

LEMMA AcceptFileKeeps ==
    ASSUME WebhookInv, NEW d \in Delivery, AcceptFile(d)
    PROVE  WebhookInv'
  <1>1. /\ call[d].pc = "payload" /\ call[d].endpoint \in FileEndpoint
        /\ UNCHANGED <<campaigns, runs, body>>
    BY DEF AcceptFile
  <1>2. call[d] \in Asking
    BY <1>1 DEF WebhookInv, WebhookTypeOK, Unsent, Replied
  <1>3. CASE Conflicts(d)
    BY <1>1, <1>3, DeliveryMoves DEF AcceptFile, RefuseDelivery, Unsent, Replied
  <1>4. CASE ~Conflicts(d)
    <2>1. PICK t \in Task : /\ task[t] = "NONE" /\ task' = [task EXCEPT ![t] = "OPEN"]
                            /\ AddReceipt(d, t) /\ Answer(d, t)
      BY <1>4 DEF AcceptFile
    <2>2. \A r \in receipts : r.resource # t
      BY <2>1 DEF WebhookInv, TasksReceived
    <2>3. /\ receipts' \subseteq Receipt
          /\ call' \in [Delivery -> {Unsent} \cup Asking \cup Replied]
          /\ FileReceipts' /\ ReceivedOnce' /\ CampaignsReceived' /\ AnswersTrue'
          /\ receipts \subseteq receipts'
          /\ \E q \in receipts' : q.key = call[d].key /\ q.resource = t
                                  /\ receipts' = receipts \cup {q}
      BY <1>1, <1>2, <1>4, <2>1, <2>2, ReceiptAdded DEF FileEndpoint
    <2>4. WebhookTypeOK'
      BY <1>1, <2>1, <2>3 DEF WebhookInv, WebhookTypeOK, OutcomeStatus
    <2>5. TasksReceived'
      BY <2>1, <2>2, <2>3 DEF WebhookInv, WebhookTypeOK, TasksReceived
    <2>6. RunsReceived'
      BY <1>1, <2>3 DEF WebhookInv, RunsReceived
    <2>. QED
      BY <2>3, <2>4, <2>5, <2>6 DEF WebhookInv
  <1>. QED
    BY <1>3, <1>4

(* What happens to tasks elsewhere: none appears, none disappears.                  *)
LEMMA TasksElsewhere ==
    ASSUME WebhookInv, UNCHANGED webhookVars, task' \in [Task -> OutcomeStatus],
           \A t \in Task : task'[t] = "NONE" <=> task[t] = "NONE"
    PROVE  WebhookInv'
  BY DEF webhookVars, WebhookInv, WebhookTypeOK, FileReceipts, ReceivedOnce, TasksReceived,
         CampaignsReceived, RunsReceived, AnswersTrue

LEMMA OutcomesStepTyped ==
    ASSUME task \in [Task -> OutcomeStatus], OutcomesStep
    PROVE  /\ task' \in [Task -> OutcomeStatus]
           /\ \A t \in Task : task'[t] = "NONE" <=> task[t] = "NONE"
  BY DEF OutcomesStep, TaskCompletes, RetryTask, OutcomeStatus

LEMMA WebhookStepKeeps == WebhookInv /\ [OperationsNext]_operationsVars => WebhookInv'
  <1> SUFFICES ASSUME WebhookInv, [OperationsNext]_operationsVars PROVE WebhookInv'
    OBVIOUS
  <1>0. task \in [Task -> OutcomeStatus]
    BY DEF WebhookInv, WebhookTypeOK
  <1>1. CASE OutcomesStep /\ UNCHANGED webhookVars
    BY <1>0, <1>1, OutcomesStepTyped, TasksElsewhere
  <1>2. CASE UNCHANGED <<task, webhookVars>>
    BY <1>0, <1>2, TasksElsewhere
  <1>3. ASSUME NEW d \in Delivery, Send(d), UNCHANGED task
        PROVE  WebhookInv'
    <2>1. PICK e \in Endpoint, k \in Key, s \in Signature :
            Goes(d, [pc |-> "key", endpoint |-> e, key |-> k, signature |-> s])
      BY <1>3 DEF Send
    <2>2. /\ [pc |-> "key", endpoint |-> e, key |-> k, signature |-> s] \in Asking
          /\ [pc |-> "key", endpoint |-> e, key |-> k, signature |-> s] \notin Replied
      BY DEF Asking, Replied
    <2>. QED
      BY <1>3, <2>1, <2>2, DeliveryMoves DEF Send
  <1>4. ASSUME NEW d \in Delivery, LookUpKey(d), UNCHANGED task
        PROVE  WebhookInv'
    <2>1. call[d] \in Asking /\ UNCHANGED <<receipts, campaigns, runs, body>>
      BY <1>4 DEF LookUpKey, WebhookInv, WebhookTypeOK, Unsent, Replied
    <2>2. CASE Known(call[d].key) = {}
      <3>1. /\ [call[d] EXCEPT !.pc = "signature"] \in Asking
            /\ [call[d] EXCEPT !.pc = "signature"] \notin Replied
        BY <2>1 DEF Asking, Replied
      <3>. QED
        BY <1>4, <2>1, <2>2, <3>1, DeliveryMoves DEF LookUpKey
    <2>3. CASE Known(call[d].key) # {}
      <3>1. PICK r \in Known(call[d].key) : Goes(d, Unsent) \/ Answer(d, r.resource)
        BY <1>4, <2>3 DEF LookUpKey, RefuseDelivery
      <3> DEFINE c == [pc |-> "answered", key |-> call[d].key, resource |-> r.resource]
      <3>2. r \in receipts /\ r.key = call[d].key /\ r \in Receipt
        BY DEF Known, WebhookInv, WebhookTypeOK
      <3>3. c \in Replied /\ c.key = r.key /\ c.resource = r.resource
        BY <2>1, <3>2 DEF Receipt, Replied, Asking
      <3>4. Unsent \notin Replied
        BY DEF Unsent, Replied
      <3>5. CASE Goes(d, Unsent)
        BY <1>4, <2>1, <3>4, <3>5, DeliveryMoves
      <3>6. CASE Goes(d, c)
        <4> HIDE DEF c
        <4>. QED
          BY <1>4, <2>1, <3>2, <3>3, <3>6, DeliveryMoves
      <3>. QED
        BY <3>1, <3>5, <3>6 DEF Answer
    <2>. QED
      BY <2>2, <2>3
  <1>5. ASSUME NEW d \in Delivery, LookUpSignature(d), UNCHANGED task
        PROVE  WebhookInv'
    <2>1. call[d] \in Asking
      BY <1>5 DEF LookUpSignature, WebhookInv, WebhookTypeOK, Unsent, Replied
    <2>2. /\ [call[d] EXCEPT !.pc = "payload"] \in Asking
          /\ [call[d] EXCEPT !.pc = "payload"] \notin Replied /\ Unsent \notin Replied
      BY <2>1 DEF Asking, Replied, Unsent
    <2>. QED
      BY <1>5, <2>2, DeliveryMoves DEF LookUpSignature, RefuseDelivery
  <1>6. ASSUME NEW d \in Delivery, GiveUp(d), UNCHANGED task
        PROVE  WebhookInv'
    BY <1>6, DeliveryMoves DEF GiveUp, RefuseDelivery, Unsent, Replied
  <1>7. ASSUME NEW c \in Campaign, CreateCampaign(c)
        PROVE  WebhookInv'
    BY <1>7 DEF CreateCampaign, WebhookInv, WebhookTypeOK, FileReceipts, ReceivedOnce,
                TasksReceived, CampaignsReceived, RunsReceived, AnswersTrue
  <1>. QED
    BY <1>1, <1>2, <1>3, <1>4, <1>5, <1>6, <1>7, AcceptCampaignKeeps, AcceptFileKeeps
       DEF OperationsNext, operationsVars, WebhooksStep, FeedbackStep

LEMMA WebhookInitInv == OperationsInit => WebhookInv
  BY DEF OperationsInit, OutcomesInit, WebhooksInit, WebhookInv, WebhookTypeOK, OutcomeStatus,
         FileReceipts, ReceivedOnce, TasksReceived, CampaignsReceived, RunsReceived,
         AnswersTrue, Unsent

(* However often deliveries are repeated and however they overlap, each is accepted    *)
(* once, with what it creates or not at all (N8NService.accept_campaign,            *)
(* accept_file_task).                                                          *)
THEOREM DeliveriesHappenOnce == OperationsSpec => []DeliveredOnce
  <1>1. WebhookInv => DeliveredOnce
    BY DEF WebhookInv, ReceivedOnce, TasksReceived, CampaignsReceived, RunsReceived,
           AnswersTrue, DeliveredOnce
  <1>. QED
    BY <1>1, WebhookInitInv, WebhookStepKeeps, PTL DEF OperationsSpec

-----------------------------------------------------------------------------
(* Impact and feedback.                                                      *)

ImpactRequest == [kind : {"impact"}, task : Task, accepted : Accepted]

FeedbackRequest ==
    [kind : {"feedback"}, task : Task, actor : Actor, accepted : Accepted, rating : Rating,
     seen : Nat, impact : Accepted \cup {"NONE"}]

FeedbackTypeOK ==
    /\ task \in [Task -> OutcomeStatus]
    /\ impact \in [Task -> Accepted \cup {"NONE"}]
    /\ feedback \in [Task -> [Actor -> UserFeedback]]
    /\ request \subseteq ImpactRequest \cup FeedbackRequest

(* What a call that has read still knows: the task was requested, an impact it saw    *)
(* is there, every version up to the one it saw was announced.                      *)
KnownTo(q) ==
    /\ task[q.task] # "NONE"
    /\ q.kind = "feedback" =>
         /\ q.impact # "NONE" => impact[q.task] # "NONE"
         /\ \A v \in 1..q.seen : FeedbackKey(q.task, q.actor, v) \in events

FeedbackInv ==
    /\ FeedbackTypeOK
    /\ \A q \in request : KnownTo(q)
    /\ EvidenceIsAnnounced

LEMMA KeysDiffer ==
    /\ \A t, s \in Task : ImpactKey(t) = ImpactKey(s) => t = s
    /\ \A t, s \in Task, a \in Actor, v \in Nat : ImpactKey(t) # FeedbackKey(s, a, v)
    /\ \A t, s \in Task, a, b \in Actor, v, w \in Nat :
         FeedbackKey(t, a, v) = FeedbackKey(s, b, w) => t = s /\ a = b /\ v = w
  BY DEF ImpactKey, FeedbackKey

LEMMA AcceptedIsSome == "NONE" \notin Accepted
  BY FeedbackAssumption DEF Accepted

(* A call that has read is in flight, or one is gone.                              *)
LEMMA RequestsMove ==
    ASSUME FeedbackInv, request' \subseteq ImpactRequest \cup FeedbackRequest,
           \A q \in request' : q \in request \/ KnownTo(q),
           UNCHANGED <<task, impact, feedback, events>>
    PROVE  FeedbackInv'
  BY DEF FeedbackInv, FeedbackTypeOK, KnownTo, EvidenceIsAnnounced

LEMMA AskImpactKeeps ==
    ASSUME FeedbackInv, NEW t \in Task, AskImpact(t), UNCHANGED task
    PROVE  FeedbackInv'
  <1>1. PICK v \in Accepted : Ask([kind |-> "impact", task |-> t, accepted |-> v])
    BY DEF AskImpact
  <1> DEFINE q == [kind |-> "impact", task |-> t, accepted |-> v]
  <1>2. q \in ImpactRequest /\ q.kind = "impact" /\ q.task = t
    BY DEF ImpactRequest
  <1>3. request' = request \cup {q} /\ task[t] # "NONE"
    BY <1>1 DEF Ask, AskImpact, Eligible
  <1> HIDE DEF q
  <1>4. KnownTo(q)
    BY <1>2, <1>3 DEF KnownTo
  <1>. QED
    BY <1>2, <1>3, <1>4, RequestsMove DEF AskImpact, FeedbackInv, FeedbackTypeOK

LEMMA AskFeedbackKeeps ==
    ASSUME FeedbackInv, NEW t \in Task, NEW a \in Actor, AskFeedback(t, a), UNCHANGED task
    PROVE  FeedbackInv'
  <1>1. PICK v \in Accepted, x \in Rating :
          Ask([kind |-> "feedback", task |-> t, actor |-> a, accepted |-> v, rating |-> x,
               seen |-> feedback[t][a].version, impact |-> impact[t]])
    BY DEF AskFeedback
  <1> DEFINE q == [kind |-> "feedback", task |-> t, actor |-> a, accepted |-> v, rating |-> x,
                   seen |-> feedback[t][a].version, impact |-> impact[t]]
  <1>2. feedback[t][a].version \in Nat /\ impact[t] \in Accepted \cup {"NONE"}
    BY DEF FeedbackInv, FeedbackTypeOK, UserFeedback
  <1>3. /\ q \in FeedbackRequest /\ q.kind = "feedback" /\ q.task = t /\ q.actor = a
        /\ q.seen = feedback[t][a].version /\ q.impact = impact[t]
    BY <1>2 DEF FeedbackRequest
  <1>4. request' = request \cup {q} /\ task[t] # "NONE"
    BY <1>1 DEF Ask, AskFeedback, Eligible
  <1> HIDE DEF q
  <1>5. KnownTo(q)
    BY <1>3, <1>4 DEF KnownTo, FeedbackInv, EvidenceIsAnnounced
  <1>. QED
    BY <1>3, <1>4, <1>5, RequestsMove DEF AskFeedback, FeedbackInv, FeedbackTypeOK

LEMMA RecordImpactKeeps ==
    ASSUME FeedbackInv, NEW q \in request, RecordImpact(q), UNCHANGED task
    PROVE  FeedbackInv'
  <1>1. q.kind = "impact" /\ request' = request \ {q} /\ UNCHANGED feedback
    BY DEF RecordImpact
  <1>2. q \in ImpactRequest
    BY <1>1 DEF FeedbackInv, FeedbackTypeOK, FeedbackRequest
  <1>3. q.task \in Task /\ q.accepted \in Accepted
    BY <1>2 DEF ImpactRequest
  <1>4. CASE impact[q.task] # "NONE"
    BY <1>1, <1>4, RequestsMove DEF RecordImpact, FeedbackInv, FeedbackTypeOK
  <1>5. CASE impact[q.task] = "NONE"
    <2>1. /\ impact' = [impact EXCEPT ![q.task] = q.accepted]
          /\ events' = events \cup {ImpactKey(q.task)}
      BY <1>5 DEF RecordImpact
    <2>2. FeedbackTypeOK'
      BY <1>1, <1>3, <2>1 DEF FeedbackInv, FeedbackTypeOK
    <2>3. \A r \in request' : KnownTo(r)'
      BY <1>1, <1>3, <2>1, AcceptedIsSome DEF FeedbackInv, FeedbackTypeOK, KnownTo
    <2>4. ASSUME NEW t \in Task
          PROVE  /\ impact'[t] # "NONE" <=> ImpactKey(t) \in events'
                 /\ impact'[t] # "NONE" => task[t] # "NONE"
      <3>1. task[q.task] # "NONE"
        BY DEF FeedbackInv, KnownTo
      <3>2. /\ impact[t] # "NONE" <=> ImpactKey(t) \in events
            /\ impact[t] # "NONE" => task[t] # "NONE"
        BY DEF FeedbackInv, EvidenceIsAnnounced
      <3>. QED
        BY <1>3, <2>1, <3>1, <3>2, KeysDiffer, AcceptedIsSome DEF FeedbackInv, FeedbackTypeOK
    <2>5. \A t \in Task, a \in Actor, v \in Nat :
            FeedbackKey(t, a, v) \in events' <=> FeedbackKey(t, a, v) \in events
      BY <1>3, <2>1, KeysDiffer
    <2>6. \A t \in Task, a \in Actor : feedback[t][a].version \in Nat
      BY DEF FeedbackInv, FeedbackTypeOK, UserFeedback
    <2>7. EvidenceIsAnnounced'
      BY <1>1, <2>4, <2>5, <2>6, FeedbackAssumption DEF FeedbackInv, EvidenceIsAnnounced
    <2>. QED
      BY <2>2, <2>3, <2>7 DEF FeedbackInv
  <1>. QED
    BY <1>4, <1>5

LEMMA RecordFeedbackKeeps ==
    ASSUME FeedbackInv, NEW q \in request, RecordFeedback(q), UNCHANGED task
    PROVE  FeedbackInv'
  <1>1. q.kind = "feedback" /\ request' = request \ {q}
    BY DEF RecordFeedback
  <1>2. q \in FeedbackRequest /\ KnownTo(q)
    BY <1>1 DEF FeedbackInv, FeedbackTypeOK, ImpactRequest
  <1>3. /\ q.task \in Task /\ q.actor \in Actor /\ q.accepted \in Accepted /\ q.seen \in Nat
        /\ q.rating \in Rating
    BY <1>2 DEF FeedbackRequest
  <1>4. CASE FeedbackExists(q)
    BY <1>1, <1>4, RequestsMove DEF RecordFeedback, FeedbackInv, FeedbackTypeOK
  <1>5. CASE ~FeedbackExists(q)
    <2> DEFINE row == [version |-> q.seen + 1, rating |-> q.rating]
               key == FeedbackKey(q.task, q.actor, q.seen + 1)
    <2>1. /\ feedback' = [feedback EXCEPT ![q.task][q.actor] = row]
          /\ events' = events \cup {key} /\ impact' = ImpactAfter(q)
      BY <1>5 DEF RecordFeedback
    <2>2. row \in UserFeedback /\ row.version = q.seen + 1
      BY <1>3 DEF UserFeedback
    <2> HIDE DEF row, key
    <2>3. feedback' \in [Task -> [Actor -> UserFeedback]]
      BY <1>3, <2>1, <2>2 DEF FeedbackInv, FeedbackTypeOK
    <2>4. /\ feedback'[q.task][q.actor] = row
          /\ \A t \in Task, a \in Actor : t # q.task \/ a # q.actor
                                          => feedback'[t][a] = feedback[t][a]
      BY <1>3, <2>1 DEF FeedbackInv, FeedbackTypeOK
    <2>5. /\ impact' \in [Task -> Accepted \cup {"NONE"}]
          /\ \A t \in Task : impact'[t] # "NONE" <=> impact[t] # "NONE"
      <3>1. q.impact # "NONE" => impact[q.task] # "NONE"
        BY <1>1, <1>2 DEF KnownTo
      <3>. QED
        BY <1>3, <2>1, <3>1, AcceptedIsSome DEF ImpactAfter, FeedbackInv, FeedbackTypeOK
    <2>6. FeedbackTypeOK'
      BY <1>1, <2>3, <2>5 DEF FeedbackInv, FeedbackTypeOK
    <2>7. \A r \in request' : KnownTo(r)'
      <3> SUFFICES ASSUME NEW r \in request' PROVE KnownTo(r)'
        OBVIOUS
      <3>1. KnownTo(r) /\ r.task \in Task
        BY <1>1 DEF FeedbackInv, FeedbackTypeOK, ImpactRequest, FeedbackRequest
      <3>. QED
        BY <2>1, <2>5, <3>1 DEF KnownTo
    <2>8. \A t \in Task : ImpactKey(t) \in events' <=> ImpactKey(t) \in events
      BY <1>3, <2>1, KeysDiffer DEF key
    <2>9. \A t \in Task, a \in Actor, v \in Nat :
            FeedbackKey(t, a, v) \in events'
            <=> \/ FeedbackKey(t, a, v) \in events
                \/ t = q.task /\ a = q.actor /\ v = q.seen + 1
      BY <1>3, <2>1, KeysDiffer DEF key
    <2>10. ASSUME NEW t \in Task, NEW a \in Actor
           PROVE  /\ \A v \in 1..feedback'[t][a].version : FeedbackKey(t, a, v) \in events'
                  /\ feedback'[t][a].version = 0
                     => \A v \in 1..MaxVersion : FeedbackKey(t, a, v) \notin events'
                  /\ feedback'[t][a].version > 0 => task[t] # "NONE"
      <3>1. /\ \A v \in 1..feedback[t][a].version : FeedbackKey(t, a, v) \in events
            /\ feedback[t][a].version = 0
               => \A v \in 1..MaxVersion : FeedbackKey(t, a, v) \notin events
            /\ feedback[t][a].version > 0 => task[t] # "NONE"
        BY DEF FeedbackInv, EvidenceIsAnnounced
      <3>2. CASE t = q.task /\ a = q.actor
        <4>1. /\ \A v \in 1..q.seen : FeedbackKey(t, a, v) \in events
              /\ task[t] # "NONE"
          BY <1>1, <1>2, <3>2 DEF KnownTo
        <4>2. feedback'[t][a].version = q.seen + 1
          BY <2>2, <2>4, <3>2
        <4>3. ASSUME NEW v \in 1..(q.seen + 1)
              PROVE  FeedbackKey(t, a, v) \in events'
          <5>1. v \in Nat /\ (v \in 1..q.seen \/ v = q.seen + 1)
            BY <1>3
          <5>. QED
            BY <2>9, <3>2, <4>1, <5>1
        <4>. QED
          BY <1>3, <4>1, <4>2, <4>3
      <3>3. CASE ~(t = q.task /\ a = q.actor)
        <4>1. feedback'[t][a] = feedback[t][a]
          BY <2>4, <3>3
        <4>2. feedback[t][a].version \in Nat
          BY DEF FeedbackInv, FeedbackTypeOK, UserFeedback
        <4>3. \A v \in Nat : FeedbackKey(t, a, v) \in events' <=> FeedbackKey(t, a, v) \in events
          BY <2>9, <3>3
        <4>. QED
          BY <3>1, <4>1, <4>2, <4>3, FeedbackAssumption
      <3>. QED
        BY <3>2, <3>3
    <2>11. ASSUME NEW t \in Task
           PROVE  /\ impact'[t] # "NONE" <=> ImpactKey(t) \in events'
                  /\ impact'[t] # "NONE" => task[t] # "NONE"
      BY <2>5, <2>8 DEF FeedbackInv, EvidenceIsAnnounced
    <2>12. EvidenceIsAnnounced'
      BY <2>10, <2>11 DEF EvidenceIsAnnounced
    <2>. QED
      BY <2>6, <2>7, <2>12 DEF FeedbackInv
  <1>. QED
    BY <1>4, <1>5

LEMMA FeedbackStepKeeps == FeedbackInv /\ [OperationsNext]_operationsVars => FeedbackInv'
  <1> SUFFICES ASSUME FeedbackInv, [OperationsNext]_operationsVars PROVE FeedbackInv'
    OBVIOUS
  <1>0. task \in [Task -> OutcomeStatus]
    BY DEF FeedbackInv, FeedbackTypeOK
  <1>1. ASSUME UNCHANGED feedbackVars, task' \in [Task -> OutcomeStatus],
               \A t \in Task : task[t] # "NONE" => task'[t] # "NONE"
        PROVE  FeedbackInv'
    <2>1. \A q \in request : q.task \in Task
      BY DEF FeedbackInv, FeedbackTypeOK, ImpactRequest, FeedbackRequest
    <2>. QED
      BY <1>1, <2>1 DEF feedbackVars, FeedbackInv, FeedbackTypeOK, KnownTo, EvidenceIsAnnounced
  <1>2. CASE OutcomesStep /\ UNCHANGED feedbackVars
    BY <1>0, <1>1, <1>2, OutcomesStepTyped
  <1>3. CASE UNCHANGED operationsVars
    BY <1>0, <1>1, <1>3 DEF operationsVars
  <1>4. CASE WebhooksStep /\ UNCHANGED feedbackVars
    <2>1. \/ UNCHANGED task
          \/ \E t \in Task : task' = [task EXCEPT ![t] = "OPEN"]
      BY <1>4 DEF WebhooksStep, AcceptCampaign, AcceptFile, CreateCampaign
    <2>. QED
      BY <1>0, <1>1, <1>4, <2>1 DEF OutcomeStatus
  <1>5. CASE FeedbackStep
    <2>1. ASSUME NEW q \in request, DropRequest(q), UNCHANGED task
          PROVE  FeedbackInv'
      BY <2>1, RequestsMove DEF DropRequest, FeedbackInv, FeedbackTypeOK
    <2>. QED
      BY <1>5, <2>1, AskImpactKeeps, AskFeedbackKeeps, RecordImpactKeeps, RecordFeedbackKeeps
         DEF FeedbackStep
  <1>. QED
    BY <1>2, <1>3, <1>4, <1>5 DEF OperationsNext

LEMMA FeedbackInitInv == OperationsInit => FeedbackInv
  <1> SUFFICES ASSUME OperationsInit PROVE FeedbackInv
    OBVIOUS
  <1>1. NoFeedback \in UserFeedback /\ NoFeedback.version = 0
    BY FeedbackAssumption DEF NoFeedback, UserFeedback
  <1>2. FeedbackTypeOK
    BY <1>1 DEF OperationsInit, OutcomesInit, FeedbackInit, FeedbackTypeOK, OutcomeStatus
  <1>. QED
    BY <1>1, <1>2 DEF OperationsInit, OutcomesInit, FeedbackInit, FeedbackInv, EvidenceIsAnnounced

(* An impact or a feedback is recorded if and only if it was announced, at every       *)
(* version, however the calls of a task overlap (BusinessImpactService.record_impact,  *)
(* record_feedback).                                                           *)
THEOREM EvidenceHasEvents == OperationsSpec => []EvidenceIsAnnounced
  <1>1. FeedbackInv => EvidenceIsAnnounced
    BY DEF FeedbackInv
  <1>. QED
    BY <1>1, FeedbackInitInv, FeedbackStepKeeps, PTL DEF OperationsSpec
=============================================================================
