--------------------------- MODULE JobQueueProofs ---------------------------
(***************************************************************************)
(* Proofs about JobQueue for any set of jobs and workers and any bounds.    *)
(*                                                                         *)
(* Every transaction changes each row by one of the repository's row        *)
(* functions (RowStep, lemma StepsAreRowSteps), so what holds of the rows   *)
(* is proved one row function at a time, without the workers.               *)
(***************************************************************************)
EXTENDS JobQueue, FiniteSetTheorems, TLAPS

(* The inductive invariant of one row.                                       *)
RowAudit(r) ==
    /\ Len(r.attempts) = r.attempt_count
    /\ \A n \in 1..Len(r.attempts) :
         /\ r.attempts[n].status = "RUNNING"
              <=> r.status = "RUNNING" /\ n = r.attempt_count
         /\ r.attempts[n].status = "RUNNING" => r.attempts[n].worker = r.locked_by
         /\ r.attempts[n].status = "SUCCEEDED"
              => r.status = "SUCCEEDED" /\ n = r.attempt_count

RowBudget(r) ==
    /\ r.attempt_count <= r.max_attempts
    /\ r.status \in {"PENDING", "ABSENT"} => r.attempt_count < r.max_attempts
    /\ r.status = "RUNNING" <=> r.locked_by # NoWorker
    /\ r.status = "RUNNING" <=> r.lease # "none"

RowInv(r) == r \in Row /\ RowAudit(r) /\ RowBudget(r)

(* The history of a row that no transaction may rewrite.                     *)
KeepsAttempts(r, s) ==
    \A n \in 1..Len(r.attempts) :
        /\ n <= Len(s.attempts)
        /\ s.attempts[n].worker = r.attempts[n].worker
        /\ r.attempts[n].status # "RUNNING" => s.attempts[n] = r.attempts[n]

(* What one transaction may make of a row.                                   *)
EndsAttempt(r, s, w) ==
    /\ OwnsLiveLease(r, w)
    /\ AttemptOpen(r)
    /\ \/ s = CompleteRow(r, w)
       \/ \E retryable \in BOOLEAN : s = FailRow(r, w, retryable)
       \/ s = MarkCancelledRow(r, w)

RowStep(r, s) ==
    \/ s = r
    \/ r.status = "ABSENT" /\ s = [r EXCEPT !.status = "PENDING"]
    \/ r.status = "RUNNING" /\ AttemptOpen(r) /\ s = ReclaimRow(r)
    \/ Leasable(r) /\ \E w \in Worker :
            s = LeaseRow(r, w) \/ s = FailRow(LeaseRow(r, w), w, FALSE)
    \/ r.status = "RUNNING" /\ s = [r EXCEPT !.lease = "fresh"]
    \/ \E w \in Worker : EndsAttempt(r, s, w)
    \/ r.status \in {"PENDING", "RUNNING"} /\ s = CancelRow(r)
    \/ /\ r.status \in {"DEAD_LETTER", "CANCELLED"}
       /\ r.attempt_count < AttemptLimit
       /\ s = RetryRow(r)
    \/ /\ r.lease \in {"fresh", "ageing"}
       /\ s = [r EXCEPT !.lease = IF @ = "fresh" THEN "ageing" ELSE "expired"]
    \/ r.status = "PENDING" /\ s = [r EXCEPT !.due = TRUE]

-----------------------------------------------------------------------------
(* Row functions preserve the row invariant.                                *)

(* A row that is not in the table satisfies the row invariant.               *)
LEMMA AbsentRow == RowInv(Absent)
  BY ConstantsAssumption
  DEF RowInv, RowAudit, RowBudget, Absent, Row, JobStatus, LeaseState, Attempt

(* lease_batch appends one open attempt and spends one unit of the budget.   *)
LEMMA LeaseKeepsRow ==
  ASSUME NEW r, RowInv(r), Leasable(r), NEW w \in Worker
  PROVE  /\ RowInv(LeaseRow(r, w))
         /\ AttemptOpen(LeaseRow(r, w))
         /\ LeaseRow(r, w).status = "RUNNING"
         /\ LeaseRow(r, w).locked_by = w
         /\ LeaseRow(r, w).attempts[r.attempt_count + 1].worker = w
         /\ LeaseRow(r, w).attempt_count = r.attempt_count + 1
         /\ LeaseRow(r, w).max_attempts = r.max_attempts
         /\ KeepsAttempts(r, LeaseRow(r, w))
<1> DEFINE a == [worker |-> w, status |-> "RUNNING"]
           as == Append(r.attempts, a)
           s == LeaseRow(r, w)
<1>1. r \in Row /\ RowAudit(r) /\ RowBudget(r) /\ r.status = "PENDING"
  BY DEF RowInv, Leasable
<1>2. s = [status |-> "RUNNING", attempt_count |-> r.attempt_count + 1,
           max_attempts |-> r.max_attempts, cancel_requested |-> r.cancel_requested,
           locked_by |-> w, lease |-> "fresh", due |-> r.due, attempts |-> as]
  <2>1. s = [r EXCEPT !.status = "RUNNING", !.locked_by = w, !.lease = "fresh",
                      !.attempt_count = r.attempt_count + 1, !.attempts = as]
    BY Zenon DEF LeaseRow
  <2> HIDE DEF as, s
  <2>2. QED
    BY <1>1, <2>1 DEF Row
<1>3. r.attempt_count \in Nat /\ r.max_attempts \in Nat /\ r.max_attempts <= AttemptLimit
      /\ r.attempt_count < r.max_attempts /\ r.attempts \in Seq(Attempt)
      /\ Len(r.attempts) = r.attempt_count
  BY <1>1, ConstantsAssumption DEF Row, RowBudget, RowAudit
<1>4. a \in Attempt
  BY DEF Attempt, AttemptStatus
<1>5. /\ as \in Seq(Attempt)
      /\ Len(as) = r.attempt_count + 1
      /\ as[r.attempt_count + 1] = a
      /\ r.attempt_count + 1 \in DOMAIN as
      /\ \A n \in 1..r.attempt_count : as[n] = r.attempts[n]
  BY <1>3, <1>4
<1>6. a.status = "RUNNING" /\ a.worker = w
  OBVIOUS
<1> HIDE DEF a, as, s
<1>7. s \in Row
  <2>1. /\ r.attempt_count + 1 \in 0..AttemptLimit
        /\ r.max_attempts \in 1..AttemptLimit
        /\ r.cancel_requested \in BOOLEAN /\ r.due \in BOOLEAN
    BY <1>1, <1>3, ConstantsAssumption DEF Row
  <2>2. QED
    BY <1>2, <1>5, <2>1 DEF Row, JobStatus, LeaseState
<1>8. RowAudit(s)
  <2>1. /\ s.status = "RUNNING" /\ s.locked_by = w /\ s.attempts = as
        /\ s.attempt_count = r.attempt_count + 1
    BY <1>2
  <2>2. ASSUME NEW n \in 1..r.attempt_count
        PROVE  as[n].status \notin {"RUNNING", "SUCCEEDED"}
    BY <1>1, <1>3, <1>5 DEF RowAudit
  <2>3. ASSUME NEW n \in 1..Len(s.attempts)
        PROVE  /\ s.attempts[n].status = "RUNNING" <=> n = s.attempt_count
               /\ s.attempts[n].status = "RUNNING" => s.attempts[n].worker = s.locked_by
               /\ s.attempts[n].status # "SUCCEEDED"
    <3>0. r.attempt_count \in Nat /\ n \in 1..(r.attempt_count + 1)
      BY <2>1, <1>3, <1>5
    <3>1. CASE n = r.attempt_count + 1
      BY <3>1, <2>1, <1>5, <1>6
    <3>2. CASE n \in 1..r.attempt_count
      <4>1. n # s.attempt_count
        BY <3>0, <3>2, <2>1
      <4>2. QED
        BY <4>1, <3>2, <2>1, <2>2
    <3>3. QED
      BY <3>0, <3>1, <3>2
  <2>4. Len(s.attempts) = s.attempt_count
    BY <2>1, <1>5
  <2>5. QED
    BY <2>1, <2>3, <2>4 DEF RowAudit
<1>9. RowBudget(s)
  BY <1>2, <1>3, ConstantsAssumption DEF RowBudget
<1>10. AttemptOpen(s)
  <2>1. s.attempts = as /\ s.attempt_count = r.attempt_count + 1
    BY <1>2
  <2>2. QED
    BY <2>1, <1>5, <1>6 DEF AttemptOpen
<1>11. KeepsAttempts(r, s)
  <2>1. s.attempts = as
    BY <1>2
  <2>2. ASSUME NEW n \in 1..Len(r.attempts)
        PROVE  n <= Len(as) /\ as[n] = r.attempts[n]
    <3>1. r.attempt_count \in Nat /\ n \in 1..r.attempt_count
      BY <1>3
    <3>2. n <= r.attempt_count + 1
      BY <3>1
    <3>3. QED
      BY <1>5, <3>1, <3>2
  <2>3. QED
    BY <2>1, <2>2 DEF KeepsAttempts
<1>12. /\ s.status = "RUNNING" /\ s.locked_by = w
       /\ s.attempt_count = r.attempt_count + 1 /\ s.max_attempts = r.max_attempts
       /\ s.attempts[r.attempt_count + 1].worker = w
  BY <1>2, <1>5, <1>6
<1>13. QED
  BY <1>7, <1>8, <1>9, <1>10, <1>11, <1>12 DEF RowInv, s

(* The row that _finish_attempt and _clear_lease leave, in status t.          *)
Closed(r, w, s, t, c, d) ==
    [status |-> t, attempt_count |-> r.attempt_count, max_attempts |-> r.max_attempts,
     cancel_requested |-> c, locked_by |-> NoWorker, lease |-> "none", due |-> d,
     attempts |-> [r.attempts EXCEPT ![r.attempt_count] = [worker |-> w, status |-> s]]]

Ends(r, w, s) ==
    \E o \in AttemptStatus \ {"RUNNING"},
       t \in {"PENDING", "SUCCEEDED", "CANCELLED", "DEAD_LETTER"},
       c \in BOOLEAN, d \in BOOLEAN :
        /\ o = "SUCCEEDED" => t = "SUCCEEDED"
        /\ t = "PENDING" => r.attempt_count < r.max_attempts
        /\ s = Closed(r, w, o, t, c, d)

(* complete, fail, mark_cancelled and reclaim_stale close the open attempt.  *)
LEMMA ClosedKeepsRow ==
  ASSUME NEW r, RowInv(r), AttemptOpen(r), NEW w \in Worker,
         r.status = "RUNNING", r.locked_by = w,
         NEW s \in AttemptStatus \ {"RUNNING"},
         NEW t \in {"PENDING", "SUCCEEDED", "CANCELLED", "DEAD_LETTER"},
         NEW c \in BOOLEAN, NEW d \in BOOLEAN,
         s = "SUCCEEDED" => t = "SUCCEEDED",
         t = "PENDING" => r.attempt_count < r.max_attempts
  PROVE  /\ RowInv(Closed(r, w, s, t, c, d))
         /\ KeepsAttempts(r, Closed(r, w, s, t, c, d))
<1> DEFINE a == [worker |-> w, status |-> s]
           as == [r.attempts EXCEPT ![r.attempt_count] = a]
           f == Closed(r, w, s, t, c, d)
<1>1. r \in Row /\ RowAudit(r) /\ RowBudget(r)
  BY DEF RowInv
<1>2. /\ r.attempt_count \in 0..AttemptLimit /\ r.max_attempts \in 1..AttemptLimit
      /\ r.attempt_count <= r.max_attempts
      /\ r.attempts \in Seq(Attempt) /\ Len(r.attempts) = r.attempt_count
      /\ r.attempt_count \in 1..Len(r.attempts)
  BY <1>1, ConstantsAssumption DEF Row, RowAudit, RowBudget, AttemptOpen
<1>3. a \in Attempt /\ a.status = s /\ a.worker = w
  BY DEF Attempt
<1> HIDE DEF a
<1>4. /\ as \in Seq(Attempt) /\ Len(as) = r.attempt_count
      /\ \A n \in 1..r.attempt_count :
            as[n] = IF n = r.attempt_count THEN a ELSE r.attempts[n]
  <2>1. as \in Seq(Attempt) /\ Len(as) = Len(r.attempts)
    BY <1>2, <1>3
  <2>2. DOMAIN r.attempts = 1..r.attempt_count
    BY <1>2
  <2>3. QED
    BY <1>2, <2>1, <2>2
<1>5. f = [status |-> t, attempt_count |-> r.attempt_count,
           max_attempts |-> r.max_attempts, cancel_requested |-> c,
           locked_by |-> NoWorker, lease |-> "none", due |-> d, attempts |-> as]
  BY DEF Closed, a
<1> HIDE DEF as, f
<1>6. f \in Row
  <2>1. as \in Seq(Attempt)
    BY <1>4
  <2>2. r.attempt_count \in 0..AttemptLimit /\ r.max_attempts \in 1..AttemptLimit
    BY <1>2
  <2>3. QED
    BY <1>5, <2>1, <2>2 DEF Row, JobStatus, LeaseState
<1>7. RowAudit(f)
  <2>1. /\ f.status = t /\ f.attempt_count = r.attempt_count /\ f.attempts = as
    BY <1>5
  <2>2. Len(f.attempts) = f.attempt_count
    BY <2>1, <1>4
  <2>3. ASSUME NEW n \in 1..Len(f.attempts)
        PROVE  /\ f.attempts[n].status # "RUNNING"
               /\ f.attempts[n].status = "SUCCEEDED"
                    => f.status = "SUCCEEDED" /\ n = f.attempt_count
    <3>1. n \in 1..r.attempt_count
      BY <1>4, <2>1
    <3>2. CASE n = r.attempt_count
      <4>1. f.attempts[n] = a
        BY <3>1, <3>2, <1>4, <2>1
      <4>2. QED
        BY <4>1, <3>2, <2>1, <1>3 DEF AttemptStatus
    <3>3. CASE n # r.attempt_count
      <4>1. f.attempts[n] = r.attempts[n]
        BY <3>1, <3>3, <1>4, <2>1
      <4>2. QED
        BY <4>1, <3>1, <3>3, <1>1, <1>2 DEF RowAudit
    <3>4. QED
      BY <3>2, <3>3
  <2>4. QED
    BY <2>1, <2>2, <2>3 DEF RowAudit
<1>8. RowBudget(f)
  BY <1>2, <1>5, ConstantsAssumption DEF RowBudget
<1>9. KeepsAttempts(r, f)
  <2>1. f.attempts = as
    BY <1>5
  <2>2. /\ r.attempts[r.attempt_count].status = "RUNNING"
        /\ r.attempts[r.attempt_count].worker = w
    BY <1>1, <1>2 DEF RowAudit
  <2>3. ASSUME NEW n \in 1..Len(r.attempts)
        PROVE  /\ n <= Len(as)
               /\ as[n].worker = r.attempts[n].worker
               /\ r.attempts[n].status # "RUNNING" => as[n] = r.attempts[n]
    <3>1. n \in 1..r.attempt_count /\ n <= Len(as)
      BY <1>2, <1>4
    <3>2. CASE n = r.attempt_count
      BY <3>1, <3>2, <1>3, <1>4, <2>2
    <3>3. CASE n # r.attempt_count
      BY <3>1, <3>3, <1>4
    <3>4. QED
      BY <3>1, <3>2, <3>3
  <2>4. QED
    BY <2>1, <2>3 DEF KeepsAttempts
<1>10. QED
  BY <1>6, <1>7, <1>8, <1>9 DEF RowInv, f

(* The flags of a row, for the lemmas that carry them over.                   *)
LEMMA FlagsAreBoolean ==
  ASSUME NEW r, RowInv(r)
  PROVE  r.cancel_requested \in BOOLEAN /\ r.due \in BOOLEAN
  BY DEF RowInv, Row

(* fail records FAILED and requeues or buries the job.                        *)
LEMMA FailEnds ==
  ASSUME NEW r, RowInv(r), NEW w \in Worker, NEW retryable \in BOOLEAN
  PROVE  Ends(r, w, FailRow(r, w, retryable))
<1>1. r \in Row
  BY DEF RowInv
<1>2. CASE retryable /\ r.attempt_count < r.max_attempts
  <2>1. FailRow(r, w, retryable) = Closed(r, w, "FAILED", "PENDING", r.cancel_requested, FALSE)
    BY <1>1, <1>2 DEF FailRow, ClearLease, FinishAttempt, Row, Closed
  <2>2. QED
    BY <1>2, <2>1, FlagsAreBoolean DEF Ends, AttemptStatus
<1>3. CASE ~(retryable /\ r.attempt_count < r.max_attempts)
  <2>1. FailRow(r, w, retryable) = Closed(r, w, "FAILED", "DEAD_LETTER", r.cancel_requested, r.due)
    BY <1>1, <1>3 DEF FailRow, ClearLease, FinishAttempt, Row, Closed
  <2>2. QED
    BY <2>1, FlagsAreBoolean DEF Ends, AttemptStatus
<1>4. QED
  BY <1>2, <1>3

(* complete closes the attempt SUCCEEDED.                                     *)
LEMMA CompleteEnds ==
  ASSUME NEW r, RowInv(r), NEW w \in Worker
  PROVE  Ends(r, w, CompleteRow(r, w))
<1>1. r \in Row
  BY DEF RowInv
<1>2. CompleteRow(r, w) = Closed(r, w, "SUCCEEDED", "SUCCEEDED", r.cancel_requested, r.due)
  <2> DEFINE q == [r EXCEPT !.status = "SUCCEEDED"]
             as == [r.attempts EXCEPT ![r.attempt_count] = [worker |-> w, status |-> "SUCCEEDED"]]
  <2>1. q.attempts = r.attempts /\ q.attempt_count = r.attempt_count
    BY <1>1 DEF Row
  <2>2. FinishAttempt(q, w, "SUCCEEDED") = [q EXCEPT !.attempts = as]
    BY <2>1 DEF FinishAttempt
  <2>3. CompleteRow(r, w) = ClearLease([q EXCEPT !.attempts = as])
    BY <2>2 DEF CompleteRow
  <2>4. Closed(r, w, "SUCCEEDED", "SUCCEEDED", r.cancel_requested, r.due) =
          [status |-> "SUCCEEDED", attempt_count |-> r.attempt_count,
           max_attempts |-> r.max_attempts, cancel_requested |-> r.cancel_requested,
           locked_by |-> NoWorker, lease |-> "none", due |-> r.due, attempts |-> as]
    BY DEF Closed
  <2> HIDE DEF as
  <2>5. QED
    BY <1>1, <2>3, <2>4 DEF ClearLease, Row
<1>3. QED
  BY <1>2, FlagsAreBoolean DEF Ends, AttemptStatus

(* mark_cancelled closes the attempt CANCELLED.                               *)
LEMMA MarkCancelledEnds ==
  ASSUME NEW r, RowInv(r), NEW w \in Worker
  PROVE  Ends(r, w, MarkCancelledRow(r, w))
<1>1. r \in Row
  BY DEF RowInv
<1>2. MarkCancelledRow(r, w) = Closed(r, w, "CANCELLED", "CANCELLED", TRUE, r.due)
  <2> DEFINE q == [r EXCEPT !.status = "CANCELLED", !.cancel_requested = TRUE]
             as == [r.attempts EXCEPT ![r.attempt_count] = [worker |-> w, status |-> "CANCELLED"]]
  <2>1. q.attempts = r.attempts /\ q.attempt_count = r.attempt_count
    BY <1>1 DEF Row
  <2>2. FinishAttempt(q, w, "CANCELLED") = [q EXCEPT !.attempts = as]
    BY <2>1 DEF FinishAttempt
  <2>3. MarkCancelledRow(r, w) = ClearLease([q EXCEPT !.attempts = as])
    BY <2>2 DEF MarkCancelledRow
  <2>4. Closed(r, w, "CANCELLED", "CANCELLED", TRUE, r.due) =
          [status |-> "CANCELLED", attempt_count |-> r.attempt_count,
           max_attempts |-> r.max_attempts, cancel_requested |-> TRUE,
           locked_by |-> NoWorker, lease |-> "none", due |-> r.due, attempts |-> as]
    BY DEF Closed
  <2> HIDE DEF as
  <2>5. QED
    BY <1>1, <2>3, <2>4 DEF ClearLease, Row
<1>3. QED
  BY <1>2, FlagsAreBoolean DEF Ends, AttemptStatus

(* An operator's retry leaves the attempts and grants one if none is left.    *)
LEMMA RetryKeepsRow ==
  ASSUME NEW r, RowInv(r), r.status \in {"DEAD_LETTER", "CANCELLED"},
         r.attempt_count < AttemptLimit
  PROVE  RowInv(RetryRow(r))
<1> DEFINE m == IF r.attempt_count >= r.max_attempts
                THEN r.attempt_count + 1 ELSE r.max_attempts
           f == RetryRow(r)
<1>1. r \in Row /\ RowAudit(r) /\ RowBudget(r)
  BY DEF RowInv
<1>2. /\ AttemptLimit \in Nat /\ r.attempts \in Seq(Attempt)
      /\ r.attempt_count \in 0..AttemptLimit /\ r.max_attempts \in 1..AttemptLimit
      /\ r.attempt_count <= r.max_attempts
  BY <1>1, ConstantsAssumption DEF Row, RowBudget
<1>3. m \in 1..AttemptLimit /\ r.attempt_count < m
  BY <1>2
<1>4. f = ClearLease([r EXCEPT !.status = "PENDING", !.cancel_requested = FALSE,
                               !.due = TRUE, !.max_attempts = m])
  BY DEF RetryRow
<1> HIDE DEF m, f
<1>5. f = [status |-> "PENDING", attempt_count |-> r.attempt_count, max_attempts |-> m,
           cancel_requested |-> FALSE, locked_by |-> NoWorker, lease |-> "none",
           due |-> TRUE, attempts |-> r.attempts]
  BY <1>1, <1>4 DEF Row, ClearLease
<1>6. f \in Row
  <2>1. r.attempt_count \in 0..AttemptLimit
    BY <1>2
  <2>2. QED
    BY <1>2, <1>3, <1>5, <2>1 DEF Row, JobStatus, LeaseState
<1>7. RowAudit(f)
  BY <1>1, <1>5 DEF RowAudit
<1>8. RowBudget(f)
  BY <1>2, <1>3, <1>5 DEF RowBudget
<1>9. QED
  BY <1>6, <1>7, <1>8 DEF RowInv, f

(* Every step of a transaction preserves the row invariant and the history.  *)
LEMMA RowStepKeepsRow ==
  ASSUME NEW r, RowInv(r), NEW s, RowStep(r, s)
  PROVE  RowInv(s) /\ KeepsAttempts(r, s)
<1>0. r \in Row /\ RowAudit(r) /\ RowBudget(r)
  BY DEF RowInv
<1>1. CASE s = r
  BY <1>0, <1>1 DEF KeepsAttempts, Row
<1>2. ASSUME s.attempts = r.attempts
      PROVE  KeepsAttempts(r, s)
  BY <1>0, <1>2 DEF KeepsAttempts, Row
<1>3. CASE r.status = "ABSENT" /\ s = [r EXCEPT !.status = "PENDING"]
  BY <1>0, <1>2, <1>3 DEF RowInv, RowAudit, RowBudget, Row, JobStatus
<1>4. CASE r.status = "RUNNING" /\ AttemptOpen(r) /\ s = ReclaimRow(r)
  <2>1. r.locked_by \in Worker
    BY <1>0, <1>4 DEF RowBudget, Row
  <2>2. Ends(r, r.locked_by, s)
    BY <1>4, <2>1, FailEnds DEF ReclaimRow
  <2>3. QED
    BY <1>4, <2>1, <2>2, ClosedKeepsRow DEF Ends
<1>5. ASSUME Leasable(r), NEW w \in Worker, s = LeaseRow(r, w)
      PROVE  RowInv(s) /\ KeepsAttempts(r, s)
  BY <1>5, LeaseKeepsRow
<1>6. ASSUME Leasable(r), NEW w \in Worker, s = FailRow(LeaseRow(r, w), w, FALSE)
      PROVE  RowInv(s) /\ KeepsAttempts(r, s)
  <2> DEFINE q == LeaseRow(r, w)
  <2>1. /\ RowInv(q) /\ AttemptOpen(q) /\ q.status = "RUNNING" /\ q.locked_by = w
        /\ KeepsAttempts(r, q)
    BY <1>6, LeaseKeepsRow
  <2> HIDE DEF q
  <2>2. Ends(q, w, s)
    BY <1>6, <2>1, FailEnds DEF q
  <2>3. RowInv(s) /\ KeepsAttempts(q, s)
    BY <2>1, <2>2, ClosedKeepsRow DEF Ends
  <2>4. Len(r.attempts) \in Nat /\ Len(q.attempts) \in Nat /\ Len(s.attempts) \in Nat
    BY <1>0, <2>1, <2>3 DEF RowInv, Row
  <2>5. KeepsAttempts(r, s)
    BY <2>1, <2>3, <2>4 DEF KeepsAttempts
  <2>6. QED
    BY <2>3, <2>5
<1>7. CASE r.status = "RUNNING" /\ s = [r EXCEPT !.lease = "fresh"]
  BY <1>0, <1>2, <1>7 DEF RowInv, RowAudit, RowBudget, Row, LeaseState
<1>8. ASSUME NEW w \in Worker, EndsAttempt(r, s, w)
      PROVE  RowInv(s) /\ KeepsAttempts(r, s)
  <2>1. r.status = "RUNNING" /\ r.locked_by = w /\ AttemptOpen(r)
    BY <1>8 DEF EndsAttempt, OwnsLiveLease
  <2>2. Ends(r, w, s)
    BY <1>8, FailEnds, CompleteEnds, MarkCancelledEnds DEF EndsAttempt
  <2>3. QED
    BY <2>1, <2>2, ClosedKeepsRow DEF Ends
<1>9. CASE r.status \in {"PENDING", "RUNNING"} /\ s = CancelRow(r)
  BY <1>0, <1>2, <1>9 DEF RowInv, RowAudit, RowBudget, Row, CancelRow, JobStatus
<1>10. CASE /\ r.status \in {"DEAD_LETTER", "CANCELLED"}
            /\ r.attempt_count < AttemptLimit
            /\ s = RetryRow(r)
  <2>1. s.attempts = r.attempts
    BY <1>0, <1>10 DEF RetryRow, ClearLease, Row
  <2>2. QED
    BY <1>2, <1>10, <2>1, RetryKeepsRow
<1>11. CASE /\ r.lease \in {"fresh", "ageing"}
            /\ s = [r EXCEPT !.lease = IF @ = "fresh" THEN "ageing" ELSE "expired"]
  BY <1>0, <1>2, <1>11 DEF RowInv, RowAudit, RowBudget, Row, LeaseState
<1>12. CASE r.status = "PENDING" /\ s = [r EXCEPT !.due = TRUE]
  BY <1>0, <1>2, <1>12 DEF RowInv, RowAudit, RowBudget, Row
<1>13. QED
  BY <1>1, <1>3, <1>4, <1>5, <1>6, <1>7, <1>8, <1>9, <1>10, <1>11, <1>12 DEF RowStep

-----------------------------------------------------------------------------
(* From rows to steps of the queue.                                         *)

QueueInv == TypeOK /\ \A j \in Job : RowInv(jobs[j])

(* Initially no row is in the table and no coroutine runs.                   *)
LEMMA QueueInvInit == Init => QueueInv
<1> SUFFICES ASSUME Init PROVE QueueInv
  OBVIOUS
<1>1. \A j \in Job : jobs[j] = Absent
  BY DEF Init
<1>2. RowInv(Absent) /\ Absent \in Row
  BY AbsentRow DEF RowInv
<1>3. jobs \in [Job -> Row]
  BY <1>2 DEF Init
<1>4. execs \in [Worker -> SUBSET Exec]
  BY DEF Init
<1>5. QED
  BY <1>1, <1>2, <1>3, <1>4 DEF QueueInv, TypeOK

(* A transaction on one row leaves the others alone.                         *)
LEMMA OneRow ==
  ASSUME jobs \in [Job -> Row], NEW j \in Job, NEW s,
         jobs' = [jobs EXCEPT ![j] = s], RowStep(jobs[j], s)
  PROVE  /\ jobs' = [i \in Job |-> jobs'[i]]
         /\ \A i \in Job : RowStep(jobs[i], jobs'[i])
<1>1. jobs' = [i \in Job |-> jobs'[i]] /\ jobs'[j] = s
  OBVIOUS
<1>2. \A i \in Job : i # j => jobs'[i] = jobs[i]
  OBVIOUS
<1>3. \A i \in Job : i # j => RowStep(jobs[i], jobs'[i])
  BY <1>2 DEF RowStep
<1>4. QED
  BY <1>1, <1>3

(* Every step of the queue takes each row through one of its transactions.   *)
LEMMA StepsAreRowSteps ==
  ASSUME QueueInv, [Next]_vars
  PROVE  /\ jobs' = [i \in Job |-> jobs'[i]]
         /\ \A i \in Job : RowStep(jobs[i], jobs'[i])
<1> USE DEF QueueInv, TypeOK
<1>1. ASSUME UNCHANGED jobs
      PROVE  /\ jobs' = [i \in Job |-> jobs'[i]]
             /\ \A i \in Job : RowStep(jobs[i], jobs'[i])
  BY <1>1 DEF RowStep
<1>2. CASE ReclaimStale
  <2>1. PICK S \in SUBSET {j \in Job : jobs[j].status = "RUNNING" /\ jobs[j].lease = "expired"} :
            /\ \A j \in S : AttemptOpen(jobs[j])
            /\ jobs' = [j \in Job |-> IF j \in S THEN ReclaimRow(jobs[j]) ELSE jobs[j]]
    BY <1>2 DEF ReclaimStale
  <2>2. \A j \in Job : j \in S => RowStep(jobs[j], jobs'[j])
    BY <2>1 DEF RowStep
  <2>3. \A j \in Job : j \notin S => RowStep(jobs[j], jobs'[j])
    BY <2>1 DEF RowStep
  <2>4. jobs' = [i \in Job |-> jobs'[i]]
    BY <2>1
  <2>5. QED
    BY <2>2, <2>3, <2>4
<1>3. ASSUME NEW w \in Worker, Lease(w)
      PROVE  /\ jobs' = [i \in Job |-> jobs'[i]]
             /\ \A i \in Job : RowStep(jobs[i], jobs'[i])
  <2>1. PICK S \in SUBSET {j \in Job : Leasable(jobs[j])} :
            jobs' = [j \in Job |->
                      IF j \notin S THEN jobs[j]
                      ELSE IF j \in UnknownTypeJob
                           THEN FailRow(LeaseRow(jobs[j], w), w, FALSE)
                           ELSE LeaseRow(jobs[j], w)]
    BY <1>3 DEF Lease
  <2>2. \A j \in Job : j \in S /\ j \in UnknownTypeJob => RowStep(jobs[j], jobs'[j])
    BY <2>1 DEF RowStep
  <2>3. \A j \in Job : j \in S /\ j \notin UnknownTypeJob => RowStep(jobs[j], jobs'[j])
    BY <2>1 DEF RowStep
  <2>4. \A j \in Job : j \notin S => RowStep(jobs[j], jobs'[j])
    BY <2>1 DEF RowStep
  <2>5. jobs' = [i \in Job |-> jobs'[i]]
    BY <2>1
  <2>6. QED
    BY <2>2, <2>3, <2>4, <2>5
<1>4. ASSUME NEW w \in Worker, NEW e \in execs[w],
             Heartbeat(w, e) \/ Complete(w, e) \/ Fail(w, e) \/ MarkCancelled(w, e)
      PROVE  /\ jobs' = [i \in Job |-> jobs'[i]]
             /\ \A i \in Job : RowStep(jobs[i], jobs'[i])
  <2>1. e.job \in Job
    BY DEF Exec
  <2>2. CASE Heartbeat(w, e)
    <3>1. CASE UNCHANGED jobs
      BY <1>1, <3>1
    <3>2. CASE /\ OwnsLiveLease(jobs[e.job], w)
               /\ jobs' = [jobs EXCEPT ![e.job].lease = "fresh"]
      <4>1. RowStep(jobs[e.job], [jobs[e.job] EXCEPT !.lease = "fresh"])
        BY <3>2 DEF OwnsLiveLease, RowStep
      <4>2. QED
        BY <2>1, <3>2, <4>1, OneRow
    <3>3. QED
      BY <2>2, <3>1, <3>2 DEF Heartbeat
  <2>3. CASE Complete(w, e)
    <3>1. CASE /\ OwnsLiveLease(jobs[e.job], w) /\ AttemptOpen(jobs[e.job])
               /\ jobs' = [jobs EXCEPT ![e.job] = CompleteRow(jobs[e.job], w)]
      <4>1. RowStep(jobs[e.job], CompleteRow(jobs[e.job], w))
        BY <3>1 DEF EndsAttempt, RowStep
      <4>2. QED
        BY <2>1, <3>1, <4>1, OneRow
    <3>2. CASE UNCHANGED jobs
      BY <1>1, <3>2
    <3>3. QED
      BY <2>3, <3>1, <3>2 DEF Complete
  <2>4. CASE Fail(w, e)
    <3> DEFINE r == FailRow(jobs[e.job], w, e.pc = "fail_retry")
    <3>1. CASE /\ OwnsLiveLease(jobs[e.job], w) /\ AttemptOpen(jobs[e.job])
               /\ jobs' = [jobs EXCEPT ![e.job] = r]
      <4>1. EndsAttempt(jobs[e.job], r, w)
        BY <3>1 DEF EndsAttempt
      <4>2. RowStep(jobs[e.job], r)
        BY <4>1 DEF RowStep
      <4>3. QED
        BY <2>1, <3>1, <4>2, OneRow
    <3>2. CASE UNCHANGED jobs
      BY <1>1, <3>2
    <3>3. QED
      BY <2>4, <3>1, <3>2 DEF Fail
  <2>5. CASE MarkCancelled(w, e)
    <3>1. CASE /\ OwnsLiveLease(jobs[e.job], w) /\ AttemptOpen(jobs[e.job])
               /\ jobs' = [jobs EXCEPT ![e.job] = MarkCancelledRow(jobs[e.job], w)]
      <4>1. RowStep(jobs[e.job], MarkCancelledRow(jobs[e.job], w))
        BY <3>1 DEF EndsAttempt, RowStep
      <4>2. QED
        BY <2>1, <3>1, <4>1, OneRow
    <3>2. CASE UNCHANGED jobs
      BY <1>1, <3>2
    <3>3. QED
      BY <2>5, <3>1, <3>2 DEF MarkCancelled
  <2>6. QED
    BY <1>4, <2>2, <2>3, <2>4, <2>5
<1>5. ASSUME NEW w \in Worker, WorkerStep(w)
      PROVE  /\ jobs' = [i \in Job |-> jobs'[i]]
             /\ \A i \in Job : RowStep(jobs[i], jobs'[i])
  <2>1. CASE Lease(w)
    BY <1>3, <2>1
  <2>2. CASE Crash(w)
    BY <1>1, <2>2 DEF Crash
  <2>3. ASSUME NEW e \in execs[w],
               Heartbeat(w, e) \/ ExecStep(w, e) \/ CleanupFails(w, e) \/ Abort(w, e)
        PROVE  /\ jobs' = [i \in Job |-> jobs'[i]]
               /\ \A i \in Job : RowStep(jobs[i], jobs'[i])
    <3>1. CASE Heartbeat(w, e) \/ Complete(w, e) \/ Fail(w, e) \/ MarkCancelled(w, e)
      BY <1>4, <3>1
    <3>2. CASE \/ HandlerReturns(w, e) \/ HandlerRaises(w, e) \/ HandlerDisowned(w, e)
               \/ CheckpointCancels(w, e) \/ CheckpointPasses(w, e)
               \/ \E consistent \in BOOLEAN : EnsureSuccess(w, e, consistent)
               \/ Reconciled(w, e) \/ Abandon(w, e) \/ CleanupFails(w, e) \/ Abort(w, e)
      BY <1>1, <3>2 DEF HandlerReturns, HandlerRaises, HandlerDisowned, CheckpointCancels,
                        CheckpointPasses, EnsureSuccess, Reconciled, Abandon, CleanupFails,
                        Abort
    <3>3. QED
      BY <2>3, <3>1, <3>2 DEF ExecStep
  <2>4. QED
    BY <1>5, <2>1, <2>2, <2>3 DEF WorkerStep
<1>6. ASSUME NEW j \in Job, JobStep(j)
      PROVE  /\ jobs' = [i \in Job |-> jobs'[i]]
             /\ \A i \in Job : RowStep(jobs[i], jobs'[i])
  <2>1. CASE Enqueue(j)
    <3>1. CASE jobs[j].status = "ABSENT"
      <4>1. RowStep(jobs[j], [jobs[j] EXCEPT !.status = "PENDING"])
        BY <3>1 DEF RowStep
      <4>2. jobs' = [jobs EXCEPT ![j] = [jobs[j] EXCEPT !.status = "PENDING"]]
        BY <2>1, <3>1 DEF Enqueue
      <4>3. QED
        BY <4>1, <4>2, OneRow
    <3>2. CASE jobs[j].status # "ABSENT"
      BY <1>1, <2>1, <3>2 DEF Enqueue
    <3>3. QED
      BY <3>1, <3>2
  <2>2. CASE Cancel(j)
    <3>1. RowStep(jobs[j], CancelRow(jobs[j]))
      BY <2>2 DEF RowStep, Cancel
    <3>2. QED
      BY <2>2, <3>1, OneRow DEF Cancel
  <2>3. CASE Retry(j)
    <3>1. RowStep(jobs[j], RetryRow(jobs[j]))
      BY <2>3 DEF RowStep, Retry
    <3>2. QED
      BY <2>3, <3>1, OneRow DEF Retry
  <2>4. CASE LeaseAges(j)
    <3> DEFINE s == [jobs[j] EXCEPT !.lease = IF @ = "fresh" THEN "ageing" ELSE "expired"]
    <3>1. RowStep(jobs[j], s)
      BY <2>4 DEF RowStep, LeaseAges
    <3>2. jobs' = [jobs EXCEPT ![j] = s]
      BY <2>4 DEF LeaseAges
    <3>3. QED
      BY <3>1, <3>2, OneRow
  <2>5. CASE BackoffElapses(j)
    <3>1. RowStep(jobs[j], [jobs[j] EXCEPT !.due = TRUE])
      BY <2>5 DEF RowStep, BackoffElapses
    <3>2. jobs' = [jobs EXCEPT ![j] = [jobs[j] EXCEPT !.due = TRUE]]
      BY <2>5 DEF BackoffElapses
    <3>3. QED
      BY <3>1, <3>2, OneRow
  <2>6. QED
    BY <1>6, <2>1, <2>2, <2>3, <2>4, <2>5 DEF JobStep
<1>7. CASE UNCHANGED vars
  BY <1>1, <1>7 DEF vars
<1>8. QED
  BY <1>2, <1>5, <1>6, <1>7 DEF Next

-----------------------------------------------------------------------------
(* The coroutines alive in one worker.                                      *)

OwnerOf(e, w, js) ==
    /\ e.attempt <= js[e.job].attempt_count
    /\ js[e.job].attempts[e.attempt].worker = w

ExecInv(E, w, js) ==
    /\ E \subseteq Exec
    /\ \A e \in E : OwnerOf(e, w, js)
    /\ \A e, f \in E : f.job = e.job /\ f.attempt = e.attempt => f = e

(* A coroutine that ends takes nothing from the others.                      *)
LEMMA EndKeepsExecs ==
  ASSUME NEW E, NEW w, NEW js, ExecInv(E, w, js), NEW F \in SUBSET E
  PROVE  ExecInv(F, w, js)
  BY DEF ExecInv

(* A coroutine that moves on stays that of its job and attempt.              *)
LEMMA GotoKeepsExecs ==
  ASSUME NEW E, NEW w, NEW js, ExecInv(E, w, js), NEW e \in E, NEW pc \in ExecPc
  PROVE  ExecInv((E \ {e}) \cup {[e EXCEPT !.pc = pc]}, w, js)
<1> DEFINE g == [e EXCEPT !.pc = pc]
<1>1. e \in Exec /\ E \subseteq Exec
  BY DEF ExecInv
<1>2. g \in Exec /\ g.job = e.job /\ g.attempt = e.attempt
  BY <1>1 DEF Exec
<1> HIDE DEF g
<1>3. OwnerOf(g, w, js)
  BY <1>2 DEF ExecInv, OwnerOf
<1>4. \A f \in E \ {e} : ~(f.job = g.job /\ f.attempt = g.attempt)
  BY <1>2 DEF ExecInv
<1>5. QED
  BY <1>1, <1>2, <1>3, <1>4 DEF ExecInv, g

(* Siblings that nobody awaits any more stay those of their attempts.        *)
LEMMA OrphansKeepExecs ==
  ASSUME NEW E, NEW w, NEW js, ExecInv(E, w, js), NEW F \in SUBSET E
  PROVE  ExecInv({[x EXCEPT !.awaited = FALSE] : x \in F}, w, js)
<1> DEFINE o(x) == [x EXCEPT !.awaited = FALSE]
<1>1. ASSUME NEW x \in F
      PROVE  o(x) \in Exec /\ o(x).job = x.job /\ o(x).attempt = x.attempt /\ x \in E
  <2>1. x \in E /\ x \in Exec
    BY DEF ExecInv
  <2>2. QED
    BY <2>1 DEF Exec
<1> HIDE DEF o
<1>2. \A x \in F : OwnerOf(o(x), w, js)
  BY <1>1 DEF ExecInv, OwnerOf
<1>3. \A x, y \in F : o(x).job = o(y).job /\ o(x).attempt = o(y).attempt => o(x) = o(y)
  BY <1>1 DEF ExecInv
<1>4. ExecInv({o(x) : x \in F}, w, js)
  BY <1>1, <1>2, <1>3 DEF ExecInv
<1>5. QED
  BY <1>4 DEF o

(* What a transaction does to a row leaves every attempt with its worker.    *)
LEMMA RowStepsKeepExecs ==
  ASSUME NEW js, NEW ks, NEW E, NEW w, ExecInv(E, w, js),
         \A j \in Job : RowInv(js[j]) /\ RowInv(ks[j]) /\ KeepsAttempts(js[j], ks[j])
  PROVE  ExecInv(E, w, ks)
<1>1. ASSUME NEW e \in E
      PROVE  OwnerOf(e, w, ks)
  <2>1. e.job \in Job /\ e.attempt \in 1..AttemptLimit /\ OwnerOf(e, w, js)
    BY DEF ExecInv, Exec
  <2> DEFINE r == js[e.job]
             s == ks[e.job]
  <2>2. RowInv(r) /\ RowInv(s) /\ KeepsAttempts(r, s)
    BY <2>1
  <2>3. e.attempt <= r.attempt_count /\ r.attempts[e.attempt].worker = w
    BY <2>1 DEF OwnerOf
  <2> HIDE DEF r, s
  <2>4. /\ r.attempt_count \in Nat /\ s.attempt_count \in Nat
        /\ Len(r.attempts) = r.attempt_count /\ Len(s.attempts) = s.attempt_count
    BY <2>2, ConstantsAssumption DEF RowInv, Row, RowAudit
  <2>5. e.attempt \in 1..Len(r.attempts)
    BY <2>1, <2>3, <2>4, ConstantsAssumption
  <2>6. e.attempt <= s.attempt_count /\ s.attempts[e.attempt].worker = w
    BY <2>2, <2>3, <2>4, <2>5 DEF KeepsAttempts
  <2>7. QED
    BY <2>6 DEF OwnerOf, s
<1>2. QED
  BY <1>1 DEF ExecInv

(* lease starts one coroutine for the new attempt of each job it leases.     *)
LEMMA LeaseKeepsExecs ==
  ASSUME NEW js, NEW ks, NEW E, NEW w \in Worker, NEW S \in SUBSET Job,
         ExecInv(E, w, js), ExecInv(E, w, ks),
         \A j \in Job : RowInv(js[j]),
         \A j \in S : Leasable(js[j]) /\ ks[j] = LeaseRow(js[j], w)
  PROVE  ExecInv(E \cup {Started(j, js[j].attempt_count + 1) : j \in S}, w, ks)
<1> DEFINE n(j) == Started(j, js[j].attempt_count + 1)
<1>1. ASSUME NEW j \in S
      PROVE  /\ n(j) \in Exec /\ n(j).job = j /\ n(j).attempt = js[j].attempt_count + 1
             /\ js[j].attempt_count \in Nat
             /\ OwnerOf(n(j), w, ks)
  <2>1. /\ js[j].attempt_count \in Nat /\ js[j].max_attempts \in Nat
        /\ js[j].attempt_count < js[j].max_attempts /\ js[j].max_attempts <= AttemptLimit
    BY ConstantsAssumption DEF RowInv, Row, RowBudget, Leasable
  <2>2. js[j].attempt_count + 1 \in 1..AttemptLimit
    BY <2>1, ConstantsAssumption
  <2>3. n(j) \in Exec /\ n(j).job = j /\ n(j).attempt = js[j].attempt_count + 1
    BY <2>2 DEF Started, Exec, ExecPc
  <2> HIDE DEF n
  <2>4. /\ ks[j].attempt_count = js[j].attempt_count + 1
        /\ ks[j].attempts[js[j].attempt_count + 1].worker = w
    BY LeaseKeepsRow
  <2>5. OwnerOf(n(j), w, ks)
    BY <2>1, <2>3, <2>4 DEF OwnerOf
  <2>6. QED
    BY <2>1, <2>3, <2>5
<1>2. ASSUME NEW e \in E, NEW j \in S
      PROVE  ~(e.job = n(j).job /\ e.attempt = n(j).attempt)
  <2>1. e.job = j => e.attempt <= js[j].attempt_count
    BY DEF ExecInv, OwnerOf
  <2>2. QED
    BY <1>1, <2>1
<1> HIDE DEF n
<1>3. \A i, j \in S : n(i).job = n(j).job => n(i) = n(j)
  BY <1>1
<1>4. ExecInv(E \cup {n(j) : j \in S}, w, ks)
  BY <1>1, <1>2, <1>3 DEF ExecInv
<1>5. QED
  BY <1>4 DEF n

-----------------------------------------------------------------------------
(* The inductive invariant, and what it implies.                            *)

Inv == QueueInv /\ \A w \in Worker : ExecInv(execs[w], w, jobs)

(* The rows keep their invariant and their history.                          *)
LEMMA RowsStep ==
  ASSUME QueueInv, [Next]_vars
  PROVE  /\ jobs' \in [Job -> Row]
         /\ \A j \in Job : RowInv(jobs'[j]) /\ KeepsAttempts(jobs[j], jobs'[j])
<1>1. \A j \in Job : RowInv(jobs'[j]) /\ KeepsAttempts(jobs[j], jobs'[j])
  <2>1. ASSUME NEW j \in Job
        PROVE  RowInv(jobs[j]) /\ RowStep(jobs[j], jobs'[j])
    BY StepsAreRowSteps DEF QueueInv
  <2>2. QED
    BY <2>1, RowStepKeepsRow
<1>2. jobs' = [j \in Job |-> jobs'[j]]
  BY StepsAreRowSteps
<1>3. \A j \in Job : jobs'[j] \in Row
  BY <1>1 DEF RowInv
<1>4. jobs' \in [Job -> Row]
  BY <1>2, <1>3
<1>5. QED
  BY <1>1, <1>4

(* The attempts of a job keep their numbers and workers.                     *)
LEMMA AttemptsStay ==
  ASSUME QueueInv, [Next]_vars, NEW j \in Job, NEW n \in 1..AttemptLimit,
         n <= jobs[j].attempt_count
  PROVE  /\ n <= jobs'[j].attempt_count
         /\ jobs'[j].attempts[n].worker = jobs[j].attempts[n].worker
<1> DEFINE r == jobs[j]
           s == jobs'[j]
<1>1. RowInv(r) /\ RowInv(s) /\ KeepsAttempts(r, s)
  BY RowsStep DEF QueueInv
<1> HIDE DEF r, s
<1>2. /\ r.attempt_count \in Nat /\ s.attempt_count \in Nat
      /\ Len(r.attempts) = r.attempt_count /\ Len(s.attempts) = s.attempt_count
  BY <1>1, ConstantsAssumption DEF RowInv, Row, RowAudit
<1>3. n <= r.attempt_count
  BY DEF r
<1>4. n \in 1..Len(r.attempts)
  BY <1>2, <1>3, ConstantsAssumption
<1>5. n <= s.attempt_count /\ s.attempts[n].worker = r.attempts[n].worker
  BY <1>1, <1>2, <1>4 DEF KeepsAttempts
<1>6. QED
  BY <1>5 DEF r, s

(* A step of one worker leaves the coroutines of the others alone.           *)
LEMMA OneWorker ==
  ASSUME execs \in [Worker -> SUBSET Exec], NEW w \in Worker, NEW F,
         execs' = [execs EXCEPT ![w] = F], ExecInv(F, w, jobs'),
         \A v \in Worker : ExecInv(execs[v], v, jobs')
  PROVE  /\ execs' \in [Worker -> SUBSET Exec]
         /\ \A v \in Worker : ExecInv(execs'[v], v, jobs')
<1>1. F \subseteq Exec
  BY DEF ExecInv
<1>2. execs' \in [Worker -> SUBSET Exec]
  BY <1>1
<1>3. \A v \in Worker : execs'[v] = IF v = w THEN F ELSE execs[v]
  OBVIOUS
<1>4. QED
  BY <1>2, <1>3

(* Every step keeps the coroutines typed, owned and unique.                  *)
LEMMA ExecsStep ==
  ASSUME Inv, [Next]_vars
  PROVE  /\ execs' \in [Worker -> SUBSET Exec]
         /\ \A v \in Worker : ExecInv(execs'[v], v, jobs')
<1>1. /\ jobs \in [Job -> Row] /\ execs \in [Worker -> SUBSET Exec]
      /\ \A j \in Job : RowInv(jobs[j])
      /\ \A v \in Worker : ExecInv(execs[v], v, jobs)
  BY DEF Inv, QueueInv, TypeOK
<1>2. \A v \in Worker : ExecInv(execs[v], v, jobs')
  <2>1. \A j \in Job : RowInv(jobs[j]) /\ RowInv(jobs'[j]) /\ KeepsAttempts(jobs[j], jobs'[j])
    BY <1>1, RowsStep DEF Inv
  <2>2. QED
    BY <1>1, <2>1, RowStepsKeepExecs
<1>3. ASSUME UNCHANGED execs
      PROVE  /\ execs' \in [Worker -> SUBSET Exec]
             /\ \A v \in Worker : ExecInv(execs'[v], v, jobs')
  BY <1>1, <1>2, <1>3
<1>4. ASSUME NEW w \in Worker, WorkerStep(w)
      PROVE  /\ execs' \in [Worker -> SUBSET Exec]
             /\ \A v \in Worker : ExecInv(execs'[v], v, jobs')
  <2>1. CASE Lease(w)
    <3>1. PICK S \in SUBSET {j \in Job : Leasable(jobs[j])} :
            /\ jobs' = [j \in Job |->
                          IF j \notin S THEN jobs[j]
                          ELSE IF j \in UnknownTypeJob
                               THEN FailRow(LeaseRow(jobs[j], w), w, FALSE)
                               ELSE LeaseRow(jobs[j], w)]
            /\ execs' = [execs EXCEPT ![w] = execs[w] \cup
                  {Started(j, jobs[j].attempt_count + 1) : j \in S \ UnknownTypeJob}]
      BY <2>1 DEF Lease
    <3> DEFINE T == S \ UnknownTypeJob
               F == execs[w] \cup {Started(j, jobs[j].attempt_count + 1) : j \in T}
    <3>2. /\ T \in SUBSET Job
          /\ \A j \in T : Leasable(jobs[j]) /\ jobs'[j] = LeaseRow(jobs[j], w)
      BY <3>1
    <3>3. execs' = [execs EXCEPT ![w] = F]
      BY <3>1
    <3> HIDE DEF T
    <3>4. ExecInv(F, w, jobs')
      BY <1>1, <1>2, <3>2, LeaseKeepsExecs
    <3> HIDE DEF F
    <3>5. QED
      BY <1>1, <1>2, <3>3, <3>4, OneWorker
  <2>2. CASE Crash(w)
    <3>1. ExecInv({}, w, jobs')
      BY DEF ExecInv
    <3>2. QED
      BY <1>1, <1>2, <2>2, <3>1, OneWorker DEF Crash
  <2>3. ASSUME NEW e \in execs[w],
               Heartbeat(w, e) \/ ExecStep(w, e) \/ CleanupFails(w, e) \/ Abort(w, e)
        PROVE  /\ execs' \in [Worker -> SUBSET Exec]
               /\ \A v \in Worker : ExecInv(execs'[v], v, jobs')
    <3>1. ASSUME NEW pc \in ExecPc, Goto(w, e, pc)
          PROVE  /\ execs' \in [Worker -> SUBSET Exec]
                 /\ \A v \in Worker : ExecInv(execs'[v], v, jobs')
      <4> DEFINE F == (execs[w] \ {e}) \cup {[e EXCEPT !.pc = pc]}
      <4>1. ExecInv(F, w, jobs')
        BY <1>2, GotoKeepsExecs
      <4>2. execs' = [execs EXCEPT ![w] = F]
        BY <3>1 DEF Goto
      <4> HIDE DEF F
      <4>3. QED
        BY <1>1, <1>2, <4>1, <4>2, OneWorker
    <3>2. CASE Finish(w, e)
      <4>1. ExecInv(execs[w] \ {e}, w, jobs')
        BY <1>2, EndKeepsExecs
      <4>2. QED
        BY <1>1, <1>2, <3>2, <4>1, OneWorker DEF Finish
    <3>3. CASE Raise(w, e)
      <4> DEFINE O == {[x EXCEPT !.awaited = FALSE] : x \in execs[w] \ {e}}
                 F == IF e.awaited THEN O ELSE execs[w] \ {e}
      <4>1. ExecInv(execs[w] \ {e}, w, jobs')
        BY <1>2, EndKeepsExecs
      <4>2. ExecInv(O, w, jobs')
        BY <1>2, OrphansKeepExecs
      <4>3. execs' = [execs EXCEPT ![w] = F]
        BY <3>3 DEF Raise
      <4> HIDE DEF O
      <4>4. ExecInv(F, w, jobs')
        BY <4>1, <4>2
      <4> HIDE DEF F
      <4>5. QED
        BY <1>1, <1>2, <4>3, <4>4, OneWorker
    <3>4. CASE UNCHANGED execs
      BY <1>3, <3>4
    <3>5. CASE Leave(w, e)
      BY <3>2, <3>3, <3>5 DEF Leave
    <3>6. CASE Heartbeat(w, e)
      BY <3>1, <3>4, <3>6 DEF Heartbeat, ExecPc
    <3>7. CASE HandlerReturns(w, e) \/ HandlerRaises(w, e) \/ HandlerDisowned(w, e)
      BY <3>1, <3>7 DEF HandlerReturns, HandlerRaises, HandlerDisowned, ExecPc
    <3>8. CASE CheckpointCancels(w, e) \/ CheckpointPasses(w, e) \/ CleanupFails(w, e)
      BY <3>1, <3>8 DEF CheckpointCancels, CheckpointPasses, CleanupFails, ExecPc
    <3>9. ASSUME NEW consistent \in BOOLEAN, EnsureSuccess(w, e, consistent)
          PROVE  /\ execs' \in [Worker -> SUBSET Exec]
                 /\ \A v \in Worker : ExecInv(execs'[v], v, jobs')
      BY <3>1, <3>9 DEF EnsureSuccess, ExecPc
    <3>10. CASE Complete(w, e)
      BY <3>1, <3>5, <3>10 DEF Complete, ExecPc
    <3>11. CASE Fail(w, e)
      BY <3>1, <3>3, <3>5, <3>11 DEF Fail, ExecPc
    <3>12. CASE MarkCancelled(w, e)
      BY <3>1, <3>3, <3>12 DEF MarkCancelled, ExecPc
    <3>13. CASE Reconciled(w, e) \/ Abandon(w, e) \/ Abort(w, e)
      BY <3>3, <3>5, <3>13 DEF Reconciled, Abandon, Abort
    <3>14. QED
      BY <2>3, <3>6, <3>7, <3>8, <3>9, <3>10, <3>11, <3>12, <3>13 DEF ExecStep
  <2>4. QED
    BY <1>4, <2>1, <2>2, <2>3 DEF WorkerStep
<1>5. CASE ReclaimStale
  BY <1>3, <1>5 DEF ReclaimStale
<1>6. ASSUME NEW j \in Job, JobStep(j)
      PROVE  UNCHANGED execs
  BY <1>6 DEF JobStep, Enqueue, Cancel, Retry, LeaseAges, BackoffElapses
<1>7. CASE UNCHANGED vars
  BY <1>3, <1>7 DEF vars
<1>8. QED
  BY <1>3, <1>4, <1>5, <1>6, <1>7 DEF Next

(* Inv is inductive.                                                         *)
LEMMA InvInit == Init => Inv
<1> SUFFICES ASSUME Init PROVE Inv
  OBVIOUS
<1>1. \A w \in Worker : ExecInv(execs[w], w, jobs)
  BY DEF Init, ExecInv
<1>2. QED
  BY <1>1, QueueInvInit DEF Inv

(* Inv is preserved by every step, stuttering included.                      *)
LEMMA InvNext == Inv /\ [Next]_vars => Inv'
<1> SUFFICES ASSUME Inv, [Next]_vars PROVE Inv'
  OBVIOUS
<1>1. QueueInv
  BY DEF Inv
<1>2. /\ jobs' \in [Job -> Row] /\ \A j \in Job : RowInv(jobs'[j])
  BY <1>1, RowsStep
<1>3. /\ execs' \in [Worker -> SUBSET Exec]
      /\ \A v \in Worker : ExecInv(execs'[v], v, jobs')
  BY ExecsStep
<1>4. QED
  BY <1>2, <1>3 DEF Inv, QueueInv, TypeOK

(* What every reachable state satisfies.                                     *)
LEMMA InvHolds == Spec => []Inv
  BY InvInit, InvNext, PTL DEF Spec

(* Every row and every coroutine is always what the tables and the code can   *)
(* hold, for any number of jobs and workers: attempt numbers never leave      *)
(* their bound although retries extend it.                                     *)
THEOREM TypeCorrect == Spec => []TypeOK
<1>1. Inv => TypeOK
  BY DEF Inv, QueueInv
<1>2. QED
  BY <1>1, InvHolds, PTL

(* job_attempts always agrees with background_jobs, a waiting job has an       *)
(* attempt left, and a lease is held by RUNNING jobs.                          *)
THEOREM RowsHold == Spec => []RowsAudited
<1>1. Inv => AttemptAudit
  BY DEF Inv, QueueInv, RowInv, RowAudit, AttemptAudit
<1>2. Inv => AttemptBudget
  BY DEF Inv, QueueInv, RowInv, RowBudget, AttemptBudget
<1>3. QED
  BY <1>1, <1>2, InvHolds, PTL DEF RowsAudited

(* No worker ever runs an attempt leased to another one, nor one twice.        *)
THEOREM OwnershipHolds == Spec => []CurrentAttemptOwned
<1>1. Inv => CurrentAttemptOwned
  BY DEF Inv, ExecInv, OwnerOf, CurrentAttemptOwned
<1>2. QED
  BY <1>1, InvHolds, PTL

(* No transaction, however stale its caller, rewrites a closed attempt or      *)
(* gives an attempt to another worker.                                         *)
THEOREM HistoryHolds == Spec => AttemptsKeepTheirWorker
<1> DEFINE A == \A j \in Job : \A n \in 1..Len(jobs[j].attempts) :
          /\ n <= Len(jobs'[j].attempts)
          /\ jobs'[j].attempts[n].worker = jobs[j].attempts[n].worker
          /\ jobs[j].attempts[n].status # "RUNNING"
               => jobs'[j].attempts[n] = jobs[j].attempts[n]
<1>1. Inv /\ [Next]_vars => A
  BY RowsStep DEF Inv, KeepsAttempts
<1> HIDE DEF A
<1>2. Inv /\ [Next]_vars => [A]_vars
  BY <1>1
<1>3. Spec => [][A]_vars
  BY <1>2, InvHolds, PTL DEF Spec
<1>4. QED
  BY <1>3 DEF AttemptsKeepTheirWorker, A

-----------------------------------------------------------------------------
(* The queue implements JobLifecycle.                                       *)

Left(r) == r.max_attempts - r.attempt_count

(* JobLifecycle's transitions, said of two versions of one row.              *)
Moves(r, s) ==
    \/ s.status = r.status /\ Left(s) = Left(r)
    \/ r.status = "ABSENT" /\ s.status = "PENDING" /\ Left(s) = Left(r)
    \/ /\ r.status = "PENDING" /\ s.status \in {"RUNNING", "DEAD_LETTER"}
       /\ Left(r) > 0 /\ Left(s) = Left(r) - 1
    \/ r.status = "PENDING" /\ s.status = "CANCELLED" /\ Left(s) = Left(r)
    \/ r.status = "RUNNING" /\ s.status = "PENDING" /\ Left(r) > 0 /\ Left(s) = Left(r)
    \/ /\ r.status = "RUNNING" /\ s.status \in {"SUCCEEDED", "CANCELLED", "DEAD_LETTER"}
       /\ Left(s) = Left(r)
    \/ /\ r.status \in {"CANCELLED", "DEAD_LETTER"} /\ s.status = "PENDING"
       /\ Left(s) = IF Left(r) = 0 THEN 1 ELSE Left(r)

(* Closing an attempt settles or requeues the job and spends nothing.        *)
LEMMA EndMoves ==
  ASSUME NEW r, RowInv(r), NEW w, NEW s, Ends(r, w, s)
  PROVE  /\ s.attempt_count = r.attempt_count /\ s.max_attempts = r.max_attempts
         /\ s.status \in {"PENDING", "SUCCEEDED", "CANCELLED", "DEAD_LETTER"}
         /\ s.status = "PENDING" => r.attempt_count < r.max_attempts
  BY DEF Ends, Closed

(* Every transaction is a transition of the life of a job, or none.          *)
LEMMA RowStepMoves ==
  ASSUME NEW r, RowInv(r), NEW s, RowStep(r, s)
  PROVE  Moves(r, s)
<1>1. /\ r \in Row /\ r.attempt_count \in Nat /\ r.max_attempts \in Nat
      /\ r.attempt_count <= r.max_attempts
  BY ConstantsAssumption DEF RowInv, Row, RowBudget
<1>2. ASSUME s.attempt_count = r.attempt_count, s.max_attempts = r.max_attempts
      PROVE  Left(s) = Left(r)
  BY <1>2 DEF Left
<1>3. ASSUME r.status = "RUNNING", NEW w, Ends(r, w, s)
      PROVE  Moves(r, s)
  <2>1. /\ Left(s) = Left(r)
        /\ s.status \in {"PENDING", "SUCCEEDED", "CANCELLED", "DEAD_LETTER"}
        /\ s.status = "PENDING" => r.attempt_count < r.max_attempts
    BY <1>2, <1>3, EndMoves
  <2>2. s.status = "PENDING" => Left(r) > 0
    BY <1>1, <2>1 DEF Left
  <2>3. QED
    BY <1>3, <2>1, <2>2 DEF Moves
<1>4. CASE s = r
  BY <1>4 DEF Moves
<1>5. CASE r.status = "ABSENT" /\ s = [r EXCEPT !.status = "PENDING"]
  BY <1>1, <1>2, <1>5 DEF Moves, Row
<1>6. CASE r.status = "RUNNING" /\ AttemptOpen(r) /\ s = ReclaimRow(r)
  <2>1. r.locked_by \in Worker
    BY <1>1, <1>6 DEF RowInv, RowBudget, Row
  <2>2. Ends(r, r.locked_by, s)
    BY <1>6, <2>1, FailEnds DEF ReclaimRow
  <2>3. QED
    BY <1>3, <1>6, <2>2
<1>7. ASSUME Leasable(r), NEW w \in Worker
      PROVE  /\ r.status = "PENDING" /\ Left(r) > 0
             /\ RowInv(LeaseRow(r, w)) /\ LeaseRow(r, w).status = "RUNNING"
             /\ LeaseRow(r, w).attempt_count = r.attempt_count + 1
             /\ LeaseRow(r, w).max_attempts = r.max_attempts
  <2>1. r.status = "PENDING" /\ r.attempt_count < r.max_attempts
    BY <1>7 DEF Leasable, RowInv, RowBudget
  <2>2. Left(r) > 0
    BY <1>1, <2>1 DEF Left
  <2>3. QED
    BY <1>7, <2>1, <2>2, LeaseKeepsRow
<1>8. ASSUME Leasable(r), NEW w \in Worker, s = LeaseRow(r, w)
      PROVE  Moves(r, s)
  <2>1. Left(s) = Left(r) - 1
    BY <1>1, <1>7, <1>8 DEF Left
  <2>2. QED
    BY <1>7, <1>8, <2>1 DEF Moves
<1>9. ASSUME Leasable(r), NEW w \in Worker, s = FailRow(LeaseRow(r, w), w, FALSE)
      PROVE  Moves(r, s)
  <2> DEFINE q == LeaseRow(r, w)
  <2>1. /\ RowInv(q) /\ q.attempt_count = r.attempt_count + 1
        /\ q.max_attempts = r.max_attempts
    BY <1>7, <1>9
  <2>2. s.attempt_count = r.attempt_count + 1 /\ s.max_attempts = r.max_attempts
    <3>1. s = FailRow(q, w, FALSE)
      BY <1>9
    <3> HIDE DEF q
    <3>2. Ends(q, w, s)
      BY <1>9, <2>1, <3>1, FailEnds
    <3>3. s.attempt_count = q.attempt_count /\ s.max_attempts = q.max_attempts
      BY <2>1, <3>2, EndMoves
    <3>4. QED
      BY <2>1, <3>3
  <2>3. s.status = "DEAD_LETTER"
    <3>1. q \in Row
      BY <2>1 DEF RowInv
    <3> HIDE DEF q
    <3>2. s = [ClearLease(FinishAttempt(q, w, "FAILED")) EXCEPT !.status = "DEAD_LETTER"]
      BY <1>9 DEF FailRow, q
    <3>3. QED
      BY <3>1, <3>2 DEF ClearLease, FinishAttempt, Row
  <2>4. Left(s) = Left(r) - 1
    BY <1>1, <2>2 DEF Left
  <2>5. QED
    BY <1>7, <1>9, <2>3, <2>4 DEF Moves
<1>10. CASE r.status = "RUNNING" /\ s = [r EXCEPT !.lease = "fresh"]
  BY <1>1, <1>2, <1>10 DEF Moves, Row
<1>11. ASSUME NEW w \in Worker, EndsAttempt(r, s, w)
       PROVE  Moves(r, s)
  <2>1. r.status = "RUNNING"
    BY <1>11 DEF EndsAttempt, OwnsLiveLease
  <2>2. Ends(r, w, s)
    BY <1>11, FailEnds, CompleteEnds, MarkCancelledEnds DEF EndsAttempt
  <2>3. QED
    BY <1>3, <2>1, <2>2
<1>12. CASE r.status \in {"PENDING", "RUNNING"} /\ s = CancelRow(r)
  BY <1>1, <1>2, <1>12 DEF Moves, CancelRow, Row
<1>13. CASE /\ r.status \in {"DEAD_LETTER", "CANCELLED"}
            /\ s = RetryRow(r)
  <2> DEFINE m == IF r.attempt_count >= r.max_attempts
                  THEN r.attempt_count + 1 ELSE r.max_attempts
  <2>1. s = ClearLease([r EXCEPT !.status = "PENDING", !.cancel_requested = FALSE,
                                 !.due = TRUE, !.max_attempts = m])
    BY <1>13 DEF RetryRow
  <2>2. m - r.attempt_count = IF Left(r) = 0 THEN 1 ELSE Left(r)
    BY <1>1 DEF Left
  <2> HIDE DEF m
  <2>3. s.status = "PENDING" /\ s.attempt_count = r.attempt_count /\ s.max_attempts = m
    BY <1>1, <2>1 DEF ClearLease, Row
  <2>4. QED
    BY <1>13, <2>2, <2>3 DEF Moves, Left
<1>14. CASE s = [r EXCEPT !.lease = IF @ = "fresh" THEN "ageing" ELSE "expired"]
  BY <1>1, <1>2, <1>14 DEF Moves, Row
<1>15. CASE s = [r EXCEPT !.due = TRUE]
  BY <1>1, <1>2, <1>15 DEF Moves, Row
<1>16. QED
  BY <1>4, <1>5, <1>6, <1>8, <1>9, <1>10, <1>11, <1>12, <1>13, <1>14, <1>15 DEF RowStep

(* The queue implements the life of a job: every job it is given moves as      *)
(* JobLifecycle says, for any batch of them that one transaction touches.      *)
THEOREM LifecycleImplemented == Spec => ImplementsLifecycle
<1>1. Init => Lifecycle!LifecycleInit
  BY ConstantsAssumption DEF Init, Lifecycle!LifecycleInit, Absent
<1>2. Inv /\ [Next]_vars => [Lifecycle!LifecycleNext]_(Lifecycle!lifecycleVars)
  <2> SUFFICES ASSUME Inv, [Next]_vars
               PROVE  Lifecycle!LifecycleNext
    OBVIOUS
  <2>1. ASSUME NEW j \in Job
        PROVE  Lifecycle!Transition(j) \/ Lifecycle!Stays(j)
    <3>1. RowInv(jobs[j]) /\ RowStep(jobs[j], jobs'[j])
      BY StepsAreRowSteps DEF Inv, QueueInv
    <3>2. Moves(jobs[j], jobs'[j])
      BY <3>1, RowStepMoves
    <3>3. QED
      BY <3>2 DEF Moves, Left, Lifecycle!Transition, Lifecycle!Stays, Lifecycle!Move,
                  Lifecycle!Spends, Lifecycle!Refills, Lifecycle!Keeps
  <2>2. QED
    BY <2>1 DEF Lifecycle!LifecycleNext
<1>3. QED
  BY <1>1, <1>2, InvHolds, PTL DEF Spec, ImplementsLifecycle, Lifecycle!LifecycleSpec

-----------------------------------------------------------------------------
(* What the modules that compose the queue with a resource use: which steps  *)
(* let a handler count as returned, and which one makes a job SUCCEEDED.      *)

(* Some coroutine of E has left its handler behind and may complete job j.    *)
Finishing(E, j) == \E e \in E : e.job = j /\ e.pc \in {"returned", "checked"}

(* No coroutine becomes Finishing, and no job SUCCEEDED.                      *)
NothingFinishes ==
    /\ \A w \in Worker, j \in Job : Finishing(execs'[w], j) => Finishing(execs[w], j)
    /\ \A j \in Job : jobs'[j].status = "SUCCEEDED" => jobs[j].status = "SUCCEEDED"

(* A failed attempt leaves its row PENDING or DEAD_LETTER.                    *)
LEMMA FailStatus ==
  ASSUME NEW r, r \in Row, NEW w, NEW retryable
  PROVE  FailRow(r, w, retryable).status \in {"PENDING", "DEAD_LETTER"}
<1>1. CASE retryable /\ r.attempt_count < r.max_attempts
  <2>1. FailRow(r, w, retryable) = Closed(r, w, "FAILED", "PENDING", r.cancel_requested, FALSE)
    BY <1>1 DEF FailRow, ClearLease, FinishAttempt, Row, Closed
  <2>2. QED
    BY <2>1 DEF Closed
<1>2. CASE ~(retryable /\ r.attempt_count < r.max_attempts)
  <2>1. FailRow(r, w, retryable) = Closed(r, w, "FAILED", "DEAD_LETTER", r.cancel_requested, r.due)
    BY <1>2 DEF FailRow, ClearLease, FinishAttempt, Row, Closed
  <2>2. QED
    BY <2>1 DEF Closed
<1>3. QED
  BY <1>1, <1>2

(* A coroutine that moves on to a step which does not finish the job.         *)
LEMMA GotoFinishes ==
  ASSUME execs \in [Worker -> SUBSET Exec], NEW w \in Worker, NEW e \in execs[w],
         NEW pc, Goto(w, e, pc),
         pc \in {"returned", "checked"} => e.pc \in {"returned", "checked"}
  PROVE  \A v \in Worker, j \in Job : Finishing(execs'[v], j) => Finishing(execs[v], j)
<1>1. e \in Exec
  OBVIOUS
<1>2. [e EXCEPT !.pc = pc].job = e.job /\ [e EXCEPT !.pc = pc].pc = pc
  BY <1>1 DEF Exec
<1> DEFINE g == [e EXCEPT !.pc = pc]
<1>3. /\ \A v \in Worker : v # w => execs'[v] = execs[v]
      /\ execs'[w] = (execs[w] \ {e}) \cup {g}
  BY DEF Goto
<1>4. g.job = e.job /\ g.pc = pc
  BY <1>2
<1> HIDE DEF g
<1>5. \A j \in Job : Finishing(execs'[w], j) => Finishing(execs[w], j)
  BY <1>3, <1>4 DEF Finishing
<1>6. QED
  BY <1>3, <1>5

(* A coroutine that ends, with or without an exception.                       *)
LEMMA LeaveFinishes ==
  ASSUME execs \in [Worker -> SUBSET Exec], NEW w \in Worker, NEW e \in execs[w],
         Leave(w, e)
  PROVE  \A v \in Worker, j \in Job : Finishing(execs'[v], j) => Finishing(execs[v], j)
<1>1. \A v \in Worker : v # w => execs'[v] = execs[v]
  BY DEF Leave, Finish, Raise
<1>2. ASSUME NEW f \in execs'[w]
      PROVE  \E x \in execs[w] : f.job = x.job /\ f.pc = x.pc
  <2>1. CASE execs'[w] = execs[w] \ {e}
    BY <1>2, <2>1
  <2>2. CASE execs'[w] = {[x EXCEPT !.awaited = FALSE] : x \in execs[w] \ {e}}
    <3>1. PICK x \in execs[w] \ {e} : f = [x EXCEPT !.awaited = FALSE]
      BY <1>2, <2>2
    <3>2. x \in Exec
      OBVIOUS
    <3>3. f.job = x.job /\ f.pc = x.pc
      BY <3>1, <3>2 DEF Exec
    <3>4. QED
      BY <3>3
  <2>3. QED
    BY <2>1, <2>2 DEF Leave, Finish, Raise
<1>3. \A j \in Job : Finishing(execs'[w], j) => Finishing(execs[w], j)
  BY <1>2 DEF Finishing
<1>4. QED
  BY <1>1, <1>3

(* A row replaced by one that is not SUCCEEDED.                               *)
LEMMA OneRowFinishes ==
  ASSUME jobs \in [Job -> Row], NEW j \in Job, NEW s,
         jobs' = [jobs EXCEPT ![j] = s],
         s.status = "SUCCEEDED" => jobs[j].status = "SUCCEEDED"
  PROVE  \A i \in Job : jobs'[i].status = "SUCCEEDED" => jobs[i].status = "SUCCEEDED"
<1>1. jobs'[j] = s /\ \A i \in Job : i # j => jobs'[i] = jobs[i]
  OBVIOUS
<1>2. QED
  BY <1>1

(* A retried row is PENDING.                                                 *)
LEMMA RetryStatus ==
  ASSUME NEW r, r \in Row
  PROVE  RetryRow(r).status = "PENDING"
<1> DEFINE m == IF r.attempt_count >= r.max_attempts
                THEN r.attempt_count + 1 ELSE r.max_attempts
           f == RetryRow(r)
<1>1. f = ClearLease([r EXCEPT !.status = "PENDING", !.cancel_requested = FALSE,
                               !.due = TRUE, !.max_attempts = m])
  BY DEF RetryRow
<1> HIDE DEF m, f
<1>2. f.status = "PENDING"
  BY <1>1 DEF Row, ClearLease
<1>3. QED
  BY <1>2 DEF f


(* Leasing, reclaiming, crashing, time and the operators finish nothing.      *)
LEMMA QueueStepsFinishNothing ==
  ASSUME Inv,
         \/ ReclaimStale
         \/ \E w \in Worker : Lease(w) \/ Crash(w)
         \/ \E j \in Job : JobStep(j)
  PROVE  NothingFinishes
<1>1. /\ jobs \in [Job -> Row] /\ execs \in [Worker -> SUBSET Exec]
      /\ \A j \in Job : RowInv(jobs[j]) /\ jobs[j] \in Row
  BY DEF Inv, QueueInv, TypeOK
<1>2. CASE ReclaimStale
  <2>1. \A j \in Job : ReclaimRow(jobs[j]).status # "SUCCEEDED"
    BY <1>1, FailStatus DEF ReclaimRow
  <2>2. QED
    BY <1>2, <2>1 DEF ReclaimStale, NothingFinishes
<1>3. ASSUME NEW w \in Worker, Lease(w)
      PROVE  NothingFinishes
  <2>1. PICK S \in SUBSET {j \in Job : Leasable(jobs[j])} :
            /\ jobs' = [j \in Job |->
                          IF j \notin S THEN jobs[j]
                          ELSE IF j \in UnknownTypeJob
                               THEN FailRow(LeaseRow(jobs[j], w), w, FALSE)
                               ELSE LeaseRow(jobs[j], w)]
            /\ execs' = [execs EXCEPT ![w] = execs[w] \cup
                  {Started(j, jobs[j].attempt_count + 1) : j \in S \ UnknownTypeJob}]
    BY <1>3 DEF Lease
  <2>2. \A j \in S : /\ LeaseRow(jobs[j], w).status = "RUNNING"
                     /\ LeaseRow(jobs[j], w) \in Row
    BY <1>1, <2>1, LeaseKeepsRow DEF RowInv
  <2>3. \A j \in S : FailRow(LeaseRow(jobs[j], w), w, FALSE).status # "SUCCEEDED"
    BY <2>2, FailStatus
  <2>4. \A j \in Job : jobs'[j].status = "SUCCEEDED" => jobs[j].status = "SUCCEEDED"
    BY <2>1, <2>2, <2>3
  <2>5. /\ \A v \in Worker : v # w => execs'[v] = execs[v]
        /\ \A f \in execs'[w] : f \in execs[w] \/ f.pc = "handler"
    BY <1>1, <2>1 DEF Started
  <2>6. \A v \in Worker, j \in Job : Finishing(execs'[v], j) => Finishing(execs[v], j)
    BY <2>5 DEF Finishing
  <2>7. QED
    BY <2>4, <2>6 DEF NothingFinishes
<1>4. ASSUME NEW w \in Worker, Crash(w)
      PROVE  NothingFinishes
  <2>1. \A v \in Worker : execs'[v] \subseteq execs[v]
    BY <1>1, <1>4 DEF Crash
  <2>2. QED
    BY <1>4, <2>1 DEF Crash, NothingFinishes, Finishing
<1>5. ASSUME NEW j \in Job, JobStep(j)
      PROVE  NothingFinishes
  <2>1. UNCHANGED execs
    BY <1>5 DEF JobStep, Enqueue, Cancel, Retry, LeaseAges, BackoffElapses
  <2>2. /\ [jobs[j] EXCEPT !.status = "PENDING"].status = "PENDING"
        /\ [jobs[j] EXCEPT !.due = TRUE].status = jobs[j].status
        /\ CancelRow(jobs[j]).status = "SUCCEEDED" => jobs[j].status = "SUCCEEDED"
    BY <1>1 DEF Row, CancelRow
  <2>3. Retry(j) => RetryRow(jobs[j]).status = "PENDING"
    BY <1>1, RetryStatus DEF Retry
  <2>4. [jobs[j] EXCEPT !.lease = IF @ = "fresh" THEN "ageing" ELSE "expired"].status
          = jobs[j].status
    BY <1>1 DEF Row
  <2>5. \A i \in Job : jobs'[i].status = "SUCCEEDED" => jobs[i].status = "SUCCEEDED"
    <3>1. CASE Enqueue(j)
      BY <1>1, <2>2, <3>1, OneRowFinishes DEF Enqueue
    <3>2. CASE Cancel(j)
      BY <1>1, <2>2, <3>2, OneRowFinishes DEF Cancel
    <3>3. CASE Retry(j)
      BY <1>1, <2>3, <3>3, OneRowFinishes DEF Retry
    <3>4. CASE LeaseAges(j)
      <4> DEFINE s == [jobs[j] EXCEPT !.lease = IF @ = "fresh" THEN "ageing" ELSE "expired"]
      <4>1. jobs' = [jobs EXCEPT ![j] = s]
        BY <3>4 DEF LeaseAges
      <4>2. s.status = jobs[j].status
        BY <2>4
      <4> HIDE DEF s
      <4>3. QED
        BY <1>1, <4>1, <4>2, OneRowFinishes
    <3>5. CASE BackoffElapses(j)
      <4> DEFINE s == [jobs[j] EXCEPT !.due = TRUE]
      <4>1. jobs' = [jobs EXCEPT ![j] = s]
        BY <3>5 DEF BackoffElapses
      <4>2. s.status = jobs[j].status
        BY <2>2
      <4> HIDE DEF s
      <4>3. QED
        BY <1>1, <4>1, <4>2, OneRowFinishes
    <3>6. QED
      BY <1>5, <3>1, <3>2, <3>3, <3>4, <3>5 DEF JobStep
  <2>6. QED
    BY <2>1, <2>5 DEF NothingFinishes
<1>6. QED
  BY <1>2, <1>3, <1>4, <1>5

(* A row marked as cancelled is CANCELLED.                                    *)
LEMMA MarkCancelledStatus ==
  ASSUME NEW r, r \in Row, NEW w
  PROVE  MarkCancelledRow(r, w).status = "CANCELLED"
<1> DEFINE q == [r EXCEPT !.status = "CANCELLED", !.cancel_requested = TRUE]
<1>1. /\ MarkCancelledRow(r, w) = ClearLease(FinishAttempt(q, w, "CANCELLED"))
      /\ q = [r EXCEPT !.status = "CANCELLED", !.cancel_requested = TRUE]
  BY DEF MarkCancelledRow
<1> HIDE DEF q
<1>2. q = [status |-> "CANCELLED", attempt_count |-> r.attempt_count,
           max_attempts |-> r.max_attempts, cancel_requested |-> TRUE,
           locked_by |-> r.locked_by, lease |-> r.lease, due |-> r.due,
           attempts |-> r.attempts]
  BY <1>1 DEF Row
<1>3. ClearLease(FinishAttempt(q, w, "CANCELLED")).status = "CANCELLED"
  BY <1>2 DEF ClearLease, FinishAttempt
<1>4. QED
  BY <1>1, <1>3


(* Nor does a coroutine, but for the return of its handler, the consistency   *)
(* check of a media job, and the completion.                                  *)
LEMMA ExecStepsFinishNothing ==
  ASSUME Inv, NEW w \in Worker, NEW e \in execs[w],
         \/ Heartbeat(w, e) \/ HandlerRaises(w, e) \/ HandlerDisowned(w, e)
         \/ CheckpointCancels(w, e) \/ CheckpointPasses(w, e) \/ CleanupFails(w, e)
         \/ Fail(w, e) \/ MarkCancelled(w, e) \/ Reconciled(w, e)
         \/ Abandon(w, e) \/ Abort(w, e)
  PROVE  NothingFinishes
<1>1. /\ jobs \in [Job -> Row] /\ execs \in [Worker -> SUBSET Exec]
      /\ e.job \in Job /\ jobs[e.job] \in Row /\ RowInv(jobs[e.job])
  BY DEF Inv, QueueInv, TypeOK, Exec
<1> DEFINE Quiet == \A v \in Worker, j \in Job : Finishing(execs'[v], j) => Finishing(execs[v], j)
<1>2. ASSUME UNCHANGED jobs, Quiet
      PROVE  NothingFinishes
  BY <1>2 DEF NothingFinishes
<1>3. ASSUME NEW pc, Goto(w, e, pc),
             pc \in {"returned", "checked"} => e.pc \in {"returned", "checked"}
      PROVE  Quiet
  BY <1>1, <1>3, GotoFinishes
<1>4. ASSUME Leave(w, e) PROVE Quiet
  BY <1>1, <1>4, LeaveFinishes
<1>5. ASSUME UNCHANGED execs PROVE Quiet
  BY <1>5
<1>6. ASSUME NEW s, jobs' = [jobs EXCEPT ![e.job] = s],
             s.status = "SUCCEEDED" => jobs[e.job].status = "SUCCEEDED", Quiet
      PROVE  NothingFinishes
  BY <1>1, <1>6, OneRowFinishes DEF NothingFinishes
<1>7. CASE Heartbeat(w, e)
  <2>1. CASE UNCHANGED jobs /\ \E pc \in {"cancelling", "lost"} : Goto(w, e, pc)
    <3>1. Quiet
      BY <1>3, <2>1
    <3>2. QED
      BY <1>2, <2>1, <3>1
  <2>2. CASE jobs' = [jobs EXCEPT ![e.job].lease = "fresh"] /\ UNCHANGED execs
    <3> DEFINE s == [jobs[e.job] EXCEPT !.lease = "fresh"]
    <3>1. jobs' = [jobs EXCEPT ![e.job] = s] /\ s.status = jobs[e.job].status
      BY <1>1, <2>2 DEF Row
    <3>2. Quiet
      BY <1>5, <2>2
    <3> HIDE DEF s
    <3>3. QED
      BY <1>6, <3>1, <3>2
  <2>3. QED
    BY <1>7, <2>1, <2>2 DEF Heartbeat
<1>8. CASE HandlerRaises(w, e) \/ HandlerDisowned(w, e)
  <2>1. UNCHANGED jobs /\ \E pc \in {"fail_retry", "fail_final", "unowned"} : Goto(w, e, pc)
    BY <1>8 DEF HandlerRaises, HandlerDisowned
  <2>2. Quiet
    BY <1>3, <2>1
  <2>3. QED
    BY <1>2, <2>1, <2>2
<1>9. CASE CheckpointCancels(w, e) \/ CleanupFails(w, e)
  <2>1. UNCHANGED jobs /\ \E pc \in {"cancelling", "fail_final"} : Goto(w, e, pc)
    BY <1>9 DEF CheckpointCancels, CleanupFails
  <2>2. Quiet
    BY <1>3, <2>1
  <2>3. QED
    BY <1>2, <2>1, <2>2
<1>10. CASE CheckpointPasses(w, e)
  <2>1. UNCHANGED jobs /\ e.pc = "returned" /\ Goto(w, e, "checked")
    BY <1>10 DEF CheckpointPasses
  <2>2. Quiet
    BY <1>3, <2>1
  <2>3. QED
    BY <1>2, <2>1, <2>2
<1>11. CASE Reconciled(w, e) \/ Abandon(w, e) \/ Abort(w, e)
  <2>1. UNCHANGED jobs /\ Leave(w, e)
    BY <1>11 DEF Reconciled, Abandon, Abort, Leave
  <2>2. Quiet
    BY <1>4, <2>1
  <2>3. QED
    BY <1>2, <2>1, <2>2
<1>12. CASE Fail(w, e)
  <2>1. CASE UNCHANGED jobs /\ Raise(w, e)
    <3>1. Quiet
      BY <1>4, <2>1 DEF Leave
    <3>2. QED
      BY <1>2, <2>1, <3>1
  <2>2. CASE /\ jobs' = [jobs EXCEPT ![e.job] = FailRow(jobs[e.job], w, e.pc = "fail_retry")]
             /\ Goto(w, e, "reconcile_fail") \/ Leave(w, e)
    <3>1. Quiet
      BY <1>3, <1>4, <2>2
    <3>2. FailRow(jobs[e.job], w, e.pc = "fail_retry").status # "SUCCEEDED"
      BY <1>1, FailStatus
    <3>3. QED
      BY <1>6, <2>2, <3>1, <3>2
  <2>3. QED
    BY <1>12, <2>1, <2>2 DEF Fail
<1>13. CASE MarkCancelled(w, e)
  <2>1. CASE UNCHANGED jobs /\ Raise(w, e)
    <3>1. Quiet
      BY <1>4, <2>1 DEF Leave
    <3>2. QED
      BY <1>2, <2>1, <3>1
  <2>2. CASE /\ jobs' = [jobs EXCEPT ![e.job] = MarkCancelledRow(jobs[e.job], w)]
             /\ Goto(w, e, "reconcile_cancel")
    <3>1. Quiet
      BY <1>3, <2>2
    <3>2. MarkCancelledRow(jobs[e.job], w).status = "CANCELLED"
      BY <1>1, MarkCancelledStatus
    <3>3. QED
      BY <1>6, <2>2, <3>1, <3>2
  <2>3. QED
    BY <1>13, <2>1, <2>2 DEF MarkCancelled
<1>14. QED
  BY <1>7, <1>8, <1>9, <1>10, <1>11, <1>12, <1>13

(* A handler that returns makes its own coroutine a finishing one.            *)
LEMMA ReturnFinishesItsJob ==
  ASSUME Inv, NEW w \in Worker, NEW e \in execs[w], HandlerReturns(w, e)
  PROVE  /\ UNCHANGED jobs
         /\ \A v \in Worker, j \in Job :
              Finishing(execs'[v], j) => Finishing(execs[v], j) \/ j = e.job
<1>1. execs \in [Worker -> SUBSET Exec] /\ e \in Exec
  BY DEF Inv, QueueInv, TypeOK
<1> DEFINE g == [e EXCEPT !.pc = "returned"]
<1>2. g.job = e.job
  BY <1>1 DEF Exec
<1>3. /\ \A v \in Worker : v # w => execs'[v] = execs[v]
      /\ execs'[w] = (execs[w] \ {e}) \cup {g}
  BY <1>1 DEF HandlerReturns, Goto
<1> HIDE DEF g
<1>4. \A j \in Job : Finishing(execs'[w], j) => Finishing(execs[w], j) \/ j = e.job
  BY <1>2, <1>3 DEF Finishing
<1>5. QED
  BY <1>3, <1>4 DEF HandlerReturns

(* Only a finishing coroutine makes its job SUCCEEDED.                        *)
LEMMA CompleteFinishesItsJob ==
  ASSUME Inv, NEW w \in Worker, NEW e \in execs[w], Complete(w, e)
  PROVE  /\ e.pc = "checked"
         /\ \A v \in Worker, j \in Job : Finishing(execs'[v], j) => Finishing(execs[v], j)
         /\ \A j \in Job : jobs'[j].status = "SUCCEEDED"
              => jobs[j].status = "SUCCEEDED" \/ j = e.job
<1>1. /\ jobs \in [Job -> Row] /\ execs \in [Worker -> SUBSET Exec] /\ e.job \in Job
  BY DEF Inv, QueueInv, TypeOK, Exec
<1>2. Leave(w, e) \/ Goto(w, e, "fail_retry")
  BY DEF Complete
<1>3. \A v \in Worker, j \in Job : Finishing(execs'[v], j) => Finishing(execs[v], j)
  BY <1>1, <1>2, LeaveFinishes, GotoFinishes
<1>4. \A j \in Job : j # e.job => jobs'[j] = jobs[j]
  BY <1>1 DEF Complete
<1>5. QED
  BY <1>3, <1>4 DEF Complete

-----------------------------------------------------------------------------
(* Batches of one: a worker that takes one job at a time runs one coroutine   *)
(* at a time, so its id in the lease is enough to tell its attempts apart.     *)

(* Only leasing starts an attempt.                                            *)
LEMMA OneRowCounts ==
  ASSUME jobs \in [Job -> Row], NEW j \in Job, NEW s, jobs' = [jobs EXCEPT ![j] = s],
         s.attempt_count = jobs[j].attempt_count
  PROVE  \A i \in Job : jobs'[i].attempt_count = jobs[i].attempt_count
<1>1. jobs'[j] = s /\ \A i \in Job : i # j => jobs'[i] = jobs[i]
  OBVIOUS
<1>2. QED
  BY <1>1

LEMMA EndKeepsCount ==
  ASSUME NEW r, NEW w, NEW s, Ends(r, w, s)
  PROVE  s.attempt_count = r.attempt_count
  BY DEF Ends, Closed

LEMMA RetryKeepsCount ==
  ASSUME NEW r \in Row
  PROVE  RetryRow(r).attempt_count = r.attempt_count
<1> DEFINE m == IF r.attempt_count >= r.max_attempts
                THEN r.attempt_count + 1 ELSE r.max_attempts
           q == [r EXCEPT !.status = "PENDING", !.cancel_requested = FALSE,
                          !.due = TRUE, !.max_attempts = m]
<1>1. RetryRow(r) = ClearLease(q)
  BY DEF RetryRow
<1> HIDE DEF m
<1>2. q.attempt_count = r.attempt_count
  BY DEF Row
<1>3. ClearLease(q).attempt_count = q.attempt_count
  BY DEF ClearLease, Row
<1>4. QED
  BY <1>1, <1>2, <1>3

LEMMA OnlyLeasesCount ==
  ASSUME Inv, [Next]_vars, ~\E w \in Worker : Lease(w)
  PROVE  \A i \in Job : jobs'[i].attempt_count = jobs[i].attempt_count
<1>1. /\ jobs \in [Job -> Row] /\ execs \in [Worker -> SUBSET Exec]
      /\ \A j \in Job : RowInv(jobs[j]) /\ jobs[j] \in Row
  BY DEF Inv, QueueInv, TypeOK
<1> DEFINE Same == \A i \in Job : jobs'[i].attempt_count = jobs[i].attempt_count
<1>2. CASE UNCHANGED jobs
  BY <1>2
<1>3. CASE ReclaimStale
  <2>1. PICK S \in SUBSET {j \in Job : jobs[j].status = "RUNNING" /\ jobs[j].lease = "expired"} :
            jobs' = [j \in Job |-> IF j \in S THEN ReclaimRow(jobs[j]) ELSE jobs[j]]
    BY <1>3 DEF ReclaimStale
  <2>2. ASSUME NEW j \in S
        PROVE  ReclaimRow(jobs[j]).attempt_count = jobs[j].attempt_count
    <3>1. jobs[j].locked_by \in Worker
      BY <1>1 DEF RowInv, Row, RowBudget
    <3>2. QED
      BY <1>1, <3>1, FailEnds, EndKeepsCount DEF ReclaimRow
  <2>3. QED
    BY <2>1, <2>2
<1>4. ASSUME NEW w \in Worker, NEW e \in execs[w],
             Heartbeat(w, e) \/ ExecStep(w, e) \/ CleanupFails(w, e) \/ Abort(w, e)
      PROVE  Same
  <2>1. e.job \in Job /\ jobs[e.job] \in Row /\ RowInv(jobs[e.job])
    BY <1>1 DEF Exec
  <2>2. \/ UNCHANGED jobs
        \/ jobs' = [jobs EXCEPT ![e.job].lease = "fresh"]
        \/ jobs' = [jobs EXCEPT ![e.job] = CompleteRow(jobs[e.job], w)]
        \/ jobs' = [jobs EXCEPT ![e.job] = FailRow(jobs[e.job], w, e.pc = "fail_retry")]
        \/ jobs' = [jobs EXCEPT ![e.job] = MarkCancelledRow(jobs[e.job], w)]
    BY <1>4
    DEF Heartbeat, ExecStep, CleanupFails, Abort, HandlerReturns, HandlerRaises,
        HandlerDisowned, CheckpointCancels, CheckpointPasses, EnsureSuccess, Complete, Fail,
        MarkCancelled, Reconciled, Abandon
  <2>3. CASE jobs' = [jobs EXCEPT ![e.job].lease = "fresh"]
    <3> DEFINE s == [jobs[e.job] EXCEPT !.lease = "fresh"]
    <3>1. jobs' = [jobs EXCEPT ![e.job] = s] /\ s.attempt_count = jobs[e.job].attempt_count
      BY <2>1, <2>3 DEF Row
    <3> HIDE DEF s
    <3>2. QED
      BY <1>1, <2>1, <3>1, OneRowCounts
  <2>4. /\ CompleteRow(jobs[e.job], w).attempt_count = jobs[e.job].attempt_count
        /\ FailRow(jobs[e.job], w, e.pc = "fail_retry").attempt_count
             = jobs[e.job].attempt_count
        /\ MarkCancelledRow(jobs[e.job], w).attempt_count = jobs[e.job].attempt_count
    BY <2>1, CompleteEnds, FailEnds, MarkCancelledEnds, EndKeepsCount
  <2>5. QED
    BY <1>1, <1>2, <2>1, <2>2, <2>3, <2>4, OneRowCounts
<1>5. ASSUME NEW j \in Job, JobStep(j)
      PROVE  Same
  <2>1. CASE Enqueue(j)
    <3>1. [jobs[j] EXCEPT !.status = "PENDING"].attempt_count = jobs[j].attempt_count
      BY <1>1 DEF Row
    <3>2. UNCHANGED jobs \/ jobs' = [jobs EXCEPT ![j] = [jobs[j] EXCEPT !.status = "PENDING"]]
      BY <2>1 DEF Enqueue
    <3>3. QED
      BY <1>1, <1>2, <3>1, <3>2, OneRowCounts
  <2>2. CASE Cancel(j)
    <3>1. CancelRow(jobs[j]).attempt_count = jobs[j].attempt_count
      BY <1>1 DEF CancelRow, Row
    <3>2. QED
      BY <1>1, <2>2, <3>1, OneRowCounts DEF Cancel
  <2>3. CASE Retry(j)
    BY <1>1, <2>3, RetryKeepsCount, OneRowCounts DEF Retry
  <2>4. CASE LeaseAges(j)
    <3> DEFINE s == [jobs[j] EXCEPT !.lease = IF @ = "fresh" THEN "ageing" ELSE "expired"]
    <3>1. jobs' = [jobs EXCEPT ![j] = s]
      BY <2>4 DEF LeaseAges
    <3>2. s.attempt_count = jobs[j].attempt_count
      BY <1>1 DEF Row
    <3> HIDE DEF s
    <3>3. QED
      BY <1>1, <3>1, <3>2, OneRowCounts
  <2>5. CASE BackoffElapses(j)
    <3> DEFINE s == [jobs[j] EXCEPT !.due = TRUE]
    <3>1. jobs' = [jobs EXCEPT ![j] = s]
      BY <2>5 DEF BackoffElapses
    <3>2. s.attempt_count = jobs[j].attempt_count
      BY <1>1 DEF Row
    <3> HIDE DEF s
    <3>3. QED
      BY <1>1, <3>1, <3>2, OneRowCounts
  <2>6. QED
    BY <1>5, <2>1, <2>2, <2>3, <2>4, <2>5 DEF JobStep
<1>6. ASSUME NEW w \in Worker, Crash(w)
      PROVE  Same
  BY <1>2, <1>6 DEF Crash
<1>7. QED
  BY <1>2, <1>3, <1>4, <1>5, <1>6 DEF Next, WorkerStep, vars

(* With batches of one a worker runs one coroutine, which it waits for, and    *)
(* nothing it leased after that coroutine's attempt.                           *)
SingleInv ==
    \A w \in Worker : \A e \in execs[w] :
        /\ e.awaited
        /\ execs[w] = {e}
        /\ \A n \in 1..AttemptLimit :
              e.attempt < n /\ n <= jobs[e.job].attempt_count
              => jobs[e.job].attempts[n].worker # w

(* What a coroutine that is alone and awaited leaves behind is itself.       *)
LEMMA AloneStaysAlone ==
  ASSUME Inv, SingleInv, NEW w \in Worker, NEW e \in execs[w],
         \/ UNCHANGED execs \/ Leave(w, e)
         \/ \E pc \in ExecPc : Goto(w, e, pc)
  PROVE  \A v \in Worker : \A f \in execs'[v] :
            /\ f.awaited /\ execs'[v] = {f}
            /\ \E x \in execs[v] : f.job = x.job /\ f.attempt = x.attempt
<1>1. /\ execs \in [Worker -> SUBSET Exec] /\ e \in Exec
      /\ e.awaited /\ execs[w] = {e}
  BY DEF Inv, QueueInv, TypeOK, SingleInv
<1>2. CASE UNCHANGED execs
  BY <1>2 DEF SingleInv
<1>3. CASE Leave(w, e)
  <2>1. execs[w] \ {e} = {}
    BY <1>1
  <2>2. {[x EXCEPT !.awaited = FALSE] : x \in execs[w] \ {e}} = {}
    BY <2>1
  <2>3. execs'[w] = {} /\ \A v \in Worker : v # w => execs'[v] = execs[v]
    BY <1>1, <1>3, <2>1, <2>2 DEF Leave, Finish, Raise
  <2>4. QED
    BY <2>3 DEF SingleInv
<1>4. ASSUME NEW pc \in ExecPc, Goto(w, e, pc)
      PROVE  \A v \in Worker : \A f \in execs'[v] :
                /\ f.awaited /\ execs'[v] = {f}
                /\ \E x \in execs[v] : f.job = x.job /\ f.attempt = x.attempt
  <2> DEFINE g == [e EXCEPT !.pc = pc]
  <2>1. g.job = e.job /\ g.attempt = e.attempt /\ g.awaited
    BY <1>1 DEF Exec
  <2>2. /\ \A v \in Worker : v # w => execs'[v] = execs[v]
        /\ execs'[w] = (execs[w] \ {e}) \cup {g}
    BY <1>1, <1>4 DEF Goto
  <2> HIDE DEF g
  <2>3. execs'[w] = {g}
    BY <1>1, <2>2
  <2>4. QED
    BY <1>1, <2>1, <2>2, <2>3 DEF SingleInv
<1>5. QED
  BY <1>2, <1>3, <1>4

LEMMA AttemptNumbers ==
  ASSUME Inv, NEW j \in Job
  PROVE  jobs[j].attempt_count \in Nat
<1>1. jobs[j] \in Row
  BY DEF Inv, QueueInv, TypeOK
<1>2. jobs[j].attempt_count \in 0..AttemptLimit
  BY <1>1 DEF Row
<1>3. QED
  BY <1>2, ConstantsAssumption

(* Steps that lease nothing.                                                 *)
LEMMA SingleWithoutLease ==
  ASSUME Inv, SingleInv, [Next]_vars, ~\E w \in Worker : Lease(w)
  PROVE  SingleInv'
<1>1. /\ execs \in [Worker -> SUBSET Exec] /\ QueueInv /\ Inv'
  BY InvNext DEF Inv, QueueInv, TypeOK
<1> DEFINE Alone == \A v \in Worker : \A f \in execs'[v] :
                       /\ f.awaited /\ execs'[v] = {f}
                       /\ \E x \in execs[v] : f.job = x.job /\ f.attempt = x.attempt
<1>2. Alone
  <2>1. CASE UNCHANGED execs
    BY <2>1 DEF SingleInv
  <2>2. ASSUME NEW w \in Worker, Crash(w)
        PROVE  Alone
    <3>1. execs'[w] = {} /\ \A v \in Worker : v # w => execs'[v] = execs[v]
      BY <1>1, <2>2 DEF Crash
    <3>2. QED
      BY <3>1 DEF SingleInv
  <2>3. ASSUME NEW w \in Worker, NEW e \in execs[w],
               Heartbeat(w, e) \/ ExecStep(w, e) \/ CleanupFails(w, e) \/ Abort(w, e)
        PROVE  Alone
    <3>1. CASE \/ Heartbeat(w, e) \/ HandlerReturns(w, e) \/ HandlerRaises(w, e)
               \/ HandlerDisowned(w, e) \/ CheckpointCancels(w, e) \/ CheckpointPasses(w, e)
               \/ \E consistent \in BOOLEAN : EnsureSuccess(w, e, consistent)
               \/ CleanupFails(w, e)
      <4>1. UNCHANGED execs \/ \E pc \in ExecPc : Goto(w, e, pc)
        BY <3>1
        DEF Heartbeat, HandlerReturns, HandlerRaises, HandlerDisowned, CheckpointCancels,
            CheckpointPasses, EnsureSuccess, CleanupFails, ExecPc
      <4>2. QED
        BY <4>1, AloneStaysAlone
    <3>2. CASE \/ Complete(w, e) \/ Fail(w, e) \/ MarkCancelled(w, e)
               \/ Reconciled(w, e) \/ Abandon(w, e) \/ Abort(w, e)
      <4>1. Leave(w, e) \/ \E pc \in ExecPc : Goto(w, e, pc)
        BY <3>2 DEF Complete, Fail, MarkCancelled, Reconciled, Abandon, Abort, Leave, ExecPc
      <4>2. QED
        BY <4>1, AloneStaysAlone
    <3>3. QED
      BY <2>3, <3>1, <3>2 DEF ExecStep
  <2>4. QED
    BY <2>1, <2>2, <2>3
    DEF Next, WorkerStep, ReclaimStale, JobStep, Enqueue, Cancel, Retry, LeaseAges,
        BackoffElapses, vars
<1>3. \A i \in Job : jobs'[i].attempt_count = jobs[i].attempt_count
  BY OnlyLeasesCount
<1>4. ASSUME NEW w \in Worker, NEW f \in execs'[w], NEW n \in 1..AttemptLimit,
             f.attempt < n, n <= jobs'[f.job].attempt_count
      PROVE  jobs'[f.job].attempts[n].worker # w
  <2>1. PICK x \in execs[w] : f.job = x.job /\ f.attempt = x.attempt
    BY <1>2
  <2>2. x.job \in Job
    BY <1>1 DEF Exec
  <2>3. x.attempt < n /\ n <= jobs[x.job].attempt_count
    BY <1>3, <1>4, <2>1, <2>2
  <2>4. jobs[x.job].attempts[n].worker # w
    BY <2>3 DEF SingleInv
  <2>5. jobs'[x.job].attempts[n].worker = jobs[x.job].attempts[n].worker
    BY <1>1, <2>2, <2>3, AttemptsStay
  <2>6. QED
    BY <2>1, <2>4, <2>5
<1>5. QED
  BY <1>2, <1>4 DEF SingleInv

(* A leased row has its new attempt under the worker that leased it, even if   *)
(* it was buried at once.                                                     *)
LEMMA LeasedAttempt ==
  ASSUME NEW r, RowInv(r), Leasable(r), NEW w \in Worker, NEW s,
         s = LeaseRow(r, w) \/ s = FailRow(LeaseRow(r, w), w, FALSE)
  PROVE  /\ s.attempt_count = r.attempt_count + 1
         /\ s.attempts[r.attempt_count + 1].worker = w
<1> DEFINE q == LeaseRow(r, w)
<1>1. /\ RowInv(q) /\ AttemptOpen(q) /\ q.attempt_count = r.attempt_count + 1
      /\ q.attempts[r.attempt_count + 1].worker = w
      /\ q.status = "RUNNING" /\ q.locked_by = w
  BY LeaseKeepsRow
<1>2. q.lease = "fresh"
  BY DEF LeaseRow, RowInv, Row
<1> HIDE DEF q
<1>3. CASE s = q
  BY <1>1, <1>3
<1>4. CASE s = FailRow(q, w, FALSE)
  <2>1. EndsAttempt(q, s, w)
    BY <1>1, <1>2, <1>4 DEF EndsAttempt, OwnsLiveLease
  <2>2. KeepsAttempts(q, s)
    BY <1>1, <2>1, RowStepKeepsRow DEF RowStep
  <2>3. s.attempt_count = q.attempt_count
    BY <1>1, <1>4, FailEnds, EndKeepsCount
  <2>4. /\ Len(q.attempts) = q.attempt_count /\ q.attempt_count \in Nat
        /\ r.attempt_count \in Nat
    BY <1>1, ConstantsAssumption DEF RowInv, RowAudit, Row
  <2>5. q.attempt_count \in 1..Len(q.attempts)
    BY <1>1, <2>4
  <2>6. s.attempts[q.attempt_count].worker = q.attempts[q.attempt_count].worker
    BY <2>2, <2>5 DEF KeepsAttempts
  <2>7. QED
    BY <1>1, <2>3, <2>6
<1>5. QED
  BY <1>3, <1>4 DEF q

(* A batch of at most one job is one job.                                     *)
LEMMA BatchOfOne ==
  ASSUME IsFiniteSet(Job), NEW S \in SUBSET Job, S # {}, Cardinality(S) <= 1
  PROVE  \E j \in Job : S = {j}
<1>1. IsFiniteSet(S)
  BY FS_Subset
<1>2. Cardinality(S) # 0 /\ Cardinality(S) \in Nat
  BY <1>1, FS_EmptySet, FS_CardinalityType
<1>3. Cardinality(S) = 1
  BY <1>2
<1>4. PICK j : S = {j}
  BY <1>1, <1>3, FS_Singleton
<1>5. QED
  BY <1>4

(* A worker leases when it runs nothing, so what it leases is all it runs.    *)
LEMMA SingleLease ==
  ASSUME Inv, SingleInv, BatchSize = 1, IsFiniteSet(Job), NEW w \in Worker, Lease(w)
  PROVE  SingleInv'
<1>1. /\ execs \in [Worker -> SUBSET Exec] /\ QueueInv /\ jobs \in [Job -> Row]
      /\ \A j \in Job : RowInv(jobs[j])
  BY DEF Inv, QueueInv, TypeOK
<1>2. execs[w] = {}
  BY DEF Lease, Idle, SingleInv
<1>3. PICK S \in SUBSET {j \in Job : Leasable(jobs[j])} :
        /\ S # {} /\ Cardinality(S) <= BatchSize
        /\ jobs' = [j \in Job |->
                      IF j \notin S THEN jobs[j]
                      ELSE IF j \in UnknownTypeJob
                           THEN FailRow(LeaseRow(jobs[j], w), w, FALSE)
                           ELSE LeaseRow(jobs[j], w)]
        /\ execs' = [execs EXCEPT ![w] =
             execs[w] \cup {Started(j, jobs[j].attempt_count + 1) : j \in S \ UnknownTypeJob}]
  BY DEF Lease
<1>4. PICK k \in Job : S = {k}
  BY <1>3, BatchOfOne
<1> DEFINE c == jobs[k].attempt_count + 1
<1>5. /\ Leasable(jobs[k])
      /\ jobs'[k] = LeaseRow(jobs[k], w) \/ jobs'[k] = FailRow(LeaseRow(jobs[k], w), w, FALSE)
      /\ \A j \in Job : j # k => jobs'[j] = jobs[j]
  BY <1>3, <1>4
<1>6. jobs'[k].attempt_count = c /\ jobs'[k].attempts[c].worker = w
  <2> DEFINE r == jobs[k]
  <2>1. RowInv(r) /\ Leasable(r)
    BY <1>1, <1>5
  <2>2. \A s : s = LeaseRow(r, w) \/ s = FailRow(LeaseRow(r, w), w, FALSE)
          => s.attempt_count = r.attempt_count + 1
             /\ s.attempts[r.attempt_count + 1].worker = w
    <3> HIDE DEF r
    <3>1. QED
      BY <2>1, LeasedAttempt
  <2>3. QED
    BY <1>5, <2>2
<1>7. /\ \A v \in Worker : v # w => execs'[v] = execs[v]
      /\ \A f \in execs'[w] : f = Started(k, c) /\ execs'[w] = {f}
  BY <1>1, <1>2, <1>3, <1>4
<1>8. Started(k, c).awaited /\ Started(k, c).job = k /\ Started(k, c).attempt = c
  BY DEF Started
<1>9. \A v \in Worker : \A f \in execs'[v] : f.awaited /\ execs'[v] = {f}
  BY <1>7, <1>8 DEF SingleInv
<1>10. [Next]_vars
  BY DEF Next, WorkerStep
<1>11. jobs[k].attempt_count \in Nat /\ c \in Nat
  BY AttemptNumbers
<1>12. ASSUME NEW v \in Worker, NEW f \in execs'[v], NEW n \in 1..AttemptLimit,
              f.attempt < n, n <= jobs'[f.job].attempt_count
       PROVE  jobs'[f.job].attempts[n].worker # v
  <2> HIDE DEF c
  <2>1. CASE v = w
    <3>1. f.job = k /\ f.attempt = c
      BY <1>7, <1>8, <2>1
    <3>2. c < n /\ n <= c
      BY <1>6, <1>12, <3>1
    <3>3. QED
      BY <1>11, <3>2, ConstantsAssumption
  <2>2. CASE v # w
    <3>1. f \in execs[v] /\ f.job \in Job
      BY <1>1, <1>7, <2>2 DEF Exec
    <3>2. CASE n <= jobs[f.job].attempt_count
      <4>1. jobs[f.job].attempts[n].worker # v
        BY <1>12, <3>1, <3>2 DEF SingleInv
      <4>2. jobs'[f.job].attempts[n].worker = jobs[f.job].attempts[n].worker
        BY <1>1, <1>10, <3>1, <3>2, AttemptsStay
      <4>3. QED
        BY <4>1, <4>2
    <3>3. CASE ~(n <= jobs[f.job].attempt_count)
      <4>1. f.job = k
        BY <1>5, <1>12, <3>1, <3>3
      <4>2. n = c
        <5>1. n <= c /\ ~(n <= jobs[k].attempt_count) /\ c = jobs[k].attempt_count + 1
          BY <1>6, <1>12, <3>3, <4>1 DEF c
        <5>2. n \in Nat
          BY ConstantsAssumption
        <5>3. QED
          BY <1>11, <5>1, <5>2
      <4>3. QED
        BY <1>6, <2>2, <4>1, <4>2
    <3>4. QED
      BY <3>2, <3>3
  <2>3. QED
    BY <2>1, <2>2
<1>13. QED
  BY <1>9, <1>12 DEF SingleInv

LEMMA SingleInvHolds ==
  ASSUME BatchSize = 1, IsFiniteSet(Job)
  PROVE  Spec => [](Inv /\ SingleInv)
<1>1. Init => Inv /\ SingleInv
  BY InvInit DEF Init, SingleInv
<1>2. Inv /\ SingleInv /\ [Next]_vars => (Inv /\ SingleInv)'
  BY InvNext, SingleWithoutLease, SingleLease
<1>3. QED
  BY <1>1, <1>2, PTL DEF Spec

(* The coroutine that holds the lease under its worker's id is that of the    *)
(* current attempt, and it ends with the completion.                          *)
LEMMA CompletesCurrent ==
  ASSUME Inv, SingleInv, NEW w \in Worker, NEW e \in execs[w], Complete(w, e),
         jobs[e.job].status = "RUNNING", jobs'[e.job].status = "SUCCEEDED"
  PROVE  e \notin execs'[w] /\ e.attempt = jobs[e.job].attempt_count
<1>1. /\ execs \in [Worker -> SUBSET Exec] /\ e \in Exec /\ e.job \in Job
      /\ RowInv(jobs[e.job]) /\ OwnerOf(e, w, jobs)
      /\ e.awaited /\ execs[w] = {e}
  BY DEF Inv, QueueInv, TypeOK, Exec, ExecInv, SingleInv
<1>2. OwnsLiveLease(jobs[e.job], w) /\ Leave(w, e)
  BY DEF Complete
<1>3. e \notin execs'[w]
  <2>1. execs[w] \ {e} = {}
    BY <1>1
  <2>2. {[x EXCEPT !.awaited = FALSE] : x \in execs[w] \ {e}} = {}
    BY <2>1
  <2>3. QED
    BY <1>1, <1>2, <2>1, <2>2 DEF Leave, Finish, Raise
<1> DEFINE n == jobs[e.job].attempt_count
<1>4. /\ n \in 0..AttemptLimit /\ Len(jobs[e.job].attempts) = n
      /\ e.attempt \in 1..AttemptLimit /\ e.attempt <= n
  BY <1>1 DEF RowInv, Row, RowAudit, Exec, OwnerOf
<1>5. n \in 1..Len(jobs[e.job].attempts) /\ n \in 1..AttemptLimit
  BY <1>4, ConstantsAssumption
<1>6. jobs[e.job].attempts[n].worker = w
  BY <1>1, <1>2, <1>5 DEF RowInv, RowAudit, OwnsLiveLease
<1>7. ~(e.attempt < n)
  BY <1>4, <1>5, <1>6, ConstantsAssumption DEF SingleInv
<1>8. QED
  BY <1>3, <1>4, <1>7, ConstantsAssumption

(* "Completion is fenced by worker ID and lease expiry, so a stale worker       *)
(* cannot finalize a reclaimed job" (docs/architecture-m6.md) holds of          *)
(* JobRepository.complete for any workers and jobs as long as job_batch_size   *)
(* is one; with larger batches it does not (see Known behaviour in the README).*)
THEOREM SingleBatchesAreFenced ==
  ASSUME BatchSize = 1, IsFiniteSet(Job)
  PROVE  Spec => OnlyCurrentAttemptCompletes
<1> DEFINE A == \A j \in Job :
          jobs[j].status = "RUNNING" /\ jobs'[j].status = "SUCCEEDED"
          => \E w \in Worker : \E e \in execs[w] \ execs'[w] :
                e.job = j /\ e.attempt = jobs[j].attempt_count
<1>1. Inv /\ SingleInv /\ [Next]_vars => A
  <2> SUFFICES ASSUME Inv, SingleInv, [Next]_vars, NEW j \in Job,
                      jobs[j].status = "RUNNING", jobs'[j].status = "SUCCEEDED"
               PROVE  \E w \in Worker : \E e \in execs[w] \ execs'[w] :
                        e.job = j /\ e.attempt = jobs[j].attempt_count
    OBVIOUS
  <2>1. ~NothingFinishes /\ ~UNCHANGED jobs
    BY DEF NothingFinishes
  <2>2. ASSUME NEW w \in Worker, NEW e \in execs[w],
               Heartbeat(w, e) \/ ExecStep(w, e) \/ CleanupFails(w, e) \/ Abort(w, e)
        PROVE  Complete(w, e)
    <3>1. ~HandlerReturns(w, e) /\ \A c \in BOOLEAN : ~EnsureSuccess(w, e, c)
      BY <2>1 DEF HandlerReturns, EnsureSuccess
    <3>2. ~(\/ Heartbeat(w, e) \/ HandlerRaises(w, e) \/ HandlerDisowned(w, e)
            \/ CheckpointCancels(w, e) \/ CheckpointPasses(w, e) \/ CleanupFails(w, e)
            \/ Fail(w, e) \/ MarkCancelled(w, e) \/ Reconciled(w, e)
            \/ Abandon(w, e) \/ Abort(w, e))
      BY <2>1, ExecStepsFinishNothing
    <3>3. QED
      BY <2>2, <3>1, <3>2 DEF ExecStep
  <2>3. \E w \in Worker : \E e \in execs[w] : Complete(w, e)
    BY <2>1, <2>2, QueueStepsFinishNothing DEF Next, WorkerStep, vars
  <2>4. ASSUME NEW w \in Worker, NEW e \in execs[w], Complete(w, e)
        PROVE  j = e.job /\ e \notin execs'[w] /\ e.attempt = jobs[e.job].attempt_count
    <3>1. j = e.job
      BY <2>4, CompleteFinishesItsJob
    <3>2. QED
      BY <2>4, <3>1, CompletesCurrent
  <2>5. QED
    BY <2>3, <2>4
<1> HIDE DEF A
<1>2. Inv /\ SingleInv /\ [Next]_vars => [A]_vars
  BY <1>1
<1>3. Spec => [](Inv /\ SingleInv)
  BY SingleInvHolds
<1>4. Spec => [][A]_vars
  BY <1>2, <1>3, PTL DEF Spec
<1>5. QED
  BY <1>4 DEF OnlyCurrentAttemptCompletes, A
=============================================================================
