------------------------------- MODULE Outbox -------------------------------
(***************************************************************************)
(* The transactional outbox: event rows (app/repositories/                 *)
(* outbox_repository.py), the dispatch loops that lease and consume them    *)
(* (app/outbox/dispatcher.py) and the consumer's effect, a job enqueued in  *)
(* the dispatcher's own transaction (app/outbox/consumers.py).             *)
(*                                                                         *)
(* A worker process runs one dispatch loop between its job batches and      *)
(* another one for every OUTBOX_DISPATCH job, all under the same            *)
(* "<worker>:outbox" identity: a Loop is such a run of dispatch_once.       *)
(***************************************************************************)
EXTENDS Naturals

CONSTANTS Event,
          JobEvent,        \* events whose consumer enqueues a job; others are only logged
          Loop,
          Dispatcher,      \* identities: "<worker>:outbox"
          NoDispatcher,    \* locked_by IS NULL
          DispatcherOf,    \* [Loop -> Dispatcher]
          NoRun,           \* the loop holds no event
          OutboxMaxAttempts

ASSUME OutboxAssumption ==
    /\ JobEvent \subseteq Event
    /\ DispatcherOf \in [Loop -> Dispatcher]
    /\ NoDispatcher \notin Dispatcher
    /\ OutboxMaxAttempts \in Nat \ {0}

VARIABLES outbox,     \* [Event -> row], a row with status ABSENT is not in the table
          loops,      \* [Loop -> the event it works on, or NoRun]
          enqueued    \* events whose job has been committed to the queue

outboxVars == <<outbox, loops, enqueued>>

OutboxStatus == {"ABSENT", "PENDING", "PROCESSING", "PROCESSED", "FAILED", "DEAD_LETTER"}

(* lease_version and attempt_count are only ever incremented together, by     *)
(* lease_batch: `version' stands for both.                                     *)
OutboxRow == [status : OutboxStatus,
              version : 0..OutboxMaxAttempts,
              locked_by : Dispatcher \cup {NoDispatcher},
              live : BOOLEAN,      \* lease_expires_at > now
              due : BOOLEAN]       \* available_at <= now

(* A loop consumes its event in an open transaction; has consumed it; has     *)
(* renewed the lease for the last time; or is about to record a failure.       *)
Run == [event : Event, version : 1..OutboxMaxAttempts,
        pc : {"consuming", "consumed", "renewed", "failing"}]

OutboxTypeOK ==
    /\ outbox \in [Event -> OutboxRow]
    /\ loops \in [Loop -> Run \cup {NoRun}]
    /\ enqueued \subseteq JobEvent

-----------------------------------------------------------------------------
(* Rows.                                                                    *)

NoEvent == [status |-> "ABSENT", version |-> 0, locked_by |-> NoDispatcher,
            live |-> FALSE, due |-> TRUE]

Unlocked(r, status) == [r EXCEPT !.status = status, !.locked_by = NoDispatcher, !.live = FALSE]

(* Mutant: failed events are not looked for.                                  *)
LeasablePending(r) == r.status = "PENDING" /\ r.due

Leasable(r) == r.status \in {"PENDING", "FAILED"} /\ r.due

LeasedRow(r, d) ==
    [r EXCEPT !.status = "PROCESSING", !.locked_by = d, !.live = TRUE, !.version = @ + 1]

FailedStatus(r) == IF r.version >= OutboxMaxAttempts THEN "DEAD_LETTER" ELSE "FAILED"

(* A consumer that failed backs off; an event whose lease ran out is due.     *)
FailedRow(r)    == [Unlocked(r, FailedStatus(r)) EXCEPT !.due = FALSE]
ReclaimedRow(r) == [Unlocked(r, FailedStatus(r)) EXCEPT !.due = TRUE]

(* Mutant: the fence of every statement of a loop forgets the version.        *)
FencedByWorker(l) ==
    LET r == outbox[loops[l].event]
    IN  r.status = "PROCESSING" /\ r.locked_by = DispatcherOf[l] /\ r.live

(* The condition of every statement of a loop on its event.                   *)
Fenced(l) ==
    LET r == outbox[loops[l].event]
    IN  /\ r.status = "PROCESSING"
        /\ r.locked_by = DispatcherOf[l]
        /\ r.version = loops[l].version
        /\ r.live

-----------------------------------------------------------------------------
OutboxInit ==
    /\ outbox = [e \in Event |-> NoEvent]
    /\ loops = [l \in Loop |-> NoRun]
    /\ enqueued = {}

(* add_event, in the transaction of the business change: an insert under the  *)
(* unique idempotency key, or the existing row.                               *)
Publish(e) ==
    /\ outbox' = IF outbox[e].status = "ABSENT"
                 THEN [outbox EXCEPT ![e].status = "PENDING"] ELSE outbox
    /\ UNCHANGED <<loops, enqueued>>

(* At the head of dispatch_once, or from the operations endpoint.            *)
ReconcileStale ==
    \E S \in SUBSET {e \in Event : outbox[e].status = "PROCESSING" /\ ~outbox[e].live} :
        /\ S # {}
        /\ outbox' = [e \in Event |-> IF e \in S THEN ReclaimedRow(outbox[e]) ELSE outbox[e]]
        /\ UNCHANGED <<loops, enqueued>>

(* Rows locked by others are skipped, so any due event may come.             *)
LeaseOne(l) ==
    /\ loops[l] = NoRun
    /\ \E e \in Event :
        /\ Leasable(outbox[e])
        /\ outbox' = [outbox EXCEPT ![e] = LeasedRow(@, DispatcherOf[l])]
        /\ loops' = [loops EXCEPT ![l] = [event |-> e, version |-> outbox[e].version + 1,
                                        pc |-> "consuming"]]
    /\ UNCHANGED enqueued

At(l, pc) == loops[l] # NoRun /\ loops[l].pc = pc

Goto(l, pc) == loops' = [loops EXCEPT ![l].pc = pc]

(* Leaving the run rolls its transaction back, if it was not committed.       *)
EndRun(l) == loops' = [loops EXCEPT ![l] = NoRun]

(* The uncommitted insert of a loop makes another's insert under the same key *)
(* wait.                                                                      *)
Inserted(l) == At(l, "consumed") \/ At(l, "renewed")

Consume(l) ==
    /\ At(l, "consuming")
    /\ loops[l].event \in JobEvent =>
         \A m \in Loop : Inserted(m) => loops[m].event # loops[l].event
    /\ Goto(l, "consumed")
    /\ UNCHANGED <<outbox, enqueued>>

(* An exception of the consumer or of the statements after it.               *)
ConsumerFails(l) ==
    /\ At(l, "consuming") \/ Inserted(l)
    /\ Goto(l, "failing")
    /\ UNCHANGED <<outbox, enqueued>>

(* The heartbeat cancels the consumer when its lease is gone.                *)
RenewOnce(l) ==
    /\ Fenced(l)
    /\ outbox' = [outbox EXCEPT ![loops[l].event].live = TRUE]

Heartbeat(l) ==
    /\ At(l, "consuming")
    /\ \/ RenewOnce(l) /\ UNCHANGED loops
       \/ ~Fenced(l) /\ EndRun(l) /\ UNCHANGED outbox
    /\ UNCHANGED enqueued

LastRenewal(l) ==
    /\ At(l, "consumed")
    /\ \/ RenewOnce(l) /\ Goto(l, "renewed")
       \/ ~Fenced(l) /\ EndRun(l) /\ UNCHANGED outbox
    /\ UNCHANGED enqueued

(* Mutant: the consumer's transaction is committed before the row is marked.  *)
MarkProcessedTooLate(l) ==
    /\ At(l, "renewed")
    /\ enqueued' = enqueued \cup ({loops[l].event} \cap JobEvent)
    /\ IF Fenced(l)
       THEN outbox' = [outbox EXCEPT ![loops[l].event] = Unlocked(@, "PROCESSED")]
       ELSE UNCHANGED outbox
    /\ EndRun(l)

(* The fenced update and the consumer's insert commit together.              *)
MarkProcessed(l) ==
    /\ At(l, "renewed")
    /\ IF Fenced(l)
       THEN /\ outbox' = [outbox EXCEPT ![loops[l].event] = Unlocked(@, "PROCESSED")]
            /\ enqueued' = enqueued \cup ({loops[l].event} \cap JobEvent)
       ELSE UNCHANGED <<outbox, enqueued>>
    /\ EndRun(l)

RecordFailure(l) ==
    /\ At(l, "failing")
    /\ IF Fenced(l)
       THEN outbox' = [outbox EXCEPT ![loops[l].event] = FailedRow(@)]
       ELSE UNCHANGED outbox
    /\ EndRun(l)
    /\ UNCHANGED enqueued

(* The process dies, the OUTBOX_DISPATCH job is cancelled, or the database    *)
(* fails where nothing catches it.                                            *)
Abort(l) ==
    /\ loops[l] # NoRun
    /\ EndRun(l)
    /\ UNCHANGED <<outbox, enqueued>>

LeaseExpires(e) ==
    /\ outbox[e].live
    /\ outbox' = [outbox EXCEPT ![e].live = FALSE]
    /\ UNCHANGED <<loops, enqueued>>

BackoffElapses(e) ==
    /\ outbox[e].status = "FAILED"
    /\ ~outbox[e].due
    /\ outbox' = [outbox EXCEPT ![e].due = TRUE]
    /\ UNCHANGED <<loops, enqueued>>

(* What a loop does unless it is killed.                                      *)
LoopStep(l) ==
    \/ LeaseOne(l) \/ Consume(l) \/ ConsumerFails(l)
    \/ LastRenewal(l) \/ MarkProcessed(l) \/ RecordFailure(l)

EventStep(e) == Publish(e) \/ LeaseExpires(e) \/ BackoffElapses(e)

OutboxNext ==
    \/ ReconcileStale
    \/ \E l \in Loop : LoopStep(l) \/ Heartbeat(l) \/ Abort(l)
    \/ \E e \in Event : EventStep(e)

OutboxSpec == OutboxInit /\ [][OutboxNext]_outboxVars

(* Workers keep dispatching (run_forever), consumers end and time passes.     *)
OutboxFairness ==
    /\ WF_outboxVars(ReconcileStale)
    /\ \A l \in Loop : WF_outboxVars(LoopStep(l))
    /\ \A e \in Event : WF_outboxVars(LeaseExpires(e)) /\ WF_outboxVars(BackoffElapses(e))

OutboxFairSpec == OutboxSpec /\ OutboxFairness

-----------------------------------------------------------------------------
(* PROPERTIES                                                               *)

(* The job of an event is in the queue exactly when the event is PROCESSED:   *)
(* "The consumer transaction includes both its idempotent side effect and the *)
(* fenced PROCESSED update" (docs/architecture-m6.md).                        *)
EffectIffProcessed == enqueued = {e \in JobEvent : outbox[e].status = "PROCESSED"}

(* Of all the loops that hold an event, some of them under one identity and   *)
(* some long since superseded, at most one may still write to it.              *)
OneWriter ==
    \A l, m \in Loop :
        /\ loops[l] # NoRun /\ loops[m] # NoRun /\ l # m
        /\ Fenced(l) /\ Fenced(m)
        => loops[l].event # loops[m].event

(* An event that waits has an attempt left, one that is being processed is     *)
(* locked, and no stale owner knows a version the row has not reached.         *)
OutboxBudget ==
    /\ \A e \in Event :
         /\ outbox[e].status \in {"PENDING", "FAILED"} => outbox[e].version < OutboxMaxAttempts
         /\ outbox[e].status = "PROCESSING" <=> outbox[e].locked_by # NoDispatcher
         /\ outbox[e].live => outbox[e].status = "PROCESSING"
    /\ \A l \in Loop : loops[l] # NoRun => loops[l].version <= outbox[loops[l].event].version

(* What a publisher sees of a row.                                           *)
Phase(r) == CASE r.status = "ABSENT" -> "absent"
              [] r.status = "PROCESSED" -> "delivered"
              [] r.status = "DEAD_LETTER" -> "dead"
              [] OTHER -> "waiting"

EventDelivery == INSTANCE OutboxDelivery WITH
    delivery <- [e \in Event |-> Phase(outbox[e])],
    effects <- enqueued

(* Every event is delivered once or given up, never both and never again, and *)
(* its effect comes with the delivery (mark_processed and the consumer's        *)
(* insert share a transaction).                                                *)
ImplementsDelivery == EventDelivery!DeliverySpec

(* No event is stuck: across crashes, lost leases and failing consumers it is  *)
(* PROCESSED or a DEAD_LETTER in the end.                                      *)
EventsSettle ==
    \A e \in Event :
        outbox[e].status = "PENDING" ~> outbox[e].status \in {"PROCESSED", "DEAD_LETTER"}
=============================================================================
