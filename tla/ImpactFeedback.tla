--------------------------- MODULE ImpactFeedback ---------------------------
(***************************************************************************)
(* The impact an operator records for a completed task and the feedback its   *)
(* users give (app/business_impact/service.py).  Each call is one transaction: *)
(* it reads the task, the feedback and the impact without a lock, and writes    *)
(* them, with an event in the outbox, at its commit.                          *)
(***************************************************************************)
EXTENDS TaskOutcomes

CONSTANTS Actor,         \* those who give feedback
          Rating,        \* what they answer
          OutputVerdict, \* values of output_accepted but null
          MaxVersion,    \* bound of the model: versions of a feedback
          RequestLimit   \* bound of the model: calls in flight

ASSUME FeedbackAssumption ==
    /\ MaxVersion \in Nat /\ RequestLimit \in Nat
    /\ Rating # {} /\ "NONE" \notin OutputVerdict

VARIABLES impact,     \* [Task -> output_accepted of its impact, or NONE]
          feedback,   \* [Task -> [Actor -> the row]]
          events,     \* idempotency keys of the events in the outbox
          request     \* calls between their reads and their commit

feedbackVars == <<impact, feedback, events, request>>

(* output_accepted, or null.                                                  *)
Accepted == OutputVerdict \cup {"UNKNOWN"}

UserFeedback == [version : Nat, rating : Rating]

(* version 0: there is no row.                                                *)
NoFeedback == [version |-> 0, rating |-> CHOOSE x \in Rating : TRUE]

ImpactKey(t) == <<"impact", t>>

FeedbackKey(t, a, v) == <<"feedback", t, a, v>>

FeedbackInit ==
    /\ impact = [t \in Task |-> "NONE"]
    /\ feedback = [t \in Task |-> [a \in Actor |-> NoFeedback]]
    /\ events = {} /\ request = {}

(* A generated asset's task may have feedback from READY_FOR_REVIEW on: that is    *)
(* the same here, COMPLETED.                                                  *)
Eligible(t) == task[t] = "COMPLETED"

Ask(q) ==
    /\ Cardinality(request) < RequestLimit
    /\ request' = request \cup {q}

(* The verdict given, or that of the reviewed asset, or none.                  *)
AskImpact(t) ==
    /\ Eligible(t)
    /\ \E v \in Accepted : Ask([kind |-> "impact", task |-> t, accepted |-> v])
    /\ UNCHANGED <<impact, feedback, events>>

(* One impact for a task: uq_ai_task_impacts_task_run.                         *)
RecordImpact(q) ==
    /\ q \in request /\ q.kind = "impact"
    /\ IF impact[q.task] = "NONE"
       THEN impact' = [impact EXCEPT ![q.task] = q.accepted]
            /\ events' = events \cup {ImpactKey(q.task)}
       ELSE UNCHANGED <<impact, events>>
    /\ request' = request \ {q}
    /\ UNCHANGED feedback

(* The version the caller expects is the one that is there, or the call is      *)
(* refused; `seen' and `impact' are what the transaction has read.             *)
AskFeedback(t, a) ==
    /\ Eligible(t)
    /\ feedback[t][a].version < MaxVersion
    /\ \E v \in Accepted, x \in Rating :
         Ask([kind |-> "feedback", task |-> t, actor |-> a, accepted |-> v, rating |-> x,
              seen |-> feedback[t][a].version, impact |-> impact[t]])
    /\ UNCHANGED <<impact, feedback, events>>

(* The row was created meanwhile: uq_user_feedback_task_actor.                 *)
FeedbackExists(q) == q.seen = 0 /\ feedback[q.task][q.actor].version # 0

ImpactAfter(q) ==
    IF q.impact \notin {"NONE", q.accepted} /\ q.accepted # "UNKNOWN"
    THEN [impact EXCEPT ![q.task] = q.accepted] ELSE impact

(* Mutant: the event's key does not carry the version.                         *)
RecordFeedbackOneKey(q) ==
    /\ q \in request /\ q.kind = "feedback"
    /\ IF FeedbackExists(q) THEN UNCHANGED <<impact, feedback, events>>
       ELSE /\ feedback' = [feedback EXCEPT ![q.task][q.actor] =
                              [version |-> q.seen + 1, rating |-> q.rating]]
            /\ events' = events \cup {FeedbackKey(q.task, q.actor, 1)}
            /\ impact' = ImpactAfter(q)
    /\ request' = request \ {q}

(* An existing row is written by its id, whatever its version has become.       *)
RecordFeedback(q) ==
    /\ q \in request /\ q.kind = "feedback"
    /\ IF FeedbackExists(q) THEN UNCHANGED <<impact, feedback, events>>
       ELSE /\ feedback' = [feedback EXCEPT ![q.task][q.actor] =
                              [version |-> q.seen + 1, rating |-> q.rating]]
            /\ events' = events \cup {FeedbackKey(q.task, q.actor, q.seen + 1)}
            /\ impact' = ImpactAfter(q)
    /\ request' = request \ {q}

DropRequest(q) ==
    /\ q \in request
    /\ request' = request \ {q}
    /\ UNCHANGED <<impact, feedback, events>>

FeedbackStep ==
    /\ \/ \E t \in Task : AskImpact(t) \/ \E a \in Actor : AskFeedback(t, a)
       \/ \E q \in request : RecordImpact(q) \/ RecordFeedback(q) \/ DropRequest(q)
    /\ UNCHANGED task

-----------------------------------------------------------------------------
(* PROPERTIES                                                               *)

(* Who counts the events knows the evidence: a task has an impact if and only   *)
(* if it was announced, a feedback at version v was announced at every version   *)
(* up to v, and nothing is recorded of a task nobody asked for                      *)
(* (BusinessImpactService.record_impact, record_feedback).                      *)
EvidenceIsAnnounced ==
    \A t \in Task :
      /\ impact[t] # "NONE" <=> ImpactKey(t) \in events
      /\ \A a \in Actor :
           /\ \A v \in 1..feedback[t][a].version : FeedbackKey(t, a, v) \in events
           /\ feedback[t][a].version = 0 => \A v \in 1..MaxVersion : FeedbackKey(t, a, v) \notin events
      /\ impact[t] # "NONE" \/ (\E a \in Actor : feedback[t][a].version > 0)
         => task[t] # "NONE"

(* "A repeat submission must include the current version, preventing lost        *)
(* updates": what a submission writes is the next version of what it replaces     *)
(* (docs/business-impact-guide.md, BusinessImpactService.record_feedback).  The    *)
(* code does not have this property: see Known behaviour in the README.          *)
NoFeedbackLost ==
    [][\A t \in Task, a \in Actor :
         feedback'[t][a] # feedback[t][a]
         => feedback'[t][a].version = feedback[t][a].version + 1]_feedback
=============================================================================
