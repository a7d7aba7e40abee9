--------------------------- MODULE ActionExecution ---------------------------
(***************************************************************************)
(* Controlled agent actions (app/service/action_service.py,                 *)
(* app/agentic/actions/executor.py): an agent proposes an action on its     *)
(* workflow, policy decides whether it runs at once, waits for a human or   *)
(* is refused, and the executor evaluates policy again, reserves the one    *)
(* execution of the request, runs the handler and settles both rows, each   *)
(* in a transaction of its own; the memory of the outcome is written after. *)
(*                                                                         *)
(* The executor reads the request before it has any lock and goes on with   *)
(* the object of that first read after it has locked the row: neither a     *)
(* query nor a commit refreshes a loaded object, only a rollback of an open *)
(* transaction does.  So `held' below may be older than the row.            *)
(*                                                                         *)
(* All requests are about one workflow, whose revision number never changes;*)
(* the campaign may have moved on to a later workflow.  A request goes by   *)
(* its action: its idempotency key.  The processes may run different        *)
(* releases of the action registry.                                        *)
(***************************************************************************)
EXTENDS Naturals

CONSTANTS Action,        \* the actions proposed on the workflow
          Caller,        \* agents, API calls and jobs, one call each at a time
          Release,       \* registries in use: [Action -> Rule]
          HumanRole,     \* levels of the humans who decide
          NoAction,      \* the request of an idle caller
          MaxVersion,    \* bound of the model: the campaign's version
          MaxDeadline    \* bound of the model: deadlines given to a request

VARIABLES campaign,    \* [status, version]
          workflow,    \* status of the workflow
          requests,    \* [Action -> request row]
          executions,  \* [Action -> execution row]
          memories,    \* [Action -> terminal events in agent_memory_entries]
          elapsed,     \* [Action -> the last of its deadlines that has passed]
          callers,     \* [Caller -> call in progress]
          effects      \* [Action -> how often its handler committed]

scope == <<campaign, workflow>>
rows == <<requests, executions, memories>>
vars == <<scope, rows, elapsed, callers, effects>>

-----------------------------------------------------------------------------
(* How runner and reviewer move a workflow while its agents propose actions   *)
(* or wait for them; statuses at which no action is allowed are left out.     *)
Moves ==
    [ANALYZING |-> {"GENERATING"},
     GENERATING |-> {"REVIEWING"},
     REVIEWING |-> {"GENERATING", "MANUAL_REVIEW_REQUIRED", "PENDING_APPROVAL"},
     MANUAL_REVIEW_REQUIRED |-> {},
     PENDING_APPROVAL |-> {"REVISION_REQUIRED"},
     REVISION_REQUIRED |-> {"GENERATING"}]

Status == DOMAIN Moves

(* Where an action is allowed, and what its handler changes.                 *)
Definition ==
    [create_internal_recommendation |->
        [allowed |-> Status, next |-> "same", bumps |-> FALSE],
     update_campaign_metadata |->
        [allowed |-> {"REVISION_REQUIRED"}, next |-> "same", bumps |-> TRUE],
     request_campaign_regeneration |->
        [allowed |-> {"REVIEWING"}, next |-> "GENERATING", bumps |-> FALSE],
     mark_for_manual_review |->
        [allowed |-> {"REVIEWING"}, next |-> "MANUAL_REVIEW_REQUIRED", bumps |-> FALSE]]

(* ACTION_ROLE_LEVELS; 0 is no role.                                         *)
RoleLevel == [none |-> 0, REVIEWER |-> 1, MANAGER |-> 2, ADMIN |-> 3]

Level == 0..3

Decision == {"SAFE", "APPROVAL_REQUIRED", "FORBIDDEN"}

Rule == {rule \in [decision : Decision, role : Level] :
            rule.decision # "APPROVAL_REQUIRED" => rule.role = 0}

ASSUME ActionAssumption ==
    /\ Action \subseteq DOMAIN Definition
    /\ NoAction \notin Action
    /\ Release \subseteq [Action -> Rule]
    /\ HumanRole \subseteq Level \ {0}
    /\ MaxVersion \in Nat
    /\ MaxDeadline \in Nat

RequestStatus == {"ABSENT", "PROPOSED", "PENDING_APPROVAL", "APPROVED", "REJECTED",
                  "EXPIRED", "EXECUTING", "COMPLETED", "FAILED"}

(* `deadline' numbers the values given to expires_at; 0 is none.             *)
RequestRow == [status : RequestStatus, version : Nat, policy : Decision, role : Level,
               approved : Level, rejected : BOOLEAN, deadline : Nat]

NoRequest == [status |-> "ABSENT", version |-> 0, policy |-> "SAFE", role |-> 0,
              approved |-> 0, rejected |-> FALSE, deadline |-> 0]

ExecutionStatus == {"ABSENT", "RUNNING", "COMPLETED", "FAILED", "CANCELLED"}

Guard == [campaign : [status : Status, version : Nat], workflow : Status]

ExecutionRow == [status : ExecutionStatus, guard : Guard,
                 memory : {"NOT_REQUIRED", "PENDING", "RECORDED", "FAILED"}]

(* What the reservation stores about the state it was made in.                *)
CurrentGuard == [campaign |-> campaign, workflow |-> workflow]

NoExecution == [status |-> "ABSENT", guard |-> CurrentGuard, memory |-> "NOT_REQUIRED"]

Pc == {"idle", "proposing", "approving", "rejecting", "expiring", "locking",
       "handling", "succeeding", "failing", "cancelling",
       "remembering", "recording", "marking", "giving_up"}

Call == [pc : Pc, action : Action \cup {NoAction}, held : RequestRow]

Idle == [pc |-> "idle", action |-> NoAction, held |-> NoRequest]

At(c, pc) == callers[c].pc = pc

TypeOK ==
    /\ campaign \in [status : Status, version : Nat]
    /\ workflow \in Status
    /\ requests \in [Action -> RequestRow]
    /\ executions \in [Action -> ExecutionRow]
    /\ memories \in [Action -> SUBSET {"ACTION_COMPLETED", "ACTION_FAILED"}]
    /\ elapsed \in [Action -> Nat]
    /\ callers \in [Caller -> Call]
    /\ effects \in [Action -> Nat]
    /\ \A a \in Action : requests[a].status = "ABSENT" <=> requests[a].version = 0
    /\ \A c \in Caller : callers[c].action = NoAction <=> At(c, "idle")

-----------------------------------------------------------------------------
(* PolicyEngine.evaluate: both statuses must allow the action.               *)
Evaluate(a, release) ==
    IF {campaign.status, workflow} \subseteq Definition[a].allowed
    THEN release[a]
    ELSE [decision |-> "FORBIDDEN", role |-> 0]

FreshPolicy(a) == {Evaluate(a, release) : release \in Release}

Terminal(a) == executions[a].status \in {"COMPLETED", "FAILED", "CANCELLED"}

Calls(c, pc, a, held) ==
    callers' = [callers EXCEPT ![c] = [pc |-> pc, action |-> a, held |-> held]]

(* Go on with the object held; or without it, to read the row again.         *)
Keep(c, pc) == callers' = [callers EXCEPT ![c].pc = pc]

Goto(c, pc) == Calls(c, pc, callers[c].action, NoRequest)

Return(c) == callers' = [callers EXCEPT ![c] = Idle]

-----------------------------------------------------------------------------
Init ==
    /\ \E s \in Status : campaign = [status |-> s, version |-> 1] /\ workflow = s
    /\ requests = [a \in Action |-> NoRequest]
    /\ executions = [a \in Action |-> NoExecution]
    /\ memories = [a \in Action |-> {}]
    /\ elapsed = [a \in Action |-> 0]
    /\ callers = [c \in Caller |-> Idle]
    /\ effects = [a \in Action |-> 0]

-----------------------------------------------------------------------------
(* THE WORKFLOW AND THE CLOCK                                               *)

(* A decision for a revision closes the workflow and raises the version.     *)
MoveCampaign(s) ==
    LET version == campaign.version + IF s = "REVISION_REQUIRED" THEN 1 ELSE 0
    IN  version <= MaxVersion /\ campaign' = [status |-> s, version |-> version]

(* Both rows move in one transaction.                                        *)
WorkflowMoves ==
    /\ campaign.status = workflow
    /\ \E s \in Moves[workflow] : workflow' = s /\ MoveCampaign(s)
    /\ UNCHANGED <<rows, elapsed, callers, effects>>

(* The next workflow moves the campaign on without this one.                 *)
CampaignMovesOn ==
    /\ workflow = "REVISION_REQUIRED"
    /\ \E s \in Moves[campaign.status] : MoveCampaign(s)
    /\ UNCHANGED <<workflow, rows, elapsed, callers, effects>>

(* update_campaign and update_metadata of the campaign's own API.            *)
CampaignUpdated ==
    /\ campaign.version < MaxVersion
    /\ campaign' = [campaign EXCEPT !.version = @ + 1]
    /\ UNCHANGED <<workflow, rows, elapsed, callers, effects>>

DeadlinePasses(a) ==
    /\ elapsed[a] < requests[a].deadline
    /\ elapsed' = [elapsed EXCEPT ![a] = requests[a].deadline]
    /\ UNCHANGED <<scope, rows, callers, effects>>

-----------------------------------------------------------------------------
(* PROPOSAL AND DECISION                                                    *)

(* A new request, from the policy evaluated in the transaction before.       *)
Proposal(rule) ==
    [NoRequest EXCEPT
        !.version = 1, !.policy = rule.decision, !.role = rule.role,
        !.status = CASE rule.decision = "SAFE" -> "PROPOSED"
                     [] rule.decision = "APPROVAL_REQUIRED" -> "PENDING_APPROVAL"
                     [] rule.decision = "FORBIDDEN" -> "REJECTED",
        !.deadline = IF rule.decision = "APPROVAL_REQUIRED" THEN 1 ELSE 0]

Propose(c, a) ==
    /\ At(c, "idle")
    /\ requests[a].status = "ABSENT"
    /\ \E rule \in FreshPolicy(a) : Calls(c, "proposing", a, Proposal(rule))
    /\ UNCHANGED <<scope, rows, elapsed, effects>>

(* The key of the request is unique: a duplicate returns the existing one.  A *)
(* safe action is executed with the object just inserted.                     *)
CreateProposal(c) ==
    LET a == callers[c].action
        proposal == callers[c].held
    IN  /\ At(c, "proposing")
        /\ IF requests[a].status = "ABSENT"
           THEN /\ requests' = [requests EXCEPT ![a] = proposal]
                /\ IF proposal.status = "PROPOSED" THEN Keep(c, "locking") ELSE Return(c)
           ELSE Return(c) /\ UNCHANGED requests
        /\ UNCHANGED <<scope, executions, memories, elapsed, effects>>

(* A decision is about a request read as pending in the version expected; any *)
(* other call is refused.  A request proposed without a role asks for an ADMIN.*)
MinimumRole(a) == IF requests[a].role = 0 THEN RoleLevel.ADMIN ELSE requests[a].role

Late(a, held) == held.deadline # 0 /\ held.deadline <= elapsed[a]

BeginDecision(c, a) ==
    /\ At(c, "idle")
    /\ requests[a].status = "PENDING_APPROVAL"
    /\ \E role \in HumanRole : role >= MinimumRole(a)
    /\ \/ Calls(c, "rejecting", a, requests[a])
       \/ Calls(c, IF Late(a, requests[a]) THEN "expiring" ELSE "approving", a, requests[a])
    /\ UNCHANGED <<scope, rows, elapsed, effects>>

(* Mutant: the update finds the row by its key alone.                        *)
UnchangedAssumed(c, statuses) == requests[callers[c].action].status # "ABSENT"

(* The update that ends it is fenced by the version read and by the status.   *)
Unchanged(c, statuses) ==
    LET row == requests[callers[c].action]
    IN  row.version = callers[c].held.version /\ row.status \in statuses

Expired(c) ==
    LET a == callers[c].action
    IN  IF Unchanged(c, {"PENDING_APPROVAL", "APPROVED"})
        THEN requests' = [requests EXCEPT ![a].status = "EXPIRED", ![a].version = @ + 1]
        ELSE UNCHANGED requests

Approve(c) ==
    LET a == callers[c].action
    IN  /\ At(c, "approving")
        /\ IF Unchanged(c, {"PENDING_APPROVAL"})
           THEN \E role \in HumanRole :
                  /\ role >= MinimumRole(a)
                  /\ requests' = [requests EXCEPT ![a].status = "APPROVED", ![a].approved = role,
                                                  ![a].version = @ + 1]
           ELSE UNCHANGED requests
        /\ Return(c)
        /\ UNCHANGED <<scope, executions, memories, elapsed, effects>>

Reject(c) ==
    LET a == callers[c].action
    IN  /\ At(c, "rejecting")
        /\ IF Unchanged(c, {"PROPOSED", "PENDING_APPROVAL"})
           THEN requests' = [requests EXCEPT ![a].status = "REJECTED", ![a].rejected = TRUE,
                                             ![a].version = @ + 1]
           ELSE UNCHANGED requests
        /\ Return(c)
        /\ UNCHANGED <<scope, executions, memories, elapsed, effects>>

Expire(c) ==
    /\ At(c, "expiring")
    /\ Expired(c)
    /\ Return(c)
    /\ UNCHANGED <<scope, executions, memories, elapsed, effects>>

-----------------------------------------------------------------------------
(* RESERVATION: ControlledActionExecutor._reserve                           *)

(* The first read.  A call that expects another version is refused.           *)
BeginExecute(c, a) ==
    /\ At(c, "idle")
    /\ requests[a].status # "ABSENT"
    /\ Calls(c, "locking", a, requests[a])
    /\ UNCHANGED <<scope, rows, elapsed, effects>>

(* What follows is one transaction, under the locks of campaign, workflow and *)
(* request: tests of the held request and of a fresh policy, in this order.    *)
Executable(held) == held.status \in {"PROPOSED", "PENDING_APPROVAL", "APPROVED"}

(* Mutant: the deadline is looked at when the decision is made, not here.     *)
AdmittedLate(a, held, rule) == Executable(held) /\ rule.decision # "FORBIDDEN"

Admitted(a, held, rule) ==
    Executable(held) /\ rule.decision # "FORBIDDEN" /\ ~Late(a, held)

MustAsk(held, rule) == held.status = "PROPOSED" /\ rule.decision = "APPROVAL_REQUIRED"

TooWeak(held, rule) == held.status = "APPROVED" /\ held.approved < rule.role

MayRun(a, held, rule) ==
    /\ Admitted(a, held, rule)
    /\ held.status # "PENDING_APPROVAL"
    /\ ~MustAsk(held, rule)
    /\ ~TooWeak(held, rule)

(* Refused without a trace (but for the last_policy columns).                *)
Refuse(c) ==
    LET a == callers[c].action
        held == callers[c].held
    IN  /\ At(c, "locking")
        /\ \/ ~Executable(held)
           \/ \E rule \in FreshPolicy(a) :
                \/ Admitted(a, held, rule) /\ held.status = "PENDING_APPROVAL"
                \/ MayRun(a, held, rule) /\ executions[a].status # "ABSENT"
        /\ Return(c)
        /\ UNCHANGED <<scope, rows, elapsed, effects>>

(* An update through the held object: its columns and the version after its.  *)
Overwrite(c, status) ==
    requests' = [requests EXCEPT ![callers[c].action].status = status,
                                 ![callers[c].action].version = callers[c].held.version + 1]

Deny(c) ==
    LET a == callers[c].action
        held == callers[c].held
    IN  /\ At(c, "locking")
        /\ Executable(held)
        /\ \E rule \in FreshPolicy(a) :
             \/ rule.decision = "FORBIDDEN"
             \/ Admitted(a, held, rule) /\ TooWeak(held, rule)
        /\ Overwrite(c, "REJECTED")
        /\ Return(c)
        /\ UNCHANGED <<scope, executions, memories, elapsed, effects>>

FindExpired(c) ==
    LET a == callers[c].action
    IN  /\ At(c, "locking")
        /\ Executable(callers[c].held)
        /\ Late(a, callers[c].held)
        /\ \E rule \in FreshPolicy(a) : rule.decision # "FORBIDDEN"
        /\ Expired(c)
        /\ Return(c)
        /\ UNCHANGED <<scope, executions, memories, elapsed, effects>>

AskApproval(c) ==
    LET a == callers[c].action
        held == callers[c].held
    IN  /\ At(c, "locking")
        /\ \E rule \in FreshPolicy(a) : Admitted(a, held, rule) /\ MustAsk(held, rule)
        /\ requests[a].deadline < MaxDeadline
        /\ requests' = [requests EXCEPT ![a].status = "PENDING_APPROVAL",
                                        ![a].version = held.version + 1,
                                        ![a].deadline = @ + 1]
        /\ Return(c)
        /\ UNCHANGED <<scope, executions, memories, elapsed, effects>>

(* Mutant: the held status is trusted to tell whether the action was executed. *)
ReserveTrusting(c) ==
    LET a == callers[c].action
        held == callers[c].held
    IN  /\ At(c, "locking")
        /\ \E rule \in FreshPolicy(a) : MayRun(a, held, rule)
        /\ executions' = [executions EXCEPT ![a].status = "RUNNING", ![a].guard = CurrentGuard]
        /\ Overwrite(c, "EXECUTING")
        /\ Calls(c, "handling", a, [held EXCEPT !.status = "EXECUTING", !.version = @ + 1])
        /\ UNCHANGED <<scope, memories, elapsed, effects>>

(* The execution is unique per request, whatever the held request says.      *)
Reserve(c) ==
    LET a == callers[c].action
        held == callers[c].held
    IN  /\ At(c, "locking")
        /\ \E rule \in FreshPolicy(a) : MayRun(a, held, rule)
        /\ executions[a].status = "ABSENT"
        /\ executions' = [executions EXCEPT ![a].status = "RUNNING", ![a].guard = CurrentGuard]
        /\ Overwrite(c, "EXECUTING")
        /\ Calls(c, "handling", a, [held EXCEPT !.status = "EXECUTING", !.version = @ + 1])
        /\ UNCHANGED <<scope, memories, elapsed, effects>>

-----------------------------------------------------------------------------
(* EXECUTION                                                                *)

(* Mutant: the handler relies on the policy evaluated at the reservation.     *)
HandleUnguarded(c) ==
    LET a == callers[c].action
        d == Definition[a]
    IN  /\ At(c, "handling")
        /\ d.bumps => campaign.version < MaxVersion
        /\ workflow' = IF d.next = "same" THEN workflow ELSE d.next
        /\ campaign' = [status |-> IF d.next = "same" THEN campaign.status ELSE d.next,
                        version |-> campaign.version + IF d.bumps THEN 1 ELSE 0]
        /\ effects' = [effects EXCEPT ![a] = @ + 1]
        /\ \E pc \in {"succeeding", "failing", "cancelling"} : Keep(c, pc)
        /\ UNCHANGED <<rows, elapsed>>

(* The handler's transaction, and how its caller hears of it: the timeout or  *)
(* a cancellation may strike when it is already committed.                   *)
Handle(c) ==
    LET a == callers[c].action
        d == Definition[a]
    IN  /\ At(c, "handling")
        /\ executions[a].guard = CurrentGuard
        /\ d.bumps => campaign.version < MaxVersion
        /\ workflow' = IF d.next = "same" THEN workflow ELSE d.next
        /\ campaign' = [status |-> IF d.next = "same" THEN campaign.status ELSE d.next,
                        version |-> campaign.version + IF d.bumps THEN 1 ELSE 0]
        /\ effects' = [effects EXCEPT ![a] = @ + 1]
        /\ \E pc \in {"succeeding", "failing", "cancelling"} : Keep(c, pc)
        /\ UNCHANGED <<rows, elapsed>>

(* The state changed after the reservation, or the handler fails otherwise:   *)
(* in its transaction, or before it has one.                                 *)
HandlerStops(c) ==
    /\ At(c, "handling")
    /\ \E pc \in {"failing", "cancelling"} : Goto(c, pc) \/ Keep(c, pc)
    /\ UNCHANGED <<scope, rows, elapsed, effects>>

(* The request as the session has it: the object it holds, or a fresh row.   *)
Known(c) ==
    IF callers[c].held = NoRequest THEN requests[callers[c].action] ELSE callers[c].held

(* Mutant: the request is committed before its execution is.                  *)
SettleRequestFirst(c, status, outcome) ==
    LET a == callers[c].action
    IN  /\ executions[a].status = "RUNNING"
        /\ requests' = [requests EXCEPT ![a].status = outcome,
                                        ![a].version = Known(c).version + 1]
        /\ UNCHANGED <<scope, executions, memories, elapsed, callers, effects>>

(* _finalize_*: both rows, under their locks.  The attempt to remember it that *)
(* is counted next finds PENDING in the object at hand and changes no status. *)
Settle(c, status, outcome) ==
    LET a == callers[c].action
    IN  /\ executions[a].status = "RUNNING"
        /\ executions' = [executions EXCEPT ![a].status = status, ![a].memory = "PENDING"]
        /\ requests' = [requests EXCEPT ![a].status = outcome,
                                        ![a].version = Known(c).version + 1]
        /\ Goto(c, "recording")
        /\ UNCHANGED <<scope, memories, elapsed, effects>>

FinalizeSuccess(c) == At(c, "succeeding") /\ Settle(c, "COMPLETED", "COMPLETED")

SuccessNotStored(c) ==
    /\ At(c, "succeeding")
    /\ \E pc \in {"failing", "cancelling"} : Goto(c, pc)
    /\ UNCHANGED <<scope, rows, elapsed, effects>>

FinalizeFailure(c) == At(c, "failing") /\ Settle(c, "FAILED", "FAILED")

FinalizeCancelled(c) == At(c, "cancelling") /\ Settle(c, "CANCELLED", "FAILED")

-----------------------------------------------------------------------------
(* MEMORY: _record_terminal_memory, and the reconciliation that repeats it  *)

(* Only finished executions are in the list that the reconciliation reads.   *)
BeginReconcile(c, a) ==
    /\ At(c, "idle")
    /\ Terminal(a)
    /\ executions[a].memory \in {"PENDING", "FAILED"}
    /\ Calls(c, "remembering", a, NoRequest)
    /\ UNCHANGED <<scope, rows, elapsed, effects>>

StartMemory(c) ==
    LET a == callers[c].action
    IN  /\ At(c, "remembering")
        /\ IF executions[a].memory = "RECORDED"
           THEN Return(c) /\ UNCHANGED executions
           ELSE /\ executions' = [executions EXCEPT ![a].memory = "PENDING"]
                /\ Goto(c, "recording")
        /\ UNCHANGED <<scope, requests, memories, elapsed, effects>>

Event(a) ==
    IF executions[a].status = "COMPLETED" THEN "ACTION_COMPLETED" ELSE "ACTION_FAILED"

(* record_event commits by itself; the entry of an event is unique.          *)
RecordEvent(c) ==
    LET a == callers[c].action
    IN  /\ At(c, "recording")
        /\ memories' = [memories EXCEPT ![a] = @ \cup {Event(a)}]
        /\ Goto(c, "marking")
        /\ UNCHANGED <<scope, requests, executions, elapsed, effects>>

MarkMemory(c, status) ==
    /\ executions' = [executions EXCEPT ![callers[c].action].memory = status]
    /\ Return(c)
    /\ UNCHANGED <<scope, requests, memories, elapsed, effects>>

MarkRecorded(c) == At(c, "marking") /\ MarkMemory(c, "RECORDED")

MemoryFails(c) ==
    /\ At(c, "recording") \/ At(c, "marking")
    /\ Goto(c, "giving_up")
    /\ UNCHANGED <<scope, rows, elapsed, effects>>

MarkMemoryFailed(c) == At(c, "giving_up") /\ MarkMemory(c, "FAILED")

(* The process dies, or the call raises and leaves it at that.               *)
Dies(c) ==
    /\ ~At(c, "idle")
    /\ Return(c)
    /\ UNCHANGED <<scope, rows, elapsed, effects>>

-----------------------------------------------------------------------------
ScopeStep == WorkflowMoves \/ CampaignMovesOn \/ CampaignUpdated

CallStep(c) ==
    \/ \E a \in Action :
          Propose(c, a) \/ BeginDecision(c, a) \/ BeginExecute(c, a) \/ BeginReconcile(c, a)
    \/ CreateProposal(c)
    \/ Approve(c) \/ Reject(c) \/ Expire(c)
    \/ Refuse(c) \/ Deny(c) \/ FindExpired(c) \/ AskApproval(c) \/ Reserve(c)
    \/ Handle(c) \/ HandlerStops(c)
    \/ FinalizeSuccess(c) \/ SuccessNotStored(c) \/ FinalizeFailure(c) \/ FinalizeCancelled(c)
    \/ StartMemory(c) \/ RecordEvent(c) \/ MarkRecorded(c) \/ MemoryFails(c)
    \/ MarkMemoryFailed(c)
    \/ Dies(c)

Next ==
    \/ ScopeStep
    \/ \E a \in Action : DeadlinePasses(a)
    \/ \E c \in Caller : CallStep(c)

Spec == Init /\ [][Next]_vars

-----------------------------------------------------------------------------
(* PROPERTIES                                                               *)

Executes(c, a) ==
    callers[c].action = a /\ callers[c].pc \in {"handling", "succeeding", "failing", "cancelling"}

(* "PostgreSQL uniqueness and executor reservation ensure one request and one  *)
(* side effect" (README.md), although the status that _reserve tests may be    *)
(* that of an older read: at most one call executes an action, and its        *)
(* handler commits at most once, however calls are repeated or die.           *)
OneSideEffect ==
    \A a \in Action :
        /\ effects[a] <= 1
        /\ effects[a] = 1 => executions[a].status # "ABSENT"
        /\ \A c, d \in Caller : Executes(c, a) /\ Executes(d, a) => c = d

(* The check/use gap is closed (README.md): between the policy that admitted   *)
(* an action and the handler's own transaction the workflow and other actions  *)
(* move on without a lock, yet no action takes effect in a state in which its   *)
(* definition does not allow it, nor in another version of the campaign than    *)
(* the one reserved.                                                          *)
EffectsAreAllowed ==
    [][\A a \in Action :
          effects'[a] # effects[a]
          => /\ {campaign.status, workflow} \subseteq Definition[a].allowed
             /\ campaign.version = executions[a].guard.campaign.version]_vars

(* An action that was proposed for approval starts only if a human approved   *)
(* it, in a role as high as the proposal asked for, and nobody rejected it, and *)
(* before its deadline: whatever older status the executor holds.             *)
RunsOnlyApproved ==
    [][\A a \in Action :
          /\ executions[a].status = "ABSENT"
          /\ executions'[a].status = "RUNNING"
          /\ requests[a].policy = "APPROVAL_REQUIRED"
          => /\ requests[a].approved > 0
             /\ requests[a].approved >= requests[a].role
             /\ ~requests[a].rejected
             /\ elapsed[a] < requests[a].deadline]_vars

(* Of the humans who decide on a request at the same time only one is heard.  *)
OneDecision ==
    \A a \in Action :
        requests[a].policy = "APPROVAL_REQUIRED"
        => ~(requests[a].approved > 0 /\ requests[a].rejected)

(* The request never claims an outcome its execution does not have, and what  *)
(* is shown as completed did take effect.                                    *)
OutcomeIsTrue ==
    \A a \in Action :
        /\ requests[a].status = "EXECUTING" => executions[a].status = "RUNNING"
        /\ requests[a].status = "COMPLETED" => executions[a].status = "COMPLETED"
        /\ requests[a].status = "FAILED" => executions[a].status \in {"FAILED", "CANCELLED"}
        /\ executions[a].status = "COMPLETED" => effects[a] = 1

(* Memory holds at most the one event of a finished execution, and holds it   *)
(* once it is marked as recorded: calls and reconciliations that write it in   *)
(* separate transactions, fail and repeat never make it tell another story.    *)
MemoryIsTrue ==
    \A a \in Action :
        /\ memories[a] \subseteq {Event(a)}
        /\ memories[a] # {} => Terminal(a)
        /\ executions[a].memory = "RECORDED" => memories[a] # {}
        /\ executions[a].memory = "NOT_REQUIRED" <=> ~Terminal(a)

(* What is shown of an action: its request, its execution and its memory.      *)
RecordsAreTrue == OutcomeIsTrue /\ MemoryIsTrue

(* "Approval, rejection, expiration, and execution races have one committed   *)
(* winner; stale operations receive stable conflicts" (README.md): a request   *)
(* that is shown as completed stays so.  The code does not have this property:  *)
(* see Known behaviour in the README.                                        *)
CompletedStands ==
    [][\A a \in Action :
          requests[a].status = "COMPLETED" => requests'[a].status = "COMPLETED"]_vars
=============================================================================
