-------------------------- MODULE CampaignWorkflow --------------------------
(***************************************************************************)
(* One campaign, the workflows that produce its content and the reviewer   *)
(* who decides on it: CampaignWorkflow.run_to_pending_approval driven by   *)
(* job workers, WorkflowService.create_workflow and record_llm_call,       *)
(* AgentRunService around each specialist, and ApprovalService.decide.     *)
(*                                                                         *)
(* Every step is one database transaction or the gap between two of them.  *)
(* A checkpoint takes two steps: it first reads the workflow row without a *)
(* lock (Read...), and only then locks Campaign -> Workflow and commits    *)
(* (Commit...).  The session keeps the row object of the first read, so    *)
(* the locked SELECT returns that object with the attributes it already    *)
(* had: the second step decides on `hint', while the campaign row, not     *)
(* read before in that transaction, is current.                            *)
(***************************************************************************)
EXTENDS Naturals, Sequences, SequencesExt, Functions

CONSTANTS
  Runner,         \* job workers running this campaign's workflow jobs
  NoRow,          \* no row object is held, or no such row
  MaxRetries,     \* settings.max_content_retries
  MaxLLMCalls,    \* settings.max_llm_calls_per_workflow
  WorkflowLimit,  \* bound: workflows created for the campaign
  VersionLimit,   \* bound: versions an edit may reach
  InterruptLimit  \* bound: worker crashes and cancellations

ASSUME WorkflowAssumption ==
  /\ MaxRetries \in Nat /\ MaxLLMCalls \in Nat
  /\ WorkflowLimit \in Nat /\ VersionLimit \in Nat \ {0}
  /\ InterruptLimit \in Nat

VARIABLES
  campaign,   \* the campaigns row
  workflows,  \* the workflow_runs rows, in order of creation
  agents,     \* <<workflow, specialist>> with a CREATED or RUNNING agent_runs row
  events,     \* <<workflow, outcome>> with a WORKFLOW_COMPLETED or _FAILED event
  approvals,  \* the approval_records rows
  runner,     \* where each worker's coroutine stands
  read,       \* what the reviewer's page shows, or NoRow
  turns,      \* LLM turns each workflow really started
  finished,   \* workflows whose job is SUCCEEDED
  orphans,    \* the agent runs whose worker died
  interruptions

rows == <<campaign, workflows, agents, events, approvals, finished>>
ghosts == <<turns, orphans, interruptions>>
cwVars == <<rows, runner, read, ghosts>>

Allowed == [
  RECEIVED               |-> {"VALIDATING", "FAILED"},
  VALIDATING             |-> {"ANALYZING", "NEEDS_CLARIFICATION", "FAILED"},
  ANALYZING              |-> {"GENERATING", "NEEDS_CLARIFICATION", "FAILED"},
  GENERATING             |-> {"REVIEWING", "FAILED"},
  REVIEWING              |-> {"GENERATING", "MANUAL_REVIEW_REQUIRED",
                              "PENDING_APPROVAL", "FAILED"},
  MANUAL_REVIEW_REQUIRED |-> {"PENDING_APPROVAL", "REVISION_REQUIRED", "REJECTED"},
  PENDING_APPROVAL       |-> {"APPROVED", "REJECTED", "REVISION_REQUIRED"},
  REVISION_REQUIRED      |-> {"GENERATING", "REJECTED"},
  NEEDS_CLARIFICATION    |-> {"VALIDATING", "REJECTED"},
  APPROVED               |-> {},
  REJECTED               |-> {},
  FAILED                 |-> {}]

Status == DOMAIN Allowed
Final  == {"APPROVED", "REJECTED", "FAILED"}
Active == Status \ Final
Resting == Final \cup {"PENDING_APPROVAL", "MANUAL_REVIEW_REQUIRED"}

\* The step a runner takes without an agent, and the agent it needs otherwise.
Advance == [RECEIVED |-> "VALIDATING", VALIDATING |-> "ANALYZING",
            REVISION_REQUIRED |-> "GENERATING"]
Specialist == [ANALYZING |-> "BRIEF_ANALYST", GENERATING |-> "CONTENT_GENERATOR",
               REVIEWING |-> "CONTENT_REVIEWER"]
Verdict == {"PASS", "FAIL", "MANUAL_REVIEW_REQUIRED"}

WorkflowId == 1..Len(workflows)
NewWorkflow(status, parent, revision) ==
  [status |-> status, done |-> FALSE, parent |-> parent, revision |-> revision,
   retries |-> 0, llm |-> 0]

\* seen is the snapshot's status, draft the content the reviewing agent was given.
Idle == [pc |-> "idle", wf |-> 0, seen |-> NoRow, draft |-> 0,
         verdict |-> NoRow, hint |-> NoRow]
AgentPc == {"agent", "reserve", "answer"}

Init ==
  /\ campaign = [status |-> "RECEIVED", version |-> 1, analysis |-> FALSE, draft |-> 0,
                 judged |-> 0, verdict |-> NoRow, retries |-> 0]
  /\ workflows = << >> /\ agents = {} /\ events = {} /\ approvals = {} /\ finished = {}
  /\ runner = [r \in Runner |-> Idle]
  /\ read = NoRow
  /\ turns = [w \in 1..WorkflowLimit |-> 0]
  /\ orphans = {} /\ interruptions = 0

-----------------------------------------------------------------------------
(* The API: create a workflow, edit the campaign, read it and decide.      *)

Parents == {w \in WorkflowId : workflows[w].status = "REVISION_REQUIRED" /\ workflows[w].done}
Precedes(v, w) ==
  \/ workflows[v].revision < workflows[w].revision
  \/ workflows[v].revision = workflows[w].revision /\ v <= w

CreateWorkflow ==
  /\ Len(workflows) < WorkflowLimit
  /\ \A w \in WorkflowId : workflows[w].status \in Active => workflows[w].done
  /\ \/ /\ campaign.status = "RECEIVED"
        /\ workflows' = Append(workflows, NewWorkflow("RECEIVED", 0, 0))
     \/ /\ campaign.status = "REVISION_REQUIRED"
        /\ \E p \in Parents :
             /\ \A v \in Parents : Precedes(v, p)
             /\ workflows' = Append(workflows,
                  NewWorkflow("REVISION_REQUIRED", p, workflows[p].revision + 1))
  /\ UNCHANGED <<campaign, agents, events, approvals, finished, runner, read, ghosts>>

\* PUT /campaigns/{id}: no look at the status, only a new version.
EditCampaign ==
  /\ campaign.version < VersionLimit
  /\ campaign' = [campaign EXCEPT !.version = @ + 1]
  /\ UNCHANGED <<workflows, agents, events, approvals, finished, runner, read, ghosts>>

\* The reviewer opens a campaign whose workflow waits for a decision.
ReadCampaign ==
  /\ read = NoRow
  /\ \E w \in WorkflowId :
       /\ workflows[w].status = "PENDING_APPROVAL"
       /\ read' = [wf |-> w, version |-> campaign.version, draft |-> campaign.draft]
  /\ UNCHANGED <<rows, runner, ghosts>>

Decided(w) == \E a \in approvals : a.wf = w

\* Mutant: neither the decision record nor the status is looked at.
DecideUnchecked(decision) ==
  /\ read # NoRow /\ read' \in {read, NoRow} /\ campaign.version = read.version
  /\ workflows' = [workflows EXCEPT ![read.wf].status = decision, ![read.wf].done = TRUE]
  /\ campaign' = [campaign EXCEPT !.status = decision]
  /\ approvals' = approvals \cup
       {[wf |-> read.wf, decision |-> decision, shown |-> read, previous |-> read]}
  /\ UNCHANGED <<agents, events, finished, runner, ghosts>>

\* Both rows are locked by their first read here, so they are current.  The
\* page may be submitted again, as by a second reviewer who has the same one.
Decide(decision) ==
  /\ read # NoRow
  /\ read' \in {read, NoRow}
  /\ LET w == read.wf IN
     IF \/ Decided(w)
        \/ workflows[w].status # "PENDING_APPROVAL"
        \/ campaign.version # read.version
     THEN UNCHANGED <<campaign, workflows, approvals>>
     ELSE /\ workflows' = [workflows EXCEPT ![w].status = decision, ![w].done = TRUE]
          /\ campaign' = [campaign EXCEPT
               !.status = decision,
               !.version = IF decision = "REVISION_REQUIRED" THEN @ + 1 ELSE @]
          /\ approvals' = approvals \cup
               {[wf |-> w, decision |-> decision, shown |-> read,
                 previous |-> [wf |-> w, version |-> campaign.version,
                               draft |-> campaign.draft]]}
  /\ UNCHANGED <<agents, events, finished, runner, ghosts>>

-----------------------------------------------------------------------------
(* A runner: the loop of _run_to_pending_approval.                         *)

At(r, pc) == runner[r].pc = pc
Goto(r, pc) == runner' = [runner EXCEPT ![r] = [Idle EXCEPT !.pc = pc, !.wf = runner[r].wf]]
Stop(r) == runner' = [runner EXCEPT ![r] = Idle]
Row(r) == workflows[runner[r].wf]
ActiveRun(r) == <<runner[r].wf, Specialist[runner[r].seen]>>

\* A worker leases the workflow's job, unless it has SUCCEEDED (one job per
\* workflow: the idempotency key returns it to every later request), and
\* calls the handler.
Lease(r, w) ==
  /\ At(r, "idle") /\ w \in WorkflowId \ finished
  /\ runner' = [runner EXCEPT ![r] = [Idle EXCEPT !.pc = "load", !.wf = w]]
  /\ UNCHANGED <<rows, read, ghosts>>

\* _load_snapshot, and the return at a status the loop does not leave.
LoadSnapshot(r) ==
  /\ At(r, "load")
  /\ IF Row(r).status \in Resting \cup {"NEEDS_CLARIFICATION"}
     THEN Goto(r, "return")
     ELSE runner' = [runner EXCEPT ![r] =
            [Idle EXCEPT !.pc = "act", !.wf = runner[r].wf, !.seen = Row(r).status]]
  /\ UNCHANGED <<rows, read, ghosts>>

\* The handler returns and the worker marks the job SUCCEEDED.
FinishJob(r) ==
  /\ At(r, "return")
  /\ finished' = finished \cup {runner[r].wf}
  /\ Stop(r)
  /\ UNCHANGED <<campaign, workflows, agents, events, approvals, read, ghosts>>

\* Mutant: an active agent run is a conflict, left to the next attempt.
StartAgentConflict(r) ==
  /\ At(r, "act") /\ runner[r].seen \in DOMAIN Specialist
  /\ IF ActiveRun(r) \in agents
     THEN Stop(r) /\ UNCHANGED agents
     ELSE /\ agents' = agents \cup {ActiveRun(r)}
          /\ runner' = [runner EXCEPT ![r].pc = "agent", ![r].draft = campaign.draft]
  /\ UNCHANGED <<campaign, workflows, events, approvals, finished, read, ghosts>>

\* Orchestrator._run: context, then an agent_runs row unless one is active.
\* AgentRunAlreadyActiveError, like a missing input, is an execution failure.
StartAgent(r) ==
  /\ At(r, "act") /\ runner[r].seen \in DOMAIN Specialist
  /\ IF \/ ActiveRun(r) \in agents
        \/ runner[r].seen # "ANALYZING" /\ ~campaign.analysis
        \/ runner[r].seen = "REVIEWING" /\ campaign.draft = 0
     THEN Goto(r, "fail") /\ UNCHANGED agents
     ELSE /\ agents' = agents \cup {ActiveRun(r)}
          /\ runner' = [runner EXCEPT ![r].pc = "agent", ![r].draft = campaign.draft]
  /\ UNCHANGED <<campaign, workflows, events, approvals, finished, read, ghosts>>

\* record_llm_call before each turn: the unlocked read ...
ReadReservation(r) ==
  /\ At(r, "agent") \/ At(r, "answer")
  /\ runner' = [runner EXCEPT ![r].pc = "reserve", ![r].hint = Row(r)]
  /\ UNCHANGED <<rows, read, ghosts>>

\* Mutant: the budget is compared with > instead of >=.
CommitReservationOffByOne(r) ==
  /\ At(r, "reserve")
  /\ runner[r].hint.llm <= MaxLLMCalls
  /\ workflows' = [workflows EXCEPT ![runner[r].wf].llm = runner[r].hint.llm + 1]
  /\ turns' = [turns EXCEPT ![runner[r].wf] = @ + 1]
  /\ runner' = [runner EXCEPT ![r].pc = "answer", ![r].hint = NoRow]
  /\ UNCHANGED <<campaign, agents, events, approvals, finished, read, orphans, interruptions>>

\* ... and the locked increment, from the count the first read found.
CommitReservation(r) ==
  /\ At(r, "reserve")
  /\ IF runner[r].hint.llm >= MaxLLMCalls
     THEN /\ Goto(r, "fail")
          /\ agents' = agents \ {ActiveRun(r)}
          /\ UNCHANGED <<workflows, turns>>
     ELSE /\ workflows' = [workflows EXCEPT ![runner[r].wf].llm = runner[r].hint.llm + 1]
          /\ turns' = [turns EXCEPT ![runner[r].wf] = @ + 1]
          /\ runner' = [runner EXCEPT ![r].pc = "answer", ![r].hint = NoRow]
          /\ UNCHANGED agents
  /\ UNCHANGED <<campaign, events, approvals, finished, read, orphans, interruptions>>

\* A turn with final output: complete_run, and the checkpoint is next.
CompleteAgent(r) ==
  /\ At(r, "answer")
  /\ \E v \in Verdict : runner' = [runner EXCEPT ![r].pc = "save", ![r].verdict = v]
  /\ agents' = agents \ {ActiveRun(r)}
  /\ UNCHANGED <<campaign, workflows, events, approvals, finished, read, ghosts>>

\* Provider error, agent limit or timeout, invalid output: _record_agent_failure.
FailAgent(r) ==
  /\ At(r, "agent") \/ At(r, "answer")
  /\ agents' = agents \ {ActiveRun(r)}
  /\ Goto(r, "fail")
  /\ UNCHANGED <<campaign, workflows, events, approvals, finished, read, ghosts>>

\* _load_locked_pair, its first half: the unlocked read of the row.
ReadHint(r) ==
  /\ \/ At(r, "act") /\ runner[r].seen \in DOMAIN Advance
     \/ At(r, "save")
  /\ runner' = [runner EXCEPT ![r].pc = "commit", ![r].hint = Row(r)]
  /\ UNCHANGED <<rows, read, ghosts>>

\* Its second half, and what each checkpoint writes under both locks.
Expected(r) == runner[r].hint.status = runner[r].seen
\* Mutant: the campaign row is left behind.
MoveWorkflowOnly(r, next, newCampaign) ==
  /\ workflows' = [workflows EXCEPT ![runner[r].wf].status = next]
  /\ campaign' = newCampaign
Move(r, next, newCampaign) ==
  /\ next \in Allowed[runner[r].seen]
  /\ workflows' = [workflows EXCEPT ![runner[r].wf].status = next]
  /\ campaign' = [newCampaign EXCEPT !.status = next]

\* The review decides: approval, manual review, or another bounded attempt.
Judged(r) == [campaign EXCEPT !.judged = runner[r].draft, !.verdict = runner[r].verdict]
\* Mutant: exhausted retries are promoted.
OutcomePromotes(r) ==
  IF runner[r].verdict = "FAIL" /\ runner[r].hint.retries < MaxRetries
  THEN "GENERATING" ELSE "PENDING_APPROVAL"
Outcome(r) ==
  CASE runner[r].verdict = "PASS" -> "PENDING_APPROVAL"
    [] runner[r].verdict = "FAIL" /\ runner[r].hint.retries < MaxRetries -> "GENERATING"
    [] OTHER -> "MANUAL_REVIEW_REQUIRED"

SaveReview(r) ==
  LET next == Outcome(r) IN
  IF next = "GENERATING"
  THEN /\ workflows' = [workflows EXCEPT ![runner[r].wf].status = next,
                          ![runner[r].wf].retries = runner[r].hint.retries + 1]
       /\ campaign' = [Judged(r) EXCEPT !.status = next, !.retries = @ + 1]
       /\ UNCHANGED events
  ELSE /\ Move(r, next, Judged(r))
       /\ events' = events \cup {<<runner[r].wf, next>>}

Save(r) ==
  CASE runner[r].seen \in DOMAIN Advance ->
         Move(r, Advance[runner[r].seen], campaign) /\ UNCHANGED events
    [] runner[r].seen = "ANALYZING" ->
         Move(r, "GENERATING", [campaign EXCEPT !.analysis = TRUE]) /\ UNCHANGED events
    [] runner[r].seen = "GENERATING" ->
         Move(r, "REVIEWING", [campaign EXCEPT !.draft = @ + 1]) /\ UNCHANGED events
    [] runner[r].seen = "REVIEWING" -> SaveReview(r)

\* The checkpoint commits if the row it holds has the expected status;
\* otherwise VersionConflictError is raised and nothing is persisted.
Commit(r) ==
  /\ At(r, "commit")
  /\ IF Expected(r)
     THEN /\ Save(r)
          /\ Goto(r, IF runner[r].seen = "REVIEWING" THEN "record" ELSE "load")
     ELSE Stop(r) /\ UNCHANGED <<workflows, campaign, events>>
  /\ UNCHANGED <<agents, approvals, finished, read, ghosts>>

\* The memory entries of a review are written after its commit; any error
\* in them reaches the handler of run_to_pending_approval.
RecordFeedback(r) ==
  /\ At(r, "record")
  /\ Goto(r, "load") \/ Goto(r, "fail")
  /\ UNCHANGED <<rows, read, ghosts>>

\* _persist_failure: rollback, the unlocked read ...
ReadFailure(r) ==
  /\ At(r, "fail")
  /\ runner' = [runner EXCEPT ![r].pc = "persist", ![r].hint = Row(r)]
  /\ UNCHANGED <<rows, read, ghosts>>

\* Mutant: whatever the status, an error is persisted.
PersistFailureAlways(r) ==
  /\ At(r, "persist")
  /\ workflows' = [workflows EXCEPT ![runner[r].wf].status = "FAILED",
                                    ![runner[r].wf].done = TRUE]
  /\ campaign' = [campaign EXCEPT !.status = "FAILED"]
  /\ events' = events \cup {<<runner[r].wf, "FAILED">>}
  /\ Stop(r)
  /\ UNCHANGED <<agents, approvals, finished, read, ghosts>>

\* ... and FAILED, wherever the state machine allows it.
PersistFailure(r) ==
  /\ At(r, "persist")
  /\ IF "FAILED" \in Allowed[runner[r].hint.status]
     THEN /\ workflows' = [workflows EXCEPT ![runner[r].wf].status = "FAILED",
                                            ![runner[r].wf].done = TRUE]
          /\ campaign' = [campaign EXCEPT !.status = "FAILED"]
          /\ events' = events \cup {<<runner[r].wf, "FAILED">>}
     ELSE UNCHANGED <<workflows, campaign, events>>
  /\ Stop(r)
  /\ UNCHANGED <<agents, approvals, finished, read, ghosts>>

-----------------------------------------------------------------------------
(* What ends a runner from outside.                                        *)

\* Mutant: without the shield the cancellation also ends the bookkeeping.
CancelUnshielded(r) ==
  /\ ~At(r, "idle")
  /\ interruptions < InterruptLimit /\ interruptions' = interruptions + 1
  /\ Stop(r)
  /\ UNCHANGED <<rows, read, turns, orphans>>

\* The job is cancelled or its lease lost: the shielded failure closes the
\* agent run, and the cancellation passes every except clause of the workflow.
Cancel(r) ==
  /\ ~At(r, "idle")
  /\ interruptions < InterruptLimit /\ interruptions' = interruptions + 1
  /\ agents' = IF runner[r].pc \in AgentPc THEN agents \ {ActiveRun(r)} ELSE agents
  /\ Stop(r)
  /\ UNCHANGED <<campaign, workflows, events, approvals, finished, read, turns, orphans>>

\* The worker process dies inside an agent: its run stays CREATED or RUNNING.
\* (Elsewhere a crash leaves the rows as Cancel does.)
Crash(r) ==
  /\ runner[r].pc \in AgentPc
  /\ interruptions < InterruptLimit /\ interruptions' = interruptions + 1
  /\ orphans' = orphans \cup {ActiveRun(r)}
  /\ Stop(r)
  /\ UNCHANGED <<rows, read, turns>>

-----------------------------------------------------------------------------

RunnerStep(r) ==
  \/ LoadSnapshot(r) \/ FinishJob(r) \/ StartAgent(r)
  \/ ReadReservation(r) \/ CommitReservation(r) \/ CompleteAgent(r) \/ FailAgent(r)
  \/ ReadHint(r) \/ Commit(r) \/ RecordFeedback(r) \/ ReadFailure(r) \/ PersistFailure(r)

Next ==
  \/ CreateWorkflow \/ EditCampaign \/ ReadCampaign
  \/ \E d \in {"APPROVED", "REJECTED", "REVISION_REQUIRED"} : Decide(d)
  \/ \E r \in Runner : RunnerStep(r) \/ Cancel(r) \/ Crash(r)
  \/ \E r \in Runner, w \in 1..WorkflowLimit : Lease(r, w)

Spec == Init /\ [][Next]_cwVars

\* A worker keeps running its coroutine, and the queue hands a workflow's job
\* out again until its handler returns.
FairSpec ==
  /\ Spec
  /\ \A r \in Runner : WF_cwVars(RunnerStep(r))
  /\ \A w \in 1..WorkflowLimit : SF_cwVars(\E r \in Runner : Lease(r, w))
-----------------------------------------------------------------------------
(* Properties.                                                             *)

WorkflowRow == [status : Status, done : BOOLEAN, parent : Nat, revision : Nat,
                retries : Nat, llm : 0..MaxLLMCalls]
Snapshot == [wf : 1..WorkflowLimit, version : Nat, draft : Nat]

\* The shape of every row and of every runner's locals.
TypeOK ==
  /\ campaign \in [status : Status, version : Nat, analysis : BOOLEAN, draft : Nat,
                   judged : Nat, verdict : Verdict \cup {NoRow}, retries : Nat]
  /\ Len(workflows) <= WorkflowLimit
  /\ \A w \in WorkflowId : workflows[w] \in WorkflowRow
  /\ agents \subseteq WorkflowId \X Range(Specialist)
  /\ events \subseteq WorkflowId \X {"PENDING_APPROVAL", "MANUAL_REVIEW_REQUIRED", "FAILED"}
  /\ approvals \subseteq [wf : WorkflowId, decision : {"APPROVED", "REJECTED", "REVISION_REQUIRED"},
                          shown : Snapshot, previous : Snapshot]
  /\ \A r \in Runner : runner[r].pc # "idle" => runner[r].wf \in WorkflowId

\* A job of a workflow closed for revision ran it again (see ClosedStaysClosed).
Rerun == \E a \in approvals : workflows[a.wf].status # a.decision

\* A campaign and its newest workflow show the same status, and every older
\* workflow is one a reviewer closed for revision, whose successor continues it:
\* no transaction moves one row without the other.
CampaignFollowsWorkflow ==
  \/ Rerun
  \/ /\ workflows # << >> => campaign.status = workflows[Len(workflows)].status
     /\ \A w \in WorkflowId \ {Len(workflows)} :
          /\ workflows[w].status = "REVISION_REQUIRED" /\ workflows[w].done
          /\ workflows[w + 1].parent = w
          /\ workflows[w + 1].revision = workflows[w].revision + 1

\* Content that waits for approval or has it is the content whose review
\* passed, never a later draft (README: a passing review reaches approval).
ApprovedContentPassed ==
  \/ Rerun
  \/ campaign.status \in {"PENDING_APPROVAL", "APPROVED"} =>
       /\ campaign.verdict = "PASS"
       /\ campaign.judged = campaign.draft /\ campaign.draft > 0

\* A workflow that generates has an analysis and one that reviews has content,
\* after every crash, retry and revision: the two resume branches of the loop
\* for a missing input (one of them an invalid transition) are never needed.
InputsReady ==
  \A w \in WorkflowId :
    /\ workflows[w].status \in {"GENERATING", "REVIEWING"} => campaign.analysis
    /\ workflows[w].status = "REVIEWING" => campaign.draft > 0

\* Content is retried only within MaxRetries per workflow, and the campaign's
\* counter is the sum of what its workflows used.
RetriesAccounted ==
  /\ \A w \in WorkflowId : workflows[w].retries <= MaxRetries
  /\ campaign.retries = SumFunction([w \in WorkflowId |-> workflows[w].retries])

\* What is approved was analysed, generated and reviewed, retries included.
ContentIsReviewed == ApprovedContentPassed /\ InputsReady /\ RetriesAccounted

\* The LLM turns a workflow really started stay within its budget, whatever
\* the agents' own budgets allow.
CallsWithinBudget == \A w \in WorkflowId : turns[w] <= MaxLLMCalls

\* Each outcome of a workflow is announced exactly when the workflow has it:
\* an error after the commit of a passed review announces no failure too.
EventsTellOutcome ==
  \/ Rerun
  \/ \A w \in WorkflowId :
       LET row == workflows[w] IN
       {e \in events : e[1] = w} =
         CASE row.status \in {"FAILED", "MANUAL_REVIEW_REQUIRED"} -> {<<w, row.status>>}
           [] \/ row.status \in {"PENDING_APPROVAL", "APPROVED", "REJECTED"}
              \/ row.status = "REVISION_REQUIRED" /\ row.done -> {<<w, "PENDING_APPROVAL">>}
           [] OTHER -> {}

\* A workflow has one decision at most, made on the version and the content
\* the reviewer read; only a decision for revision can be run over.
DecisionsStand ==
  \A a \in approvals :
    /\ workflows[a.wf].done
    /\ workflows[a.wf].status = a.decision \/ a.decision = "REVISION_REQUIRED"
    /\ Rerun \/ a.previous = a.shown
    /\ \A b \in approvals : b.wf = a.wf => b = a

\* Every active agent run belongs to a live coroutine of it, unless that
\* coroutine's process died: timeouts and cancellations leave none RUNNING.
AgentRunsClosed ==
  \A a \in agents : a \in orphans \/ \E r \in Runner : runner[r].pc \in AgentPc /\ ActiveRun(r) = a

\* README: a revision request closes the old workflow; a new workflow continues.
\* The loop and the handler look at the status only, which REVISION_REQUIRED
\* shares with a new revision workflow.
ClosedStaysClosed ==
  [][\A w \in WorkflowId : workflows[w].done => workflows'[w].status = workflows[w].status]_cwVars

\* Every workflow comes to rest: it waits for a person or has ended.
WorkflowsRest ==
  \A w \in 1..WorkflowLimit :
    w \in WorkflowId ~> w \in WorkflowId /\ (workflows[w].status \in Resting \/ workflows[w].done)
=============================================================================
