----------------------- MODULE CampaignWorkflowProofs -----------------------
(***************************************************************************)
(* Proofs about CampaignWorkflow for any number of workers, workflows and  *)
(* any budgets.                                                            *)
(*                                                                         *)
(* A runner's locals are only meaningful with its program counter: LocalOK *)
(* says what each pc knows of them, relative to the number n of workflow   *)
(* rows, which only grows.                                                 *)
(***************************************************************************)
EXTENDS CampaignWorkflow, SumProofs, TLAPS

CampaignRow == [status : Status, version : Nat, analysis : BOOLEAN, draft : Nat,
                judged : Nat, verdict : Verdict \cup {NoRow}, retries : Nat]

Pc == {"idle", "load", "return", "act", "agent", "reserve", "answer", "save",
       "commit", "record", "fail", "persist"}

Local == [pc : Pc, wf : Nat, seen : Status \cup {NoRow}, draft : Nat,
          verdict : Verdict \cup {NoRow}, hint : WorkflowRow \cup {NoRow}]

LocalOK(x, n) ==
  /\ x \in Local
  /\ x.pc # "idle" => x.wf \in 1..n
  /\ x.pc = "act" => x.seen \in Status
  /\ x.pc \in AgentPc \cup {"save"} => x.seen \in DOMAIN Specialist
  /\ x.pc = "commit" => x.seen \in DOMAIN Advance \cup DOMAIN Specialist
  /\ x.pc \in {"reserve", "commit", "persist"} => x.hint \in WorkflowRow
  /\ x.pc = "save" \/ (x.pc = "commit" /\ x.seen \in DOMAIN Specialist) => x.verdict \in Verdict

CampaignOK == campaign \in CampaignRow
WorkflowsOK == workflows \in Seq(WorkflowRow) /\ Len(workflows) <= WorkflowLimit
AgentsOK == agents \subseteq WorkflowId \X Range(Specialist)
EventsOK ==
  events \subseteq WorkflowId \X {"PENDING_APPROVAL", "MANUAL_REVIEW_REQUIRED", "FAILED"}
ReadOK == read # NoRow => read \in Snapshot /\ read.wf \in WorkflowId
ApprovalsOK ==
  approvals \subseteq [wf : WorkflowId, decision : {"APPROVED", "REJECTED", "REVISION_REQUIRED"},
                       shown : Snapshot, previous : Snapshot]
RunnersOK ==
  /\ runner \in [Runner -> Local]
  /\ \A r \in Runner : LocalOK(runner[r], Len(workflows))

TypeInv ==
  /\ CampaignOK /\ WorkflowsOK /\ AgentsOK /\ EventsOK /\ ReadOK /\ ApprovalsOK /\ RunnersOK

-----------------------------------------------------------------------------
(* The constant tables.                                                    *)

LEMMA Domains ==
  /\ DOMAIN Advance = {"RECEIVED", "VALIDATING", "REVISION_REQUIRED"}
  /\ DOMAIN Specialist = {"ANALYZING", "GENERATING", "REVIEWING"}
  /\ Status = {"RECEIVED", "VALIDATING", "ANALYZING", "GENERATING", "REVIEWING",
               "MANUAL_REVIEW_REQUIRED", "PENDING_APPROVAL", "REVISION_REQUIRED",
               "NEEDS_CLARIFICATION", "APPROVED", "REJECTED", "FAILED"}
BY DEF Advance, Specialist, Status, Allowed

\* The state machine leads nowhere else.
LEMMA AllowedStatus == ASSUME NEW s \in Status PROVE Allowed[s] \subseteq Status
BY Domains DEF Allowed

LEMMA IdleOK == ASSUME NEW n \in Nat PROVE LocalOK(Idle, n)
BY DEF LocalOK, Idle, Local, Pc, AgentPc

LEMMA LocalGrows ==
  ASSUME NEW x, NEW n \in Nat, NEW m \in Nat, n <= m, LocalOK(x, n)
  PROVE  LocalOK(x, m)
BY DEF LocalOK

\* Lease and Goto name a workflow and drop everything else.
LEMMA FreshOK ==
  ASSUME NEW n \in Nat, NEW w \in 1..n, NEW pc \in {"load", "return", "record", "fail"}
  PROVE  LocalOK([Idle EXCEPT !.pc = pc, !.wf = w], n)
<1>1. w \in Nat
  OBVIOUS
<1> QED
  BY <1>1 DEF LocalOK, Idle, Local, Pc, AgentPc

LEMMA GotoOK ==
  ASSUME NEW x, NEW n \in Nat, LocalOK(x, n), x.pc # "idle",
         NEW pc \in {"load", "return", "record", "fail"}
  PROVE  LocalOK([Idle EXCEPT !.pc = pc, !.wf = x.wf], n)
BY FreshOK DEF LocalOK

LEMMA TypeInit == Init => TypeInv
<1> SUFFICES ASSUME Init PROVE TypeInv
  OBVIOUS
<1>1. CampaignOK
  BY Domains DEF Init, CampaignOK, CampaignRow
<1>2. WorkflowsOK /\ Len(workflows) = 0
  BY WorkflowAssumption DEF Init, WorkflowsOK
<1>3. AgentsOK /\ EventsOK /\ ReadOK /\ ApprovalsOK
  BY DEF Init, AgentsOK, EventsOK, ReadOK, ApprovalsOK
<1>4. \A r \in Runner : runner[r] = Idle /\ LocalOK(runner[r], Len(workflows))
  BY <1>2, IdleOK DEF Init
<1>5. RunnersOK
  BY <1>4, IdleOK DEF RunnersOK, Init, LocalOK
<1> QED
  BY <1>1, <1>2, <1>3, <1>5 DEF TypeInv

-----------------------------------------------------------------------------
(* One runner moves, or one row is written.                                *)

LEMMA OneRunner ==
  ASSUME RunnersOK, NEW r \in Runner, NEW x, LocalOK(x, Len(workflows')),
         runner' = [runner EXCEPT ![r] = x],
         Len(workflows) \in Nat, Len(workflows') \in Nat, Len(workflows) <= Len(workflows')
  PROVE  RunnersOK'
<1>1. \A s \in Runner : LocalOK(runner'[s], Len(workflows'))
  <2> TAKE s \in Runner
  <2>1. CASE s = r
    BY <2>1 DEF RunnersOK
  <2>2. CASE s # r
    <3>1. runner'[s] = runner[s] /\ LocalOK(runner[s], Len(workflows))
      BY <2>2 DEF RunnersOK
    <3> QED
      BY <3>1, LocalGrows
  <2> QED
    BY <2>1, <2>2
<1>2. runner' \in [Runner -> Local]
  BY DEF RunnersOK, LocalOK
<1> QED
  BY <1>1, <1>2 DEF RunnersOK

LEMMA RunnersGrow ==
  ASSUME RunnersOK, UNCHANGED runner,
         Len(workflows) \in Nat, Len(workflows') \in Nat, Len(workflows) <= Len(workflows')
  PROVE  RunnersOK'
BY LocalGrows DEF RunnersOK

LEMMA OneRow ==
  ASSUME WorkflowsOK, NEW w \in WorkflowId, NEW row \in WorkflowRow,
         workflows' = [workflows EXCEPT ![w] = row]
  PROVE  WorkflowsOK' /\ Len(workflows') = Len(workflows) /\ WorkflowId' = WorkflowId
BY DEF WorkflowsOK, WorkflowId

\* The other rows stay, and the new one is there.
LEMMA RowMoves ==
  ASSUME WorkflowsOK, NEW w \in WorkflowId, NEW row \in WorkflowRow,
         workflows' = [workflows EXCEPT ![w] = row]
  PROVE  /\ Len(workflows') = Len(workflows) /\ workflows'[w] = row
         /\ \A v \in WorkflowId \ {w} : workflows'[v] = workflows[v]
BY DEF WorkflowsOK, WorkflowId

\* Everything but the runners, when no row changes.
LEMMA RowsStay ==
  ASSUME TypeInv, UNCHANGED <<rows, read>>
  PROVE  CampaignOK' /\ WorkflowsOK' /\ AgentsOK' /\ EventsOK' /\ ReadOK' /\ ApprovalsOK'
BY DEF TypeInv, rows, CampaignOK, WorkflowsOK, AgentsOK, EventsOK, ReadOK, ApprovalsOK, WorkflowId

\* What a runner that is not idle holds.
LEMMA RunnerRow ==
  ASSUME TypeInv, NEW r \in Runner, ~At(r, "idle")
  PROVE  /\ runner[r] \in Local /\ LocalOK(runner[r], Len(workflows))
         /\ runner[r].wf \in WorkflowId
         /\ Row(r) \in WorkflowRow
         /\ Len(workflows) \in Nat
BY DEF TypeInv, RunnersOK, LocalOK, At, WorkflowsOK, WorkflowId, Row

\* Steps of a runner that write no row.
LEMMA QuietTypes ==
  ASSUME TypeInv, NEW r \in Runner,
         \/ \E w \in 1..WorkflowLimit : Lease(r, w)
         \/ LoadSnapshot(r) \/ ReadReservation(r) \/ ReadHint(r)
         \/ RecordFeedback(r) \/ ReadFailure(r)
  PROVE  TypeInv'
<1> USE DEF At
<1>1. UNCHANGED <<rows, read>>
  BY DEF Lease, LoadSnapshot, ReadReservation, ReadHint, RecordFeedback, ReadFailure
<1>2. Len(workflows) \in Nat /\ UNCHANGED workflows
  BY <1>1 DEF rows, TypeInv, WorkflowsOK
<1>3. ASSUME NEW x, LocalOK(x, Len(workflows)), runner' = [runner EXCEPT ![r] = x]
      PROVE  TypeInv'
  <2>1. /\ Len(workflows') \in Nat /\ Len(workflows) <= Len(workflows')
        /\ LocalOK(x, Len(workflows')) /\ RunnersOK
    BY <1>2, <1>3 DEF TypeInv
  <2>2. RunnersOK'
    BY <1>2, <1>3, <2>1, OneRunner
  <2> QED
    BY <1>1, <2>2, RowsStay DEF TypeInv
<1>4. ASSUME NEW w \in 1..WorkflowLimit, Lease(r, w) PROVE TypeInv'
  <2>1. w \in WorkflowId
    BY <1>4 DEF Lease
  <2>2. LocalOK([Idle EXCEPT !.pc = "load", !.wf = w], Len(workflows))
    BY <1>2, <2>1, FreshOK DEF WorkflowId
  <2> QED
    BY <2>2, <1>3, <1>4 DEF Lease
<1>5. CASE LoadSnapshot(r)
  <2>1. LocalOK(runner[r], Len(workflows)) /\ runner[r].pc = "load" /\ Row(r).status \in Status
    BY <1>5, RunnerRow DEF LoadSnapshot, WorkflowRow
  <2>2. LocalOK([Idle EXCEPT !.pc = "return", !.wf = runner[r].wf], Len(workflows))
    BY <2>1, <1>2, GotoOK
  <2>3. LocalOK([Idle EXCEPT !.pc = "act", !.wf = runner[r].wf, !.seen = Row(r).status],
                Len(workflows))
    BY <2>1, Domains DEF LocalOK, Idle, Local, Pc, AgentPc
  <2> QED
    BY <2>2, <2>3, <1>3, <1>5 DEF LoadSnapshot, Goto
<1>6. CASE ReadReservation(r)
  <2> DEFINE x == [runner[r] EXCEPT !.pc = "reserve", !.hint = Row(r)]
  <2>1. /\ LocalOK(runner[r], Len(workflows)) /\ runner[r].pc \in {"agent", "answer"}
        /\ Row(r) \in WorkflowRow
    BY <1>6, RunnerRow DEF ReadReservation
  <2>2. LocalOK(x, Len(workflows))
    BY <2>1, Domains DEF LocalOK, Local, Pc, AgentPc
  <2>3. runner' = [runner EXCEPT ![r] = x]
    BY <1>6 DEF ReadReservation
  <2> QED
    BY <2>2, <2>3, <1>3
<1>7. CASE ReadHint(r)
  <2> DEFINE x == [runner[r] EXCEPT !.pc = "commit", !.hint = Row(r)]
  <2>1. /\ LocalOK(runner[r], Len(workflows)) /\ runner[r].pc \in {"act", "save"}
        /\ runner[r].pc = "act" => runner[r].seen \in DOMAIN Advance
        /\ Row(r) \in WorkflowRow
    BY <1>7, RunnerRow DEF ReadHint
  <2>2. LocalOK(x, Len(workflows))
    BY <2>1, Domains DEF LocalOK, Local, Pc, AgentPc
  <2>3. runner' = [runner EXCEPT ![r] = x]
    BY <1>7 DEF ReadHint
  <2> QED
    BY <2>2, <2>3, <1>3
<1>8. CASE RecordFeedback(r)
  <2>1. /\ LocalOK([Idle EXCEPT !.pc = "load", !.wf = runner[r].wf], Len(workflows))
        /\ LocalOK([Idle EXCEPT !.pc = "fail", !.wf = runner[r].wf], Len(workflows))
    BY <1>8, <1>2, RunnerRow, GotoOK DEF RecordFeedback
  <2> QED
    BY <2>1, <1>3, <1>8 DEF RecordFeedback, Goto
<1>9. CASE ReadFailure(r)
  <2> DEFINE x == [runner[r] EXCEPT !.pc = "persist", !.hint = Row(r)]
  <2>1. LocalOK(runner[r], Len(workflows)) /\ runner[r].pc = "fail" /\ Row(r) \in WorkflowRow
    BY <1>9, RunnerRow DEF ReadFailure
  <2>2. LocalOK(x, Len(workflows))
    BY <2>1, Domains DEF LocalOK, Local, Pc, AgentPc
  <2>3. runner' = [runner EXCEPT ![r] = x]
    BY <1>9 DEF ReadFailure
  <2> QED
    BY <2>2, <2>3, <1>3
<1> QED
  BY <1>4, <1>5, <1>6, <1>7, <1>8, <1>9

\* Steps that open or close an agent run, and the end of a job or a process.
LEMMA ActiveRunTyped ==
  ASSUME TypeInv, NEW r \in Runner, runner[r].pc # "idle", runner[r].seen \in DOMAIN Specialist
  PROVE  ActiveRun(r) \in WorkflowId \X Range(Specialist)
<1>1. runner[r].wf \in WorkflowId
  BY RunnerRow DEF At
<1>2. Specialist[runner[r].seen] \in Range(Specialist)
  BY DEF Range
<1> QED
  BY <1>1, <1>2 DEF ActiveRun

LEMMA AgentTypes ==
  ASSUME TypeInv, NEW r \in Runner,
         \/ StartAgent(r) \/ CompleteAgent(r) \/ FailAgent(r)
         \/ FinishJob(r) \/ Cancel(r) \/ Crash(r)
  PROVE  TypeInv'
<1> USE DEF At
<1>1. UNCHANGED <<campaign, workflows, events, approvals, read>>
  BY DEF StartAgent, CompleteAgent, FailAgent, FinishJob, Cancel, Crash, rows
<1>2. /\ CampaignOK' /\ WorkflowsOK' /\ EventsOK' /\ ReadOK' /\ ApprovalsOK'
      /\ UNCHANGED WorkflowId
      /\ Len(workflows) \in Nat /\ Len(workflows') \in Nat /\ Len(workflows) <= Len(workflows')
      /\ RunnersOK
  BY <1>1 DEF TypeInv, CampaignOK, WorkflowsOK, EventsOK, ReadOK, ApprovalsOK, WorkflowId
<1>3. ~(runner[r].pc = "idle") /\ LocalOK(runner[r], Len(workflows))
  <2>1. runner[r].pc # "idle"
    BY DEF StartAgent, CompleteAgent, FailAgent, FinishJob, Cancel, Crash, AgentPc
  <2> QED
    BY <2>1, RunnerRow
<1>4. AgentsOK'
  <2>1. CASE StartAgent(r)
    BY <2>1, <1>2, <1>3, ActiveRunTyped DEF StartAgent, TypeInv, AgentsOK
  <2>2. CASE ~StartAgent(r)
    <3>1. agents' \subseteq agents
      BY <2>2 DEF CompleteAgent, FailAgent, FinishJob, Cancel, Crash, rows
    <3> QED
      BY <3>1, <1>2 DEF TypeInv, AgentsOK
  <2> QED
    BY <2>1, <2>2
<1>5. ASSUME NEW x, LocalOK(x, Len(workflows)), runner' = [runner EXCEPT ![r] = x]
      PROVE  TypeInv'
  <2>1. LocalOK(x, Len(workflows'))
    BY <1>1, <1>5
  <2>2. RunnersOK'
    BY <1>2, <1>5, <2>1, OneRunner
  <2> QED
    BY <1>2, <1>4, <2>2 DEF TypeInv
<1>6. LocalOK([Idle EXCEPT !.pc = "fail", !.wf = runner[r].wf], Len(workflows))
  BY <1>2, <1>3, GotoOK
<1>7. LocalOK(Idle, Len(workflows))
  BY <1>2, IdleOK
<1>8. CASE Goto(r, "fail") \/ Stop(r)
  BY <1>5, <1>6, <1>7, <1>8 DEF Goto, Stop
<1>9. CASE StartAgent(r) /\ ~Goto(r, "fail")
  <2> DEFINE x == [runner[r] EXCEPT !.pc = "agent", !.draft = campaign.draft]
  <2>1. /\ runner[r].pc = "act" /\ runner[r].seen \in DOMAIN Specialist
        /\ runner' = [runner EXCEPT ![r] = x]
    BY <1>9 DEF StartAgent
  <2>2. campaign.draft \in Nat
    BY DEF TypeInv, CampaignOK, CampaignRow
  <2>3. LocalOK(x, Len(workflows))
    BY <2>1, <2>2, <1>3 DEF LocalOK, Local, Pc, AgentPc
  <2> QED
    BY <2>1, <2>3, <1>5
<1>10. CASE CompleteAgent(r)
  <2> PICK v \in Verdict : runner' = [runner EXCEPT ![r].pc = "save", ![r].verdict = v]
    BY <1>10 DEF CompleteAgent
  <2> DEFINE x == [runner[r] EXCEPT !.pc = "save", !.verdict = v]
  <2>1. runner[r].pc = "answer"
    BY <1>10 DEF CompleteAgent
  <2>2. runner' = [runner EXCEPT ![r] = x]
    OBVIOUS
  <2>3. LocalOK(x, Len(workflows))
    BY <2>1, <1>3 DEF LocalOK, Local, Pc, AgentPc
  <2> QED
    BY <2>2, <2>3, <1>5
<1> QED
  BY <1>8, <1>9, <1>10 DEF FailAgent, FinishJob, Cancel, Crash

-----------------------------------------------------------------------------
(* Steps that write a workflow or the campaign.                            *)

LEMMA MoveTypes ==
  ASSUME TypeInv, NEW r \in Runner, ~At(r, "idle"), runner[r].seen \in Status,
         NEW next, NEW c \in CampaignRow, Move(r, next, c)
  PROVE  CampaignOK' /\ WorkflowsOK' /\ Len(workflows') = Len(workflows) /\ next \in Status
<1>1. next \in Status
  BY AllowedStatus DEF Move
<1>2. runner[r].wf \in WorkflowId /\ Row(r) \in WorkflowRow /\ WorkflowsOK
  BY RunnerRow DEF TypeInv
<1> DEFINE row == [Row(r) EXCEPT !.status = next]
<1>3. row \in WorkflowRow
  BY <1>1, <1>2 DEF WorkflowRow
<1>4. workflows' = [workflows EXCEPT ![runner[r].wf] = row]
  BY DEF Move, Row
<1>5. WorkflowsOK' /\ Len(workflows') = Len(workflows)
  BY <1>2, <1>3, <1>4, OneRow
<1>6. CampaignOK'
  BY <1>1 DEF Move, CampaignOK, CampaignRow
<1> QED
  BY <1>1, <1>5, <1>6

LEMMA ReviewTypes ==
  ASSUME TypeInv, NEW r \in Runner, At(r, "commit"), runner[r].seen = "REVIEWING", SaveReview(r)
  PROVE  CampaignOK' /\ WorkflowsOK' /\ Len(workflows') = Len(workflows) /\ EventsOK'
<1>1. ~At(r, "idle")
  BY DEF At
<1>2. /\ LocalOK(runner[r], Len(workflows)) /\ runner[r].wf \in WorkflowId
      /\ Row(r) \in WorkflowRow /\ WorkflowsOK
  BY <1>1, RunnerRow DEF TypeInv
<1>3. /\ runner[r].verdict \in Verdict /\ runner[r].draft \in Nat
      /\ runner[r].hint \in WorkflowRow
  BY <1>2, Domains DEF LocalOK, Local, At
<1>4. Judged(r) \in CampaignRow
  BY <1>3 DEF Judged, TypeInv, CampaignOK, CampaignRow
<1>5. Outcome(r) \in {"PENDING_APPROVAL", "GENERATING", "MANUAL_REVIEW_REQUIRED"}
  BY DEF Outcome
<1>6. CASE Outcome(r) = "GENERATING"
  <2> DEFINE row == [Row(r) EXCEPT !.status = "GENERATING", !.retries = runner[r].hint.retries + 1]
  <2>0. runner[r].hint.retries + 1 \in Nat /\ "GENERATING" \in Status
    BY <1>3, Domains DEF WorkflowRow
  <2>1. row \in WorkflowRow
    BY <1>2, <2>0 DEF WorkflowRow
  <2>2. workflows' = [workflows EXCEPT ![runner[r].wf] = row]
    BY <1>6 DEF SaveReview, Row
  <2>3. WorkflowsOK' /\ Len(workflows') = Len(workflows) /\ UNCHANGED WorkflowId
    BY <1>2, <2>1, <2>2, OneRow
  <2>4. campaign' = [Judged(r) EXCEPT !.status = "GENERATING", !.retries = @ + 1]
    BY <1>6 DEF SaveReview
  <2>5. CampaignOK'
    <3>1. Judged(r).retries + 1 \in Nat
      BY <1>4 DEF CampaignRow
    <3>2. campaign' \in CampaignRow
      BY <1>4, <2>0, <2>4, <3>1 DEF CampaignRow
    <3> QED
      BY <3>2 DEF CampaignOK
  <2>6. EventsOK'
    BY <1>6, <2>3 DEF SaveReview, TypeInv, EventsOK
  <2> QED
    BY <2>3, <2>5, <2>6
<1>7. CASE Outcome(r) # "GENERATING"
  <2>1. /\ Move(r, Outcome(r), Judged(r))
        /\ events' = events \cup {<<runner[r].wf, Outcome(r)>>}
    BY <1>7 DEF SaveReview
  <2>2. CampaignOK' /\ WorkflowsOK' /\ Len(workflows') = Len(workflows)
    BY <1>1, <1>4, <2>1, Domains, MoveTypes
  <2>3. EventsOK'
    BY <1>2, <1>5, <1>7, <2>1, <2>2 DEF TypeInv, EventsOK, WorkflowId
  <2> QED
    BY <2>2, <2>3
<1> QED
  BY <1>6, <1>7

LEMMA SaveTypes ==
  ASSUME TypeInv, NEW r \in Runner, At(r, "commit"), Save(r)
  PROVE  CampaignOK' /\ WorkflowsOK' /\ Len(workflows') = Len(workflows) /\ EventsOK'
<1>1. ~At(r, "idle") /\ runner[r].seen \in DOMAIN Advance \cup DOMAIN Specialist
  BY RunnerRow DEF At, LocalOK
<1>2. runner[r].seen \in Status
  BY <1>1, Domains
<1>3. ASSUME NEW next, NEW c \in CampaignRow, Move(r, next, c), UNCHANGED events
      PROVE  CampaignOK' /\ WorkflowsOK' /\ Len(workflows') = Len(workflows) /\ EventsOK'
  <2>1. CampaignOK' /\ WorkflowsOK' /\ Len(workflows') = Len(workflows)
    BY <1>1, <1>2, <1>3, MoveTypes
  <2> QED
    BY <2>1, <1>3 DEF TypeInv, EventsOK, WorkflowId
<1>4. campaign \in CampaignRow
  BY DEF TypeInv, CampaignOK
<1>5. CASE runner[r].seen \in DOMAIN Advance
  <2>1. Move(r, Advance[runner[r].seen], campaign) /\ UNCHANGED events
    BY <1>5, Domains DEF Save
  <2> QED
    BY <1>3, <1>4, <2>1
<1>6. CASE runner[r].seen = "ANALYZING"
  <2>1. [campaign EXCEPT !.analysis = TRUE] \in CampaignRow
    BY <1>4 DEF CampaignRow
  <2>2. Move(r, "GENERATING", [campaign EXCEPT !.analysis = TRUE]) /\ UNCHANGED events
    BY <1>6, Domains DEF Save
  <2> QED
    BY <1>3, <2>1, <2>2
<1>7. CASE runner[r].seen = "GENERATING"
  <2>1. [campaign EXCEPT !.draft = @ + 1] \in CampaignRow
    BY <1>4 DEF CampaignRow
  <2>2. Move(r, "REVIEWING", [campaign EXCEPT !.draft = @ + 1]) /\ UNCHANGED events
    BY <1>7, Domains DEF Save
  <2> QED
    BY <1>3, <2>1, <2>2
<1>8. CASE runner[r].seen = "REVIEWING"
  <2>1. SaveReview(r)
    BY <1>8, Domains DEF Save
  <2> QED
    BY <1>8, <2>1, ReviewTypes
<1> QED
  BY <1>1, <1>5, <1>6, <1>7, <1>8, Domains

LEMMA CheckpointTypes ==
  ASSUME TypeInv, NEW r \in Runner, CommitReservation(r) \/ Commit(r) \/ PersistFailure(r)
  PROVE  TypeInv'
<1> USE DEF At
<1>1. /\ runner[r].pc # "idle" /\ LocalOK(runner[r], Len(workflows))
      /\ runner[r].wf \in WorkflowId /\ Row(r) \in WorkflowRow
      /\ Len(workflows) \in Nat /\ WorkflowsOK /\ RunnersOK
  <2>1. runner[r].pc \in {"reserve", "commit", "persist"}
    BY DEF CommitReservation, Commit, PersistFailure
  <2> QED
    BY <2>1, RunnerRow DEF TypeInv
<1>2. ASSUME CampaignOK', WorkflowsOK', Len(workflows') = Len(workflows), EventsOK',
             agents' \subseteq agents, UNCHANGED <<read, approvals>>,
             NEW x, LocalOK(x, Len(workflows)), runner' = [runner EXCEPT ![r] = x]
      PROVE  TypeInv'
  <2>1. UNCHANGED WorkflowId
    BY <1>2 DEF WorkflowId
  <2>2. /\ Len(workflows') \in Nat /\ Len(workflows) <= Len(workflows')
        /\ LocalOK(x, Len(workflows'))
    BY <1>1, <1>2
  <2>3. RunnersOK'
    BY <1>1, <1>2, <2>2, OneRunner
  <2>4. AgentsOK' /\ ReadOK' /\ ApprovalsOK'
    BY <1>2, <2>1 DEF TypeInv, AgentsOK, ReadOK, ApprovalsOK
  <2> QED
    BY <1>2, <2>3, <2>4 DEF TypeInv
<1>3. /\ LocalOK([Idle EXCEPT !.pc = "fail", !.wf = runner[r].wf], Len(workflows))
      /\ LocalOK([Idle EXCEPT !.pc = "load", !.wf = runner[r].wf], Len(workflows))
      /\ LocalOK([Idle EXCEPT !.pc = "record", !.wf = runner[r].wf], Len(workflows))
      /\ LocalOK(Idle, Len(workflows))
  BY <1>1, GotoOK, IdleOK
<1>4. CampaignOK /\ EventsOK
  BY DEF TypeInv
<1>5. CASE CommitReservation(r)
  <2>1. CASE runner[r].hint.llm >= MaxLLMCalls
    <3>1. /\ UNCHANGED <<campaign, workflows, events, approvals, read>> /\ agents' \subseteq agents
          /\ runner' = [runner EXCEPT ![r] = [Idle EXCEPT !.pc = "fail", !.wf = runner[r].wf]]
      BY <1>5, <2>1 DEF CommitReservation, Goto
    <3>2. CampaignOK' /\ WorkflowsOK' /\ Len(workflows') = Len(workflows) /\ EventsOK'
      BY <1>1, <1>4, <3>1 DEF CampaignOK, WorkflowsOK, EventsOK, WorkflowId
    <3> QED
      BY <1>2, <1>3, <3>1, <3>2
  <2>2. CASE ~(runner[r].hint.llm >= MaxLLMCalls)
    <3> DEFINE row == [Row(r) EXCEPT !.llm = runner[r].hint.llm + 1]
               x == [runner[r] EXCEPT !.pc = "answer", !.hint = NoRow]
    <3>1. /\ UNCHANGED <<campaign, events, approvals, agents, read>>
          /\ workflows' = [workflows EXCEPT ![runner[r].wf] = row]
          /\ runner' = [runner EXCEPT ![r] = x]
          /\ runner[r].pc = "reserve"
      BY <1>5, <2>2 DEF CommitReservation, Row
    <3>2. runner[r].hint.llm + 1 \in 0..MaxLLMCalls
      <4>1. runner[r].hint.llm \in 0..MaxLLMCalls
        BY <1>1, <3>1 DEF LocalOK, WorkflowRow
      <4> QED
        BY <4>1, <2>2, WorkflowAssumption
    <3>3. row \in WorkflowRow
      BY <1>1, <3>2 DEF WorkflowRow
    <3>4. WorkflowsOK' /\ Len(workflows') = Len(workflows)
      BY <1>1, <3>1, <3>3, OneRow
    <3>5. CampaignOK' /\ EventsOK'
      BY <1>4, <3>1, <3>4 DEF CampaignOK, EventsOK, WorkflowId
    <3>6. LocalOK(x, Len(workflows))
      BY <1>1, <3>1 DEF LocalOK, Local, Pc, AgentPc
    <3> QED
      BY <1>2, <3>1, <3>4, <3>5, <3>6
  <2> QED
    BY <2>1, <2>2
<1>6. CASE Commit(r)
  <2>1. CASE Expected(r)
    <3>1. /\ runner[r].pc = "commit" /\ Save(r)
          /\ UNCHANGED <<agents, approvals, read>>
          /\ Goto(r, IF runner[r].seen = "REVIEWING" THEN "record" ELSE "load")
      BY <1>6, <2>1 DEF Commit
    <3>2. CampaignOK' /\ WorkflowsOK' /\ Len(workflows') = Len(workflows) /\ EventsOK'
      BY <3>1, SaveTypes
    <3>3. Goto(r, "record") \/ Goto(r, "load")
      BY <3>1
    <3> QED
      BY <1>2, <1>3, <3>1, <3>2, <3>3 DEF Goto
  <2>2. CASE ~Expected(r)
    <3>1. /\ UNCHANGED <<campaign, workflows, events, agents, approvals, read>>
          /\ runner' = [runner EXCEPT ![r] = Idle]
      BY <1>6, <2>2 DEF Commit, Stop
    <3>2. CampaignOK' /\ WorkflowsOK' /\ Len(workflows') = Len(workflows) /\ EventsOK'
      BY <1>1, <1>4, <3>1 DEF CampaignOK, WorkflowsOK, EventsOK, WorkflowId
    <3> QED
      BY <1>2, <1>3, <3>1, <3>2
  <2> QED
    BY <2>1, <2>2
<1>7. CASE PersistFailure(r)
  <2>1. runner' = [runner EXCEPT ![r] = Idle] /\ UNCHANGED <<agents, approvals, read>>
    BY <1>7 DEF PersistFailure, Stop
  <2>2. CampaignOK' /\ WorkflowsOK' /\ Len(workflows') = Len(workflows) /\ EventsOK'
    <3>1. CASE "FAILED" \in Allowed[runner[r].hint.status]
      <4> DEFINE row == [Row(r) EXCEPT !.status = "FAILED", !.done = TRUE]
      <4>1. /\ workflows' = [workflows EXCEPT ![runner[r].wf] = row]
            /\ campaign' = [campaign EXCEPT !.status = "FAILED"]
            /\ events' = events \cup {<<runner[r].wf, "FAILED">>}
        BY <1>7, <3>1 DEF PersistFailure, Row
      <4>2. "FAILED" \in Status
        BY Domains
      <4>3. row \in WorkflowRow
        BY <1>1, <4>2 DEF WorkflowRow
      <4>4. WorkflowsOK' /\ Len(workflows') = Len(workflows)
        BY <1>1, <4>1, <4>3, OneRow
      <4>5. CampaignOK'
        BY <1>4, <4>1, <4>2 DEF CampaignOK, CampaignRow
      <4>6. EventsOK'
        BY <1>1, <1>4, <4>1, <4>4 DEF EventsOK, WorkflowId
      <4> QED
        BY <4>4, <4>5, <4>6
    <3>2. CASE ~("FAILED" \in Allowed[runner[r].hint.status])
      <4>1. UNCHANGED <<workflows, campaign, events>>
        BY <1>7, <3>2 DEF PersistFailure
      <4> QED
        BY <1>1, <1>4, <4>1 DEF CampaignOK, WorkflowsOK, EventsOK, WorkflowId
    <3> QED
      BY <3>1, <3>2
  <2> QED
    BY <1>2, <1>3, <2>1, <2>2
<1> QED
  BY <1>5, <1>6, <1>7

\* Steps of the API: no runner moves and rows are only added.
LEMMA ApiTypes ==
  ASSUME TypeInv,
         \/ CreateWorkflow \/ EditCampaign \/ ReadCampaign
         \/ \E d \in {"APPROVED", "REJECTED", "REVISION_REQUIRED"} : Decide(d)
  PROVE  TypeInv'
<1>1. UNCHANGED <<runner, agents, events>>
  BY DEF CreateWorkflow, EditCampaign, ReadCampaign, Decide, rows
<1>2. Len(workflows) \in Nat /\ WorkflowsOK /\ RunnersOK /\ CampaignOK /\ ReadOK /\ ApprovalsOK
  BY DEF TypeInv, WorkflowsOK
<1>3. ASSUME WorkflowsOK', Len(workflows) <= Len(workflows'), CampaignOK', ReadOK', ApprovalsOK'
      PROVE  TypeInv'
  <2>1. Len(workflows') \in Nat
    BY <1>3 DEF WorkflowsOK
  <2>2. RunnersOK'
    BY <1>1, <1>2, <1>3, <2>1, RunnersGrow
  <2>3. WorkflowId \subseteq WorkflowId'
    BY <1>2, <1>3, <2>1 DEF WorkflowId
  <2>4. AgentsOK' /\ EventsOK'
    BY <1>1, <2>3 DEF TypeInv, AgentsOK, EventsOK
  <2> QED
    BY <1>3, <2>2, <2>4 DEF TypeInv
<1>4. CASE CreateWorkflow
  <2>1. PICK row \in WorkflowRow : workflows' = Append(workflows, row)
    <3>1. CASE workflows' = Append(workflows, NewWorkflow("RECEIVED", 0, 0))
      <4>1. NewWorkflow("RECEIVED", 0, 0) \in WorkflowRow
        BY Domains, WorkflowAssumption DEF NewWorkflow, WorkflowRow
      <4> QED
        BY <3>1, <4>1
    <3>2. ASSUME NEW p \in Parents,
                 workflows' = Append(workflows,
                   NewWorkflow("REVISION_REQUIRED", p, workflows[p].revision + 1))
          PROVE  \E row \in WorkflowRow : workflows' = Append(workflows, row)
      <4>1. p \in WorkflowId
        BY DEF Parents
      <4>2. p \in Nat /\ workflows[p].revision + 1 \in Nat
        <5>1. p \in Nat /\ workflows[p] \in WorkflowRow
          BY <1>2, <4>1 DEF WorkflowsOK, WorkflowId
        <5> QED
          BY <5>1 DEF WorkflowRow
      <4>3. NewWorkflow("REVISION_REQUIRED", p, workflows[p].revision + 1) \in WorkflowRow
        BY <4>2, Domains, WorkflowAssumption DEF NewWorkflow, WorkflowRow
      <4> QED
        BY <3>2, <4>3
    <3> QED
      BY <1>4, <3>1, <3>2 DEF CreateWorkflow
  <2>2. WorkflowsOK' /\ Len(workflows) <= Len(workflows') /\ WorkflowId \subseteq WorkflowId'
    <3>1. Len(workflows) < WorkflowLimit
      BY <1>4 DEF CreateWorkflow
    <3> QED
      BY <1>2, <2>1, <3>1, WorkflowAssumption DEF WorkflowsOK, WorkflowId
  <2>3. UNCHANGED <<campaign, read, approvals>>
    BY <1>4 DEF CreateWorkflow
  <2>4. CampaignOK' /\ ReadOK' /\ ApprovalsOK'
    BY <1>2, <2>2, <2>3 DEF CampaignOK, ReadOK, ApprovalsOK
  <2> QED
    BY <1>3, <2>2, <2>4
<1>5. CASE EditCampaign
  <2>1. UNCHANGED <<workflows, read, approvals>>
        /\ campaign' = [campaign EXCEPT !.version = @ + 1]
    BY <1>5 DEF EditCampaign
  <2>2. CampaignOK'
    BY <1>2, <2>1 DEF CampaignOK, CampaignRow
  <2>3. WorkflowsOK' /\ Len(workflows) <= Len(workflows') /\ ReadOK' /\ ApprovalsOK'
    BY <1>2, <2>1 DEF WorkflowsOK, ReadOK, ApprovalsOK, WorkflowId
  <2> QED
    BY <1>3, <2>2, <2>3
<1>6. CASE ReadCampaign
  <2>1. UNCHANGED <<workflows, campaign, approvals>>
    BY <1>6 DEF ReadCampaign, rows
  <2>2. PICK w \in WorkflowId :
          read' = [wf |-> w, version |-> campaign.version, draft |-> campaign.draft]
    BY <1>6 DEF ReadCampaign
  <2>3. w \in 1..WorkflowLimit /\ campaign.version \in Nat /\ campaign.draft \in Nat
    BY <1>2, WorkflowAssumption DEF WorkflowId, WorkflowsOK, CampaignOK, CampaignRow
  <2>4. ReadOK'
    BY <2>1, <2>2, <2>3 DEF ReadOK, Snapshot, WorkflowId
  <2>5. WorkflowsOK' /\ Len(workflows) <= Len(workflows') /\ CampaignOK' /\ ApprovalsOK'
    BY <1>2, <2>1 DEF WorkflowsOK, CampaignOK, ApprovalsOK, WorkflowId
  <2> QED
    BY <1>3, <2>4, <2>5
<1>7. ASSUME NEW d \in {"APPROVED", "REJECTED", "REVISION_REQUIRED"}, Decide(d) PROVE TypeInv'
  <2>1. read \in Snapshot /\ read.wf \in WorkflowId /\ (read' = NoRow \/ read' = read)
    BY <1>2, <1>7 DEF Decide, ReadOK
  <2>2. CASE UNCHANGED <<campaign, workflows, approvals>>
    <3>1. WorkflowsOK' /\ Len(workflows) <= Len(workflows') /\ CampaignOK' /\ ApprovalsOK'
      BY <1>2, <2>2 DEF WorkflowsOK, CampaignOK, ApprovalsOK, WorkflowId
    <3>2. ReadOK'
      BY <1>2, <2>1, <2>2 DEF ReadOK, WorkflowId
    <3> QED
      BY <1>3, <3>1, <3>2
  <2>3. CASE ~UNCHANGED <<campaign, workflows, approvals>>
    <3> DEFINE row == [workflows[read.wf] EXCEPT !.status = d, !.done = TRUE]
               version == IF d = "REVISION_REQUIRED" THEN campaign.version + 1
                          ELSE campaign.version
               previous == [wf |-> read.wf, version |-> campaign.version,
                            draft |-> campaign.draft]
    <3>1. /\ workflows' = [workflows EXCEPT ![read.wf] = row]
          /\ campaign' = [campaign EXCEPT !.status = d, !.version = version]
          /\ approvals' = approvals \cup
               {[wf |-> read.wf, decision |-> d, shown |-> read, previous |-> previous]}
      BY <1>7, <2>3 DEF Decide
    <3>2. d \in Status /\ workflows[read.wf] \in WorkflowRow
      BY <1>2, <2>1, Domains DEF WorkflowsOK, WorkflowId
    <3>3. row \in WorkflowRow
      BY <3>2 DEF WorkflowRow
    <3>4. WorkflowsOK' /\ Len(workflows') = Len(workflows) /\ WorkflowId' = WorkflowId
      BY <1>2, <2>1, <3>1, <3>3, OneRow
    <3>5. CampaignOK'
      <4>1. version \in Nat
        BY <1>2 DEF CampaignOK, CampaignRow
      <4> HIDE DEF version
      <4> QED
        BY <1>2, <3>1, <3>2, <4>1 DEF CampaignOK, CampaignRow
    <3>6. previous \in Snapshot
      BY <1>2, <2>1 DEF CampaignOK, CampaignRow, Snapshot
    <3>7. ApprovalsOK'
      BY <1>2, <2>1, <3>1, <3>4, <3>6 DEF ApprovalsOK
    <3>8. ReadOK' /\ Len(workflows) <= Len(workflows')
      BY <1>2, <2>1, <3>4 DEF ReadOK
    <3> QED
      BY <1>3, <3>4, <3>5, <3>7, <3>8
  <2> QED
    BY <2>2, <2>3
<1> QED
  BY <1>4, <1>5, <1>6, <1>7

-----------------------------------------------------------------------------

LEMMA TypeNext == TypeInv /\ [Next]_cwVars => TypeInv'
<1> SUFFICES ASSUME TypeInv, [Next]_cwVars PROVE TypeInv'
  OBVIOUS
<1>1. CASE UNCHANGED cwVars
  BY <1>1 DEF cwVars, rows, TypeInv, CampaignOK, WorkflowsOK, AgentsOK, EventsOK, ReadOK,
     ApprovalsOK, RunnersOK, WorkflowId
<1>2. ASSUME NEW r \in Runner, RunnerStep(r) PROVE TypeInv'
  BY <1>2, QuietTypes, AgentTypes, CheckpointTypes DEF RunnerStep
<1>3. ASSUME NEW r \in Runner, Cancel(r) \/ Crash(r) PROVE TypeInv'
  BY <1>3, AgentTypes
<1>4. ASSUME NEW r \in Runner, NEW w \in 1..WorkflowLimit, Lease(r, w) PROVE TypeInv'
  BY <1>4, QuietTypes
<1> QED
  BY <1>1, <1>2, <1>3, <1>4, ApiTypes DEF Next

\* Every row and every runner's locals keep their shape, for any number of
\* workers on one campaign (CampaignWorkflow, ApprovalService, WorkflowService).
THEOREM CampaignTypeCorrect == Spec => []TypeOK
<1>1. TypeInv => TypeOK
  BY DEF TypeInv, TypeOK, CampaignOK, CampaignRow, WorkflowsOK, AgentsOK, EventsOK, ApprovalsOK,
     RunnersOK, LocalOK, WorkflowId
<1> QED
  BY <1>1, TypeInit, TypeNext, PTL DEF Spec

-----------------------------------------------------------------------------
(* Agent runs.  The invariant adds to AgentRunsClosed that a coroutine in   *)
(* an agent has the row, and no two of them have the same one: closing one  *)
(* closes nobody else's.                                                    *)

RunOf(x) == <<x.wf, Specialist[x.seen]>>

AgentInv ==
  /\ \A a \in agents :
       a \in orphans \/ \E r \in Runner : runner[r].pc \in AgentPc /\ RunOf(runner[r]) = a
  /\ \A r \in Runner : runner[r].pc \in AgentPc => RunOf(runner[r]) \in agents
  /\ \A r, s \in Runner :
       r # s /\ runner[r].pc \in AgentPc /\ runner[s].pc \in AgentPc
       => RunOf(runner[r]) # RunOf(runner[s])

LEMMA EnterAgent ==
  ASSUME AgentInv, runner \in [Runner -> Local], NEW r \in Runner, NEW x,
         runner' = [runner EXCEPT ![r] = x], runner[r].pc \notin AgentPc, x.pc \in AgentPc,
         RunOf(x) \notin agents, agents' = agents \cup {RunOf(x)}, orphans' = orphans
  PROVE  AgentInv'
<1>1. runner'[r] = x /\ \A s \in Runner \ {r} : runner'[s] = runner[s]
  OBVIOUS
<1>2. \A s \in Runner \ {r} : runner'[s].pc \in AgentPc => RunOf(runner'[s]) \in agents
  BY <1>1 DEF AgentInv
<1>3. \A s \in Runner : runner'[s].pc \in AgentPc => RunOf(runner'[s]) \in agents'
  BY <1>1, <1>2
<1>4. \A a \in agents' : a \in orphans' \/ \E s \in Runner : runner'[s].pc \in AgentPc
                                                            /\ RunOf(runner'[s]) = a
  BY <1>1 DEF AgentInv
<1>5. \A s, q \in Runner : s # q /\ runner'[s].pc \in AgentPc /\ runner'[q].pc \in AgentPc
                           => RunOf(runner'[s]) # RunOf(runner'[q])
  BY <1>1, <1>2 DEF AgentInv
<1> QED
  BY <1>3, <1>4, <1>5 DEF AgentInv, RunOf

LEMMA StayInAgent ==
  ASSUME AgentInv, runner \in [Runner -> Local], NEW r \in Runner, NEW x,
         runner' = [runner EXCEPT ![r] = x], runner[r].pc \in AgentPc <=> x.pc \in AgentPc,
         x.pc \in AgentPc => RunOf(x) = RunOf(runner[r]),
         UNCHANGED <<agents, orphans>>
  PROVE  AgentInv'
<1>1. \A s \in Runner :
        /\ runner'[s].pc \in AgentPc <=> runner[s].pc \in AgentPc
        /\ runner[s].pc \in AgentPc => RunOf(runner'[s]) = RunOf(runner[s])
  OBVIOUS
<1>2. /\ \A a \in agents' : a \in orphans' \/ \E s \in Runner : runner'[s].pc \in AgentPc
                                                              /\ RunOf(runner'[s]) = a
      /\ \A s \in Runner : runner'[s].pc \in AgentPc => RunOf(runner'[s]) \in agents'
      /\ \A s, q \in Runner : s # q /\ runner'[s].pc \in AgentPc /\ runner'[q].pc \in AgentPc
                           => RunOf(runner'[s]) # RunOf(runner'[q])
  BY <1>1 DEF AgentInv
<1> QED
  BY <1>2 DEF AgentInv, RunOf

LEMMA LeaveAgent ==
  ASSUME AgentInv, runner \in [Runner -> Local], NEW r \in Runner, NEW x,
         runner' = [runner EXCEPT ![r] = x], runner[r].pc \in AgentPc, x.pc \notin AgentPc,
         \/ agents' = agents \ {RunOf(runner[r])} /\ orphans' = orphans
         \/ agents' = agents /\ orphans' = orphans \cup {RunOf(runner[r])}
  PROVE  AgentInv'
<1>1. /\ runner'[r].pc \notin AgentPc
      /\ \A s \in Runner \ {r} : runner'[s] = runner[s]
  OBVIOUS
<1>2. \A s \in Runner : runner'[s].pc \in AgentPc =>
        /\ RunOf(runner'[s]) \in agents
        /\ RunOf(runner'[s]) # RunOf(runner[r])
  BY <1>1 DEF AgentInv
<1>3. \A s \in Runner : runner'[s].pc \in AgentPc => RunOf(runner'[s]) \in agents'
  BY <1>2
<1>4. \A a \in agents' : a \in orphans' \/ \E s \in Runner : runner'[s].pc \in AgentPc
                                                            /\ RunOf(runner'[s]) = a
  BY <1>1 DEF AgentInv
<1>5. \A s, q \in Runner : s # q /\ runner'[s].pc \in AgentPc /\ runner'[q].pc \in AgentPc
                           => RunOf(runner'[s]) # RunOf(runner'[q])
  BY <1>1 DEF AgentInv
<1> QED
  BY <1>3, <1>4, <1>5 DEF AgentInv, RunOf

LEMMA AgentInvInit == Init => AgentInv
BY DEF Init, AgentInv, Idle, AgentPc

\* Steps of a runner.
LEMMA AgentInvRunner ==
  ASSUME AgentInv, TypeInv, NEW r \in Runner, RunnerStep(r) \/ Cancel(r) \/ Crash(r)
  PROVE  AgentInv'
<1> USE DEF At
<1>1. runner \in [Runner -> Local] /\ ActiveRun(r) = RunOf(runner[r])
  BY DEF TypeInv, RunnersOK, ActiveRun, RunOf
<1>2. ASSUME NEW pc \in {"load", "return", "record", "fail"}
      PROVE  [Idle EXCEPT !.pc = pc, !.wf = runner[r].wf].pc \notin AgentPc
  BY DEF Idle, AgentPc
<1>3. Idle.pc \notin AgentPc
  BY DEF Idle, AgentPc
<1>4. ASSUME UNCHANGED <<agents, orphans>>, runner[r].pc \notin AgentPc,
             NEW x, x.pc \notin AgentPc, runner' = [runner EXCEPT ![r] = x]
      PROVE  AgentInv'
  BY <1>1, <1>4, StayInAgent
<1>5. ASSUME agents' = agents \ {RunOf(runner[r])}, UNCHANGED orphans, runner[r].pc \in AgentPc,
             NEW x, x.pc \notin AgentPc, runner' = [runner EXCEPT ![r] = x]
      PROVE  AgentInv'
  BY <1>1, <1>5, LeaveAgent
<1>6. CASE LoadSnapshot(r)
  <2>1. runner[r].pc \notin AgentPc /\ UNCHANGED <<agents, orphans>>
    BY <1>6 DEF LoadSnapshot, rows, ghosts, AgentPc
  <2>2. [Idle EXCEPT !.pc = "act", !.wf = runner[r].wf, !.seen = Row(r).status].pc \notin AgentPc
    BY DEF Idle, AgentPc
  <2> QED
    BY <2>1, <2>2, <1>2, <1>4, <1>6 DEF LoadSnapshot, Goto
<1>7. CASE FinishJob(r)
  BY <1>3, <1>4, <1>7 DEF FinishJob, Stop, ghosts, AgentPc
<1>8. CASE StartAgent(r)
  <2>1. runner[r].pc \notin AgentPc /\ UNCHANGED orphans
    BY <1>8 DEF StartAgent, ghosts, AgentPc
  <2>2. CASE Goto(r, "fail") /\ UNCHANGED agents
    BY <2>1, <2>2, <1>2, <1>4 DEF Goto
  <2>3. CASE ~(Goto(r, "fail") /\ UNCHANGED agents)
    <3> DEFINE x == [runner[r] EXCEPT !.pc = "agent", !.draft = campaign.draft]
    <3>1. /\ RunOf(runner[r]) \notin agents /\ agents' = agents \cup {RunOf(runner[r])}
          /\ runner' = [runner EXCEPT ![r] = x]
      BY <2>3, <1>1, <1>8 DEF StartAgent
    <3>2. x.pc \in AgentPc /\ RunOf(x) = RunOf(runner[r])
      BY <1>1 DEF RunOf, Local, AgentPc
    <3> QED
      BY <3>1, <3>2, <2>1, <1>1, EnterAgent
  <2> QED
    BY <2>2, <2>3
<1>9. CASE ReadReservation(r)
  <2> DEFINE x == [runner[r] EXCEPT !.pc = "reserve", !.hint = Row(r)]
  <2>1. /\ runner[r].pc \in AgentPc /\ UNCHANGED <<agents, orphans>>
        /\ runner' = [runner EXCEPT ![r] = x]
    BY <1>9 DEF ReadReservation, rows, ghosts, AgentPc
  <2>2. x.pc \in AgentPc /\ RunOf(x) = RunOf(runner[r])
    BY <1>1 DEF RunOf, Local, AgentPc
  <2> QED
    BY <2>1, <2>2, <1>1, StayInAgent
<1>10. CASE CommitReservation(r)
  <2>1. runner[r].pc \in AgentPc /\ UNCHANGED orphans
    BY <1>10 DEF CommitReservation, AgentPc
  <2>2. CASE Goto(r, "fail") /\ agents' = agents \ {ActiveRun(r)}
    BY <2>1, <2>2, <1>1, <1>2, <1>5 DEF Goto
  <2>3. CASE ~(Goto(r, "fail") /\ agents' = agents \ {ActiveRun(r)})
    <3> DEFINE x == [runner[r] EXCEPT !.pc = "answer", !.hint = NoRow]
    <3>1. UNCHANGED agents /\ runner' = [runner EXCEPT ![r] = x]
      BY <2>3, <1>10 DEF CommitReservation
    <3>2. x.pc \in AgentPc /\ RunOf(x) = RunOf(runner[r])
      BY <1>1 DEF RunOf, Local, AgentPc
    <3> QED
      BY <3>1, <3>2, <2>1, <1>1, StayInAgent
  <2> QED
    BY <2>2, <2>3
<1>11. CASE CompleteAgent(r)
  <2> PICK v \in Verdict : runner' = [runner EXCEPT ![r].pc = "save", ![r].verdict = v]
    BY <1>11 DEF CompleteAgent
  <2> DEFINE x == [runner[r] EXCEPT !.pc = "save", !.verdict = v]
  <2>1. /\ runner[r].pc \in AgentPc /\ agents' = agents \ {RunOf(runner[r])} /\ UNCHANGED orphans
        /\ runner' = [runner EXCEPT ![r] = x]
    BY <1>1, <1>11 DEF CompleteAgent, ghosts, AgentPc
  <2>2. x.pc \notin AgentPc
    BY <1>1 DEF Local, AgentPc
  <2> QED
    BY <2>1, <2>2, <1>5
<1>12. CASE FailAgent(r)
  BY <1>1, <1>2, <1>5, <1>12 DEF FailAgent, Goto, ghosts, AgentPc
<1>13. CASE ReadHint(r)
  <2> DEFINE x == [runner[r] EXCEPT !.pc = "commit", !.hint = Row(r)]
  <2>1. /\ runner[r].pc \notin AgentPc /\ UNCHANGED <<agents, orphans>>
        /\ runner' = [runner EXCEPT ![r] = x]
    BY <1>13 DEF ReadHint, rows, ghosts, AgentPc
  <2>2. x.pc \notin AgentPc
    BY <1>1 DEF Local, AgentPc
  <2> QED
    BY <2>1, <2>2, <1>4
<1>14. CASE Commit(r)
  <2>1. runner[r].pc \notin AgentPc /\ UNCHANGED <<agents, orphans>>
    BY <1>14 DEF Commit, ghosts, AgentPc
  <2>2. Goto(r, "record") \/ Goto(r, "load") \/ Stop(r)
    BY <1>14 DEF Commit
  <2> QED
    BY <2>1, <2>2, <1>2, <1>3, <1>4 DEF Goto, Stop
<1>15. CASE RecordFeedback(r)
  BY <1>2, <1>4, <1>15 DEF RecordFeedback, Goto, rows, ghosts, AgentPc
<1>16. CASE ReadFailure(r)
  <2> DEFINE x == [runner[r] EXCEPT !.pc = "persist", !.hint = Row(r)]
  <2>1. /\ runner[r].pc \notin AgentPc /\ UNCHANGED <<agents, orphans>>
        /\ runner' = [runner EXCEPT ![r] = x]
    BY <1>16 DEF ReadFailure, rows, ghosts, AgentPc
  <2>2. x.pc \notin AgentPc
    BY <1>1 DEF Local, AgentPc
  <2> QED
    BY <2>1, <2>2, <1>4
<1>17. CASE PersistFailure(r)
  BY <1>3, <1>4, <1>17 DEF PersistFailure, Stop, ghosts, AgentPc
<1>18. CASE Cancel(r)
  <2>1. UNCHANGED orphans /\ runner' = [runner EXCEPT ![r] = Idle]
    BY <1>18 DEF Cancel, Stop
  <2>2. CASE runner[r].pc \in AgentPc
    BY <2>1, <2>2, <1>1, <1>3, <1>5, <1>18 DEF Cancel
  <2>3. CASE runner[r].pc \notin AgentPc
    BY <2>1, <2>3, <1>3, <1>4, <1>18 DEF Cancel
  <2> QED
    BY <2>2, <2>3
<1>19. CASE Crash(r)
  <2>1. /\ runner[r].pc \in AgentPc /\ agents' = agents
        /\ orphans' = orphans \cup {RunOf(runner[r])} /\ runner' = [runner EXCEPT ![r] = Idle]
    BY <1>1, <1>19 DEF Crash, Stop, rows
  <2> QED
    BY <2>1, <1>1, <1>3, LeaveAgent
<1> QED
  BY <1>6, <1>7, <1>8, <1>9, <1>10, <1>11, <1>12, <1>13, <1>14, <1>15, <1>16, <1>17, <1>18, <1>19
     DEF RunnerStep

LEMMA AgentInvNext == AgentInv /\ TypeInv /\ [Next]_cwVars => AgentInv'
<1> SUFFICES ASSUME AgentInv, TypeInv, [Next]_cwVars PROVE AgentInv'
  OBVIOUS
<1>1. CASE UNCHANGED <<agents, runner, orphans>>
  BY <1>1 DEF AgentInv, RunOf
<1>2. ASSUME NEW r \in Runner, NEW w \in 1..WorkflowLimit, Lease(r, w) PROVE AgentInv'
  <2> DEFINE x == [Idle EXCEPT !.pc = "load", !.wf = w]
  <2>1. /\ runner[r].pc \notin AgentPc /\ UNCHANGED <<agents, orphans>>
        /\ runner' = [runner EXCEPT ![r] = x] /\ runner \in [Runner -> Local]
    BY <1>2 DEF Lease, At, rows, ghosts, AgentPc, TypeInv, RunnersOK
  <2>2. x.pc \notin AgentPc
    BY DEF Idle, AgentPc
  <2> HIDE DEF x
  <2> QED
    BY <2>1, <2>2, StayInAgent
<1>3. ASSUME CreateWorkflow \/ EditCampaign \/ ReadCampaign \/ UNCHANGED cwVars
      PROVE  UNCHANGED <<agents, runner, orphans>>
  BY <1>3 DEF CreateWorkflow, EditCampaign, ReadCampaign, rows, ghosts, cwVars
<1>4. ASSUME NEW d, Decide(d) PROVE UNCHANGED <<agents, runner, orphans>>
  BY <1>4 DEF Decide, ghosts
<1> QED
  BY <1>1, <1>2, <1>3, <1>4, AgentInvRunner DEF Next

\* However many workers run a campaign's workflows, an agent run is left
\* RUNNING only by the death of its process (AgentRunService, Orchestrator._run).
THEOREM AgentRunsHold == Spec => []AgentRunsClosed
<1>1. AgentInv => AgentRunsClosed
  BY DEF AgentInv, AgentRunsClosed, ActiveRun, RunOf
<1> QED
  BY <1>1, TypeInit, TypeNext, AgentInvInit, AgentInvNext, PTL DEF Spec

-----------------------------------------------------------------------------
(* The LLM budget with one worker.  CallsInv says that the stored count is  *)
(* the real one and that the count held over record_llm_call's two reads is *)
(* current: the latter needs that no other worker is at it.                 *)

Calls(w) == IF w \in WorkflowId THEN workflows[w].llm ELSE 0

CallsInv ==
  /\ turns \in [1..WorkflowLimit -> Nat]
  /\ \A w \in 1..WorkflowLimit : turns[w] = Calls(w)
  /\ \A r \in Runner : At(r, "reserve") => runner[r].hint.llm = Calls(runner[r].wf)

\* A step that starts no turn and reserves none.
LEMMA NoTurn ==
  ASSUME CallsInv, UNCHANGED turns,
         \A w \in 1..WorkflowLimit : Calls(w)' = Calls(w),
         \A r \in Runner : At(r, "reserve")' => runner'[r] = runner[r],
         \A r \in Runner : At(r, "reserve") => runner[r].wf \in 1..WorkflowLimit
  PROVE  CallsInv'
<1>1. \A r \in Runner : At(r, "reserve")' => (runner[r].hint.llm = Calls(runner[r].wf))'
  <2> TAKE r \in Runner
  <2> HAVE At(r, "reserve")'
  <2>1. runner'[r] = runner[r] /\ At(r, "reserve")
    BY DEF At
  <2>2. runner[r].wf \in 1..WorkflowLimit /\ runner[r].hint.llm = Calls(runner[r].wf)
    BY <2>1 DEF CallsInv
  <2>3. PICK w \in 1..WorkflowLimit : w = runner[r].wf
    BY <2>2
  <2>4. Calls(w)' = Calls(w)
    OBVIOUS
  <2> QED
    BY <2>1, <2>2, <2>3, <2>4 DEF Calls
<1>2. \A w \in 1..WorkflowLimit : turns'[w] = Calls(w)'
  BY DEF CallsInv
<1>3. turns' \in [1..WorkflowLimit -> Nat]
  BY DEF CallsInv
<1> QED
  BY <1>1, <1>2, <1>3 DEF CallsInv, At, Calls

\* A row written without touching llm_call_count.
LEMMA RowKeepsCalls ==
  ASSUME WorkflowsOK, NEW w \in WorkflowId, NEW row \in WorkflowRow, row.llm = workflows[w].llm,
         workflows' = [workflows EXCEPT ![w] = row]
  PROVE  \A v \in 1..WorkflowLimit : Calls(v)' = Calls(v)
<1>1. WorkflowId' = WorkflowId
  BY OneRow
<1>2. \A v \in WorkflowId : workflows'[v].llm = workflows[v].llm
  BY DEF WorkflowsOK, WorkflowId
<1> QED
  BY <1>1, <1>2 DEF Calls

LEMMA SaveKeepsCalls ==
  ASSUME TypeInv, NEW r \in Runner, At(r, "commit"), Save(r)
  PROVE  \A v \in 1..WorkflowLimit : Calls(v)' = Calls(v)
<1>1. /\ runner[r].wf \in WorkflowId /\ Row(r) \in WorkflowRow /\ WorkflowsOK
      /\ runner[r].seen \in DOMAIN Advance \cup DOMAIN Specialist
      /\ runner[r].hint \in WorkflowRow /\ runner[r].seen \in Status
  <2>1. ~At(r, "idle")
    BY DEF At
  <2> QED
    BY <2>1, RunnerRow, Domains DEF TypeInv, LocalOK, At
<1>2. ASSUME NEW next, NEW c, Move(r, next, c)
      PROVE  \A v \in 1..WorkflowLimit : Calls(v)' = Calls(v)
  <2> DEFINE row == [Row(r) EXCEPT !.status = next]
  <2>1. row \in WorkflowRow /\ row.llm = Row(r).llm
    BY <1>1, <1>2, AllowedStatus DEF Move, WorkflowRow
  <2>2. workflows' = [workflows EXCEPT ![runner[r].wf] = row]
    BY <1>2 DEF Move, Row
  <2> QED
    BY <1>1, <2>1, <2>2, RowKeepsCalls DEF Row
<1>3. CASE runner[r].seen = "REVIEWING"
  <2>1. SaveReview(r)
    BY <1>3, Domains DEF Save
  <2>2. CASE Outcome(r) = "GENERATING"
    <3> DEFINE row == [Row(r) EXCEPT !.status = "GENERATING",
                                     !.retries = runner[r].hint.retries + 1]
    <3>1. runner[r].hint.retries + 1 \in Nat /\ "GENERATING" \in Status
      BY <1>1, Domains DEF WorkflowRow
    <3>2. row \in WorkflowRow /\ row.llm = Row(r).llm
      BY <1>1, <3>1 DEF WorkflowRow
    <3>3. workflows' = [workflows EXCEPT ![runner[r].wf] = row]
      BY <2>1, <2>2 DEF SaveReview, Row
    <3> QED
      BY <1>1, <3>2, <3>3, RowKeepsCalls DEF Row
  <2>3. CASE Outcome(r) # "GENERATING"
    BY <2>1, <2>3, <1>2 DEF SaveReview
  <2> QED
    BY <2>2, <2>3
<1>4. CASE runner[r].seen # "REVIEWING"
  <2>1. \E next, c : Move(r, next, c)
    <3>1. CASE runner[r].seen \in DOMAIN Advance
      <4>1. Move(r, Advance[runner[r].seen], campaign)
        BY <3>1, Domains DEF Save
      <4> QED
        BY <4>1
    <3>2. CASE runner[r].seen = "ANALYZING"
      <4>1. Move(r, "GENERATING", [campaign EXCEPT !.analysis = TRUE])
        BY <3>2, Domains DEF Save
      <4> QED
        BY <4>1
    <3>3. CASE runner[r].seen = "GENERATING"
      <4>1. Move(r, "REVIEWING", [campaign EXCEPT !.draft = @ + 1])
        BY <3>3, Domains DEF Save
      <4> QED
        BY <4>1
    <3> QED
      BY <1>1, <1>4, <3>1, <3>2, <3>3, Domains
  <2> QED
    BY <2>1, <1>2
<1> QED
  BY <1>3, <1>4

\* Everything but record_llm_call leaves the counts alone.
LEMMA OthersKeepCalls ==
  ASSUME TypeInv, [Next]_cwVars, \A r \in Runner : ~CommitReservation(r)
  PROVE  UNCHANGED turns /\ \A v \in 1..WorkflowLimit : Calls(v)' = Calls(v)
<1>1. UNCHANGED workflows => \A v \in 1..WorkflowLimit : Calls(v)' = Calls(v)
  BY DEF Calls, WorkflowId
<1>2. CASE UNCHANGED cwVars
  BY <1>1, <1>2 DEF cwVars, rows, ghosts
<1>3. CASE CreateWorkflow
  <2>1. UNCHANGED turns /\ Len(workflows) \in Nat /\ workflows \in Seq(WorkflowRow)
    BY <1>3 DEF CreateWorkflow, ghosts, TypeInv, WorkflowsOK
  <2>2. \E row : workflows' = Append(workflows, row) /\ row.llm = 0
    <3>1. ASSUME NEW status, NEW parent, NEW revision
          PROVE  NewWorkflow(status, parent, revision).llm = 0
      BY DEF NewWorkflow
    <3>2. \E status, parent, revision :
            workflows' = Append(workflows, NewWorkflow(status, parent, revision))
      BY <1>3, Zenon DEF CreateWorkflow
    <3> QED
      BY <3>1, <3>2
  <2> PICK row : workflows' = Append(workflows, row) /\ row.llm = 0
    BY <2>2
  <2>3. /\ Len(workflows') = Len(workflows) + 1
        /\ \A v \in WorkflowId : workflows'[v] = workflows[v]
        /\ workflows'[Len(workflows) + 1].llm = 0
    BY <2>1 DEF WorkflowId
  <2> QED
    BY <2>1, <2>3 DEF Calls, WorkflowId
<1>4. CASE EditCampaign \/ ReadCampaign
  BY <1>1, <1>4 DEF EditCampaign, ReadCampaign, rows, ghosts
<1>5. ASSUME NEW d \in {"APPROVED", "REJECTED", "REVISION_REQUIRED"}, Decide(d)
      PROVE  UNCHANGED turns /\ \A v \in 1..WorkflowLimit : Calls(v)' = Calls(v)
  <2>1. UNCHANGED turns
    BY <1>5 DEF Decide, ghosts
  <2>2. CASE ~UNCHANGED workflows
    <3> DEFINE row == [workflows[read.wf] EXCEPT !.status = d, !.done = TRUE]
    <3>1. read.wf \in WorkflowId /\ workflows' = [workflows EXCEPT ![read.wf] = row]
      BY <1>5, <2>2 DEF Decide, TypeInv, ReadOK
    <3>2. workflows[read.wf] \in WorkflowRow /\ d \in Status /\ WorkflowsOK
      BY <3>1, Domains DEF TypeInv, WorkflowsOK, WorkflowId
    <3>3. row \in WorkflowRow /\ row.llm = workflows[read.wf].llm
      BY <3>2 DEF WorkflowRow
    <3> QED
      BY <2>1, <3>1, <3>2, <3>3, RowKeepsCalls
  <2> QED
    BY <1>1, <2>1, <2>2
<1>6. ASSUME NEW r \in Runner, Commit(r) \/ PersistFailure(r), ~UNCHANGED workflows
      PROVE  UNCHANGED turns /\ \A v \in 1..WorkflowLimit : Calls(v)' = Calls(v)
  <2>1. UNCHANGED turns /\ ~At(r, "idle")
    BY <1>6 DEF Commit, PersistFailure, ghosts, At
  <2>2. CASE Commit(r)
    <3>1. At(r, "commit") /\ Save(r)
      BY <1>6, <2>2 DEF Commit
    <3> QED
      BY <2>1, <3>1, SaveKeepsCalls
  <2>3. CASE PersistFailure(r)
    <3> DEFINE row == [Row(r) EXCEPT !.status = "FAILED", !.done = TRUE]
    <3>1. workflows' = [workflows EXCEPT ![runner[r].wf] = row]
      BY <1>6, <2>3 DEF PersistFailure, Row
    <3>2. runner[r].wf \in WorkflowId /\ Row(r) \in WorkflowRow /\ WorkflowsOK
          /\ "FAILED" \in Status
      BY <2>1, RunnerRow, Domains DEF TypeInv
    <3>3. row \in WorkflowRow /\ row.llm = Row(r).llm
      BY <3>2 DEF WorkflowRow
    <3> QED
      BY <2>1, <3>1, <3>2, <3>3, RowKeepsCalls DEF Row
  <2> QED
    BY <1>6, <2>2, <2>3
<1>7. ASSUME NEW r \in Runner, RunnerStep(r) \/ Cancel(r) \/ Crash(r)
      PROVE  UNCHANGED turns /\ \A v \in 1..WorkflowLimit : Calls(v)' = Calls(v)
  <2>1. CASE UNCHANGED <<workflows, turns>>
    BY <2>1, <1>1
  <2>2. CASE ~UNCHANGED <<workflows, turns>>
    <3>1. /\ ~LoadSnapshot(r) /\ ~FinishJob(r) /\ ~StartAgent(r) /\ ~ReadReservation(r)
          /\ ~CompleteAgent(r) /\ ~FailAgent(r) /\ ~ReadHint(r) /\ ~RecordFeedback(r)
          /\ ~ReadFailure(r) /\ ~Cancel(r) /\ ~Crash(r)
      BY <2>2 DEF LoadSnapshot, FinishJob, StartAgent, ReadReservation, CompleteAgent, FailAgent,
         ReadHint, RecordFeedback, ReadFailure, Cancel, Crash, rows, ghosts
    <3>2. Commit(r) \/ PersistFailure(r)
      BY <3>1, <1>7 DEF RunnerStep
    <3>3. UNCHANGED turns
      BY <3>2 DEF Commit, PersistFailure, ghosts
    <3> QED
      BY <2>2, <3>2, <3>3, <1>6
  <2> QED
    BY <2>1, <2>2
<1>8. ASSUME NEW r \in Runner, NEW w \in 1..WorkflowLimit, Lease(r, w)
      PROVE  UNCHANGED turns /\ \A v \in 1..WorkflowLimit : Calls(v)' = Calls(v)
  BY <1>1, <1>8 DEF Lease, rows, ghosts
<1> QED
  BY <1>2, <1>3, <1>4, <1>5, <1>7, <1>8 DEF Next

\* Only record_llm_call's first read puts a runner before its second.
LEMMA KeepsReservation ==
  ASSUME TypeInv, [Next]_cwVars, NEW r \in Runner, ~ReadReservation(r), At(r, "reserve")'
  PROVE  runner'[r] = runner[r]
<1>1. runner \in [Runner -> Local]
  BY DEF TypeInv, RunnersOK
<1>2. ASSUME NEW q \in Runner, q # r, RunnerStep(q) \/ Cancel(q) \/ Crash(q)
      PROVE  runner'[r] = runner[r]
  BY <1>1, <1>2, Zenon DEF RunnerStep, LoadSnapshot, FinishJob, StartAgent, ReadReservation,
     CommitReservation, CompleteAgent, FailAgent, ReadHint, Commit, RecordFeedback, ReadFailure,
     PersistFailure, Cancel, Crash, Goto, Stop
<1>3. ASSUME RunnerStep(r) \/ Cancel(r) \/ Crash(r) PROVE FALSE
  <2>1. ASSUME NEW pc, pc # "reserve" PROVE ~Goto(r, pc)
    BY <1>1, <2>1 DEF Goto, Idle, At
  <2>2. ~Stop(r)
    BY <1>1 DEF Stop, Idle, At
  <2>3. ASSUME NEW x, x.pc # "reserve" PROVE runner' # [runner EXCEPT ![r] = x]
    BY <1>1, <2>3 DEF At
  <2>4. CASE LoadSnapshot(r)
    <3> DEFINE x == [Idle EXCEPT !.pc = "act", !.wf = runner[r].wf, !.seen = Row(r).status]
    <3>1. Goto(r, "return") \/ runner' = [runner EXCEPT ![r] = x]
      BY <2>4 DEF LoadSnapshot
    <3>2. x.pc # "reserve"
      BY DEF Idle
    <3> HIDE DEF x
    <3> QED
      BY <3>1, <3>2, <2>1, <2>3
  <2>5. CASE FinishJob(r) \/ Cancel(r) \/ Crash(r) \/ PersistFailure(r)
    BY <2>2, <2>5 DEF FinishJob, Cancel, Crash, PersistFailure
  <2>6. CASE FailAgent(r) \/ RecordFeedback(r)
    BY <2>1, <2>6 DEF FailAgent, RecordFeedback
  <2>7. CASE Commit(r)
    <3>1. Stop(r) \/ Goto(r, "record") \/ Goto(r, "load")
      BY <2>7 DEF Commit
    <3> QED
      BY <3>1, <2>1, <2>2
  <2>8. CASE StartAgent(r)
    <3>1. Goto(r, "fail")
          \/ runner' = [runner EXCEPT ![r].pc = "agent", ![r].draft = campaign.draft]
      BY <2>8 DEF StartAgent
    <3> QED
      BY <3>1, <2>1, <1>1 DEF At, Local
  <2>9. CASE CommitReservation(r)
    <3>1. Goto(r, "fail") \/ runner' = [runner EXCEPT ![r].pc = "answer", ![r].hint = NoRow]
      BY <2>9 DEF CommitReservation
    <3> QED
      BY <3>1, <2>1, <1>1 DEF At, Local
  <2>10. CASE CompleteAgent(r)
    <3>1. \E v \in Verdict : runner' = [runner EXCEPT ![r].pc = "save", ![r].verdict = v]
      BY <2>10 DEF CompleteAgent
    <3> QED
      BY <3>1, <1>1 DEF At, Local
  <2>11. CASE ReadHint(r) \/ ReadFailure(r)
    <3>1. \E pc \in {"commit", "persist"} :
            runner' = [runner EXCEPT ![r].pc = pc, ![r].hint = Row(r)]
      BY <2>11 DEF ReadHint, ReadFailure
    <3> QED
      BY <3>1, <1>1 DEF At, Local
  <2> QED
    BY <1>3, <2>4, <2>5, <2>6, <2>7, <2>8, <2>9, <2>10, <2>11 DEF RunnerStep
<1>4. ASSUME NEW q \in Runner, NEW w \in 1..WorkflowLimit, Lease(q, w)
      PROVE  runner'[r] = runner[r]
  BY <1>1, <1>4 DEF Lease, Idle, At
<1>5. ASSUME NEW d, Decide(d) PROVE runner'[r] = runner[r]
  BY <1>5 DEF Decide
<1> QED
  BY <1>2, <1>3, <1>4, <1>5 DEF Next, CreateWorkflow, EditCampaign, ReadCampaign, cwVars

\* With a single worker, nothing comes between record_llm_call's two reads.
LEMMA CallsInvNext ==
  ASSUME NEW worker, Runner = {worker}, TypeInv, CallsInv, [Next]_cwVars
  PROVE  CallsInv'
<1>1. \A r \in Runner : At(r, "reserve") => runner[r].wf \in 1..WorkflowLimit
  <2> SUFFICES ASSUME NEW r \in Runner, At(r, "reserve") PROVE runner[r].wf \in 1..WorkflowLimit
    OBVIOUS
  <2>1. runner[r].wf \in WorkflowId
    BY RunnerRow DEF TypeInv, At
  <2> QED
    BY <2>1, WorkflowAssumption DEF TypeInv, WorkflowsOK, WorkflowId
<1>2. CASE CommitReservation(worker) /\ runner[worker].hint.llm < MaxLLMCalls
  <2> DEFINE w == runner[worker].wf
             n == runner[worker].hint.llm + 1
             row == [workflows[w] EXCEPT !.llm = n]
  <2>1. /\ w \in WorkflowId /\ w \in 1..WorkflowLimit /\ runner[worker].hint.llm = Calls(w)
        /\ workflows[w] \in WorkflowRow /\ workflows \in Seq(WorkflowRow)
    BY <1>1, <1>2, RunnerRow DEF CommitReservation, At, TypeInv, CallsInv, Row, WorkflowsOK
  <2>2. workflows[w].llm = Calls(w) /\ turns[w] = Calls(w) /\ Calls(w) \in Nat
    BY <2>1, WorkflowAssumption DEF Calls, CallsInv, WorkflowRow
  <2>3. /\ workflows' = [workflows EXCEPT ![w].llm = n]
        /\ turns' = [turns EXCEPT ![w] = @ + 1]
        /\ runner' = [runner EXCEPT ![worker].pc = "answer", ![worker].hint = NoRow]
    <3>1. ~(runner[worker].hint.llm >= MaxLLMCalls)
      BY <1>2, <2>1, <2>2, WorkflowAssumption
    <3> QED
      BY <1>2, <3>1 DEF CommitReservation
  <2>4. workflows' = [workflows EXCEPT ![w] = row]
    BY <2>3
  <2>5. WorkflowId' = WorkflowId /\ workflows'[w].llm = n
        /\ \A v \in WorkflowId \ {w} : workflows'[v] = workflows[v]
    <3>1. WorkflowsOK /\ n \in 0..MaxLLMCalls
      BY <1>2, <2>1, <2>2, WorkflowAssumption DEF TypeInv
    <3> HIDE DEF n
    <3>2. row \in WorkflowRow /\ row.llm = n
      BY <2>1, <3>1 DEF WorkflowRow
    <3> HIDE DEF w, row
    <3>3. /\ Len(workflows') = Len(workflows) /\ workflows'[w] = row
          /\ \A v \in WorkflowId \ {w} : workflows'[v] = workflows[v]
      BY <2>1, <2>4, <3>1, <3>2, RowMoves
    <3> QED
      BY <3>2, <3>3 DEF WorkflowId
  <2>6. turns' \in [1..WorkflowLimit -> Nat] /\ turns'[w] = n
        /\ \A v \in 1..WorkflowLimit \ {w} : turns'[v] = turns[v]
    BY <2>1, <2>2, <2>3 DEF CallsInv
  <2> HIDE DEF w, n
  <2>7. \A v \in 1..WorkflowLimit : turns'[v] = Calls(v)'
    BY <2>1, <2>5, <2>6 DEF Calls, CallsInv
  <2>8. \A r \in Runner : ~At(r, "reserve")'
    BY <2>3 DEF At, TypeInv, RunnersOK, Local
  <2> QED
    BY <2>6, <2>7, <2>8 DEF CallsInv
<1>3. CASE CommitReservation(worker) /\ ~(runner[worker].hint.llm < MaxLLMCalls)
  <2>1. runner[worker].hint.llm \in Nat
    <3>1. At(worker, "reserve") /\ runner[worker].wf \in WorkflowId /\ Row(worker) \in WorkflowRow
      BY <1>3, RunnerRow DEF CommitReservation, At
    <3>2. runner[worker].hint.llm = Row(worker).llm
      BY <3>1 DEF CallsInv, Calls, Row
    <3> QED
      BY <3>1, <3>2, WorkflowAssumption DEF WorkflowRow
  <2>2. UNCHANGED <<workflows, turns>> /\ Goto(worker, "fail")
    BY <1>3, <2>1, WorkflowAssumption DEF CommitReservation
  <2>3. \A r \in Runner : ~At(r, "reserve")'
    BY <2>2 DEF Goto, Idle, At, TypeInv, RunnersOK
  <2> QED
    BY <1>1, <2>2, <2>3, NoTurn DEF Calls, WorkflowId
<1>4. CASE \A r \in Runner : ~CommitReservation(r)
  <2>1. UNCHANGED turns /\ \A v \in 1..WorkflowLimit : Calls(v)' = Calls(v)
    BY <1>4, OthersKeepCalls
  <2>2. CASE ReadReservation(worker)
    <3>1. /\ runner' = [runner EXCEPT ![worker].pc = "reserve", ![worker].hint = Row(worker)]
          /\ UNCHANGED workflows /\ runner[worker].wf \in WorkflowId
      BY <2>2, RunnerRow DEF ReadReservation, rows, TypeInv, At
    <3>2. /\ runner'[worker].hint = Row(worker)
          /\ runner'[worker].wf = runner[worker].wf
      BY <3>1 DEF TypeInv, RunnersOK, Local
    <3>3. (runner[worker].hint.llm = Calls(runner[worker].wf))'
      BY <3>1, <3>2 DEF Calls, Row, WorkflowId
    <3>4. turns' \in [1..WorkflowLimit -> Nat] /\ \A v \in 1..WorkflowLimit : turns'[v] = Calls(v)'
      BY <2>1 DEF CallsInv
    <3> QED
      BY <3>3, <3>4 DEF CallsInv
  <2>3. CASE ~ReadReservation(worker)
    <3>1. \A r \in Runner : At(r, "reserve")' => runner'[r] = runner[r]
      BY <1>4, <2>3, KeepsReservation
    <3> QED
      BY <1>1, <2>1, <3>1, NoTurn
  <2> QED
    BY <2>2, <2>3
<1> QED
  BY <1>2, <1>3, <1>4

\* A workflow driven by one worker never starts more LLM turns than
\* settings.max_llm_calls_per_workflow (WorkflowService.record_llm_call).
THEOREM CallBudgetHolds ==
  ASSUME NEW worker, Runner = {worker}
  PROVE  Spec => []CallsWithinBudget
<1>1. Init => CallsInv
  BY DEF Init, CallsInv, Calls, WorkflowId, Idle, At
<1>2. TypeInv /\ CallsInv => CallsWithinBudget
  <2> SUFFICES ASSUME TypeInv, CallsInv, NEW w \in WorkflowId PROVE turns[w] <= MaxLLMCalls
    BY DEF CallsWithinBudget
  <2>1. workflows[w] \in WorkflowRow /\ w \in 1..WorkflowLimit
    BY WorkflowAssumption DEF TypeInv, WorkflowsOK, WorkflowId
  <2> QED
    BY <2>1, WorkflowAssumption DEF CallsInv, Calls, WorkflowRow
<1>3. TypeInv /\ CallsInv /\ [Next]_cwVars => CallsInv'
  BY CallsInvNext
<1> QED
  BY <1>1, <1>2, <1>3, TypeInit, TypeNext, PTL DEF Spec

-----------------------------------------------------------------------------
(* What the campaign's rows tell, with one runner on the campaign.          *)
(*                                                                         *)
(* FreshHint is what makes the two-step checkpoint safe: between the two   *)
(* steps only a decision can change the row, and that starts from a status *)
(* the runner never leaves.  The rest is about the rows: who is closed was *)
(* decided or failed, an undecided page still shows the draft that waits,  *)
(* and a runner past its agent carries the draft the campaign has.         *)

FreshHint ==
  \A r \in Runner : runner[r].pc \in {"commit", "persist"} =>
    runner[r].hint.status \in {Row(r).status, "PENDING_APPROVAL"}

CarriesDraft ==
  \A r \in Runner :
    runner[r].pc \in AgentPc \cup {"save"}
      \/ (runner[r].pc = "commit" /\ runner[r].seen \in DOMAIN Specialist)
    => /\ runner[r].draft = campaign.draft
       /\ runner[r].seen = "REVIEWING" => campaign.draft > 0

ClosedInv ==
  \A w \in WorkflowId : workflows[w].done => workflows[w].status = "FAILED" \/ Decided(w)

DecidedInv ==
  \A a \in approvals :
    /\ workflows[a.wf].done
    /\ workflows[a.wf].status = a.decision \/ a.decision = "REVISION_REQUIRED"
    /\ \A b \in approvals : b.wf = a.wf => b = a

AnalysedInv ==
  \A w \in WorkflowId :
    /\ workflows[w].status \in {"GENERATING", "REVIEWING", "MANUAL_REVIEW_REQUIRED",
                                "PENDING_APPROVAL", "REVISION_REQUIRED"} => campaign.analysis
    /\ workflows[w].status = "REVIEWING" => campaign.draft > 0

RetriedInv == \A w \in WorkflowId : workflows[w].retries <= MaxRetries

PageInv ==
  read # NoRow =>
    \/ Decided(read.wf)
    \/ workflows[read.wf].status = "PENDING_APPROVAL" /\ campaign.draft = read.draft

ShownInv == \A a \in approvals : a.previous = a.shown

RowsInv == ClosedInv /\ DecidedInv /\ AnalysedInv /\ RetriedInv
TaleInv ==
  CampaignFollowsWorkflow /\ ApprovedContentPassed /\ EventsTellOutcome /\ PageInv /\ ShownInv
StoryInv == FreshHint /\ CarriesDraft /\ RowsInv /\ (Rerun \/ TaleInv)

\* What a checkpoint or a persisted failure writes, if it writes.
Moved(w, next) ==
  /\ w \in WorkflowId /\ Len(workflows') = Len(workflows)
  /\ workflows[w].status \in DOMAIN Advance \cup DOMAIN Specialist
  /\ next \in {"VALIDATING", "ANALYZING", "GENERATING", "REVIEWING", "MANUAL_REVIEW_REQUIRED",
               "PENDING_APPROVAL", "FAILED"}
  /\ \A v \in WorkflowId \ {w} : workflows'[v] = workflows[v]
  /\ workflows'[w].status = next
  /\ workflows'[w].parent = workflows[w].parent
  /\ workflows'[w].revision = workflows[w].revision
  /\ workflows'[w].retries = workflows[w].retries \/ workflows'[w].retries <= MaxRetries
  /\ workflows[w].done => workflows'[w].done
  /\ workflows'[w].done => workflows[w].done \/ next = "FAILED"
  /\ campaign'.status = next
  /\ campaign.analysis => campaign'.analysis
  /\ next \in {"GENERATING", "REVIEWING", "MANUAL_REVIEW_REQUIRED", "PENDING_APPROVAL"} =>
       campaign'.analysis \/ workflows[w].status \in {"GENERATING", "REVIEWING", "REVISION_REQUIRED"}
  /\ campaign.draft > 0 => campaign'.draft > 0
  /\ next = "REVIEWING" => campaign'.draft > 0
  /\ next = "PENDING_APPROVAL" =>
       campaign'.verdict = "PASS" /\ campaign'.judged = campaign'.draft /\ campaign'.draft > 0
  /\ events' = events \cup
       (IF next \in {"PENDING_APPROVAL", "MANUAL_REVIEW_REQUIRED", "FAILED"}
        THEN {<<w, next>>} ELSE {})
  /\ UNCHANGED <<approvals, read>>

LEMMA MoveRow ==
  ASSUME TypeInv, NEW r \in Runner, ~At(r, "idle"), runner[r].seen \in Status,
         NEW next, NEW c \in CampaignRow, Move(r, next, c)
  PROVE  /\ Len(workflows') = Len(workflows)
         /\ \A v \in WorkflowId \ {runner[r].wf} : workflows'[v] = workflows[v]
         /\ workflows'[runner[r].wf] = [Row(r) EXCEPT !.status = next]
         /\ campaign' = [c EXCEPT !.status = next]
         /\ next \in Status
<1>1. runner[r].wf \in WorkflowId /\ Row(r) \in WorkflowRow /\ WorkflowsOK /\ next \in Status
  BY RunnerRow, AllowedStatus DEF TypeInv, Move
<1> DEFINE row == [Row(r) EXCEPT !.status = next]
<1>2. row \in WorkflowRow
  BY <1>1 DEF WorkflowRow
<1>3. workflows' = [workflows EXCEPT ![runner[r].wf] = row]
  BY DEF Move, Row
<1>4. campaign' = [c EXCEPT !.status = next]
  BY DEF Move
<1> QED
  BY <1>1, <1>2, <1>3, <1>4, RowMoves

\* A checkpoint before the review.
LEMMA AdvanceMoves ==
  ASSUME TypeInv, FreshHint, NEW r \in Runner, Commit(r), Expected(r),
         runner[r].seen # "REVIEWING"
  PROVE  \E next : Moved(runner[r].wf, next)
<1>1. /\ At(r, "commit") /\ ~At(r, "idle") /\ Save(r) /\ UNCHANGED <<approvals, read>>
  BY DEF Commit, At
<1>2. /\ runner[r].wf \in WorkflowId /\ Row(r) \in WorkflowRow
      /\ runner[r].seen \in DOMAIN Advance \cup DOMAIN Specialist
      /\ runner[r].seen \in Status /\ campaign \in CampaignRow
  BY <1>1, RunnerRow, Domains DEF LocalOK, At, TypeInv, CampaignOK
<1>3. Row(r).status = runner[r].seen
  BY <1>1, <1>2, Domains DEF FreshHint, Expected, At
<1> DEFINE w == runner[r].wf
<1>4. ASSUME NEW next \in {"VALIDATING", "ANALYZING", "GENERATING", "REVIEWING"},
             NEW c \in CampaignRow, Move(r, next, c), UNCHANGED events,
             campaign.analysis => c.analysis,
             next \in {"GENERATING", "REVIEWING"} =>
               c.analysis \/ runner[r].seen \in {"GENERATING", "REVIEWING", "REVISION_REQUIRED"},
             campaign.draft > 0 => c.draft > 0, next = "REVIEWING" => c.draft > 0
      PROVE  Moved(w, next)
  <2>1. /\ Len(workflows') = Len(workflows)
        /\ \A v \in WorkflowId \ {w} : workflows'[v] = workflows[v]
        /\ workflows'[w] = [Row(r) EXCEPT !.status = next]
        /\ campaign' = [c EXCEPT !.status = next]
    BY <1>1, <1>2, <1>4, MoveRow
  <2>2. /\ workflows'[w].status = next /\ workflows'[w].parent = Row(r).parent
        /\ workflows'[w].revision = Row(r).revision /\ workflows'[w].done = Row(r).done
        /\ workflows'[w].retries = Row(r).retries
    BY <1>2, <2>1 DEF WorkflowRow
  <2>3. /\ campaign'.status = next /\ campaign'.analysis = c.analysis
        /\ campaign'.draft = c.draft
    BY <2>1, <1>4 DEF CampaignRow
  <2>4. events' = events \cup {}
    BY <1>4
  <2> QED
    BY <1>1, <1>2, <1>3, <1>4, <2>1, <2>2, <2>3, <2>4 DEF Moved, Row
<1>5. CASE runner[r].seen \in DOMAIN Advance
  <2>1. Move(r, Advance[runner[r].seen], campaign) /\ UNCHANGED events
    BY <1>1, <1>5, Domains DEF Save
  <2>2. /\ Advance[runner[r].seen] \in {"VALIDATING", "ANALYZING", "GENERATING"}
        /\ Advance[runner[r].seen] = "GENERATING" => runner[r].seen = "REVISION_REQUIRED"
    BY <1>5, Domains DEF Advance
  <2> QED
    BY <1>2, <1>4, <2>1, <2>2
<1>6. CASE runner[r].seen = "ANALYZING"
  <2> DEFINE c == [campaign EXCEPT !.analysis = TRUE]
  <2>1. c \in CampaignRow /\ c.analysis = TRUE /\ c.draft = campaign.draft
    BY <1>2 DEF CampaignRow
  <2>2. Move(r, "GENERATING", c) /\ UNCHANGED events
    BY <1>1, <1>6, Domains DEF Save
  <2> HIDE DEF c
  <2> QED
    BY <1>4, <2>1, <2>2
<1>7. CASE runner[r].seen = "GENERATING"
  <2> DEFINE c == [campaign EXCEPT !.draft = @ + 1]
  <2>1. c \in CampaignRow /\ c.analysis = campaign.analysis /\ c.draft > 0
    BY <1>2 DEF CampaignRow
  <2>2. Move(r, "REVIEWING", c) /\ UNCHANGED events
    BY <1>1, <1>7, Domains DEF Save
  <2> HIDE DEF c
  <2> QED
    BY <1>4, <1>7, <2>1, <2>2
<1> QED
  BY <1>2, <1>5, <1>6, <1>7, Domains

\* The checkpoint of a review: the draft it carries is the campaign's.
LEMMA ReviewMoves ==
  ASSUME TypeInv, FreshHint, CarriesDraft, NEW r \in Runner, Commit(r), Expected(r),
         runner[r].seen = "REVIEWING"
  PROVE  \E next : Moved(runner[r].wf, next)
<1>1. /\ At(r, "commit") /\ ~At(r, "idle") /\ Save(r) /\ UNCHANGED <<approvals, read>>
  BY DEF Commit, At
<1>2. /\ runner[r].wf \in WorkflowId /\ Row(r) \in WorkflowRow /\ WorkflowsOK
      /\ runner[r].seen \in Status /\ campaign \in CampaignRow
      /\ runner[r].verdict \in Verdict /\ runner[r].draft \in Nat /\ runner[r].hint \in WorkflowRow
  BY <1>1, RunnerRow, Domains DEF LocalOK, At, TypeInv, CampaignOK, Local
<1>3. Row(r).status = "REVIEWING"
  BY <1>1, <1>2, Domains DEF FreshHint, Expected, At
<1>4. runner[r].draft = campaign.draft /\ campaign.draft > 0
  BY <1>1, Domains DEF CarriesDraft, At
<1>5. SaveReview(r)
  BY <1>1, Domains DEF Save
<1> DEFINE w == runner[r].wf
           c == Judged(r)
<1>6. /\ c \in CampaignRow /\ c.draft = campaign.draft /\ c.judged = campaign.draft
      /\ c.analysis = campaign.analysis /\ c.verdict = runner[r].verdict
  BY <1>2, <1>4 DEF Judged, CampaignRow
<1> HIDE DEF c
<1>7. CASE Outcome(r) = "GENERATING"
  <2> DEFINE n == runner[r].hint.retries + 1
             row == [Row(r) EXCEPT !.status = "GENERATING", !.retries = n]
  <2>1. n \in Nat /\ "GENERATING" \in Status /\ c.retries + 1 \in Nat /\ n <= MaxRetries
    <3>1. runner[r].hint.retries < MaxRetries /\ runner[r].hint.retries \in Nat
      BY <1>2, <1>7 DEF Outcome, WorkflowRow
    <3> QED
      BY <1>6, <3>1, Domains, WorkflowAssumption DEF CampaignRow
  <2> HIDE DEF n
  <2>2. /\ row \in WorkflowRow /\ row.status = "GENERATING" /\ row.parent = Row(r).parent
        /\ row.revision = Row(r).revision /\ row.done = Row(r).done /\ row.retries = n
    BY <1>2, <2>1 DEF WorkflowRow
  <2>3. /\ workflows' = [workflows EXCEPT ![w] = row]
        /\ campaign' = [c EXCEPT !.status = "GENERATING", !.retries = @ + 1]
        /\ UNCHANGED events
    BY <1>5, <1>7 DEF SaveReview, Row, n, c
  <2>4. /\ Len(workflows') = Len(workflows) /\ workflows'[w] = row
        /\ \A v \in WorkflowId \ {w} : workflows'[v] = workflows[v]
    BY <1>2, <2>2, <2>3, RowMoves
  <2>5. /\ campaign'.status = "GENERATING" /\ campaign'.analysis = c.analysis
        /\ campaign'.draft = c.draft
    BY <1>6, <2>1, <2>3 DEF CampaignRow
  <2>6. events' = events \cup {}
    BY <2>3
  <2> HIDE DEF row
  <2>7. Moved(w, "GENERATING")
    BY <1>1, <1>2, <1>3, <1>4, <1>6, <2>1, <2>2, <2>4, <2>5, <2>6, Domains DEF Moved, Row
  <2> QED
    BY <2>7
<1>8. CASE Outcome(r) # "GENERATING"
  <2>1. PICK next \in {"PENDING_APPROVAL", "MANUAL_REVIEW_REQUIRED"} :
          next = Outcome(r) /\ (next = "PENDING_APPROVAL" => runner[r].verdict = "PASS")
    BY <1>8 DEF Outcome
  <2>2. Move(r, next, c) /\ events' = events \cup {<<w, next>>}
    BY <1>5, <1>8, <2>1 DEF SaveReview, c
  <2>3. /\ Len(workflows') = Len(workflows)
        /\ \A v \in WorkflowId \ {w} : workflows'[v] = workflows[v]
        /\ workflows'[w] = [Row(r) EXCEPT !.status = next]
        /\ campaign' = [c EXCEPT !.status = next] /\ next \in Status
    BY <1>1, <1>2, <1>6, <2>2, MoveRow
  <2>4. /\ workflows'[w].status = next /\ workflows'[w].parent = Row(r).parent
        /\ workflows'[w].revision = Row(r).revision /\ workflows'[w].done = Row(r).done
        /\ workflows'[w].retries = Row(r).retries
    BY <1>2, <2>3 DEF WorkflowRow
  <2>5. /\ campaign'.status = next /\ campaign'.analysis = c.analysis
        /\ campaign'.draft = c.draft /\ campaign'.judged = c.judged /\ campaign'.verdict = c.verdict
    BY <1>6, <2>3 DEF CampaignRow
  <2>6. Moved(w, next)
    BY <1>1, <1>2, <1>3, <1>4, <1>6, <2>1, <2>2, <2>3, <2>4, <2>5, Domains DEF Moved, Row
  <2> QED
    BY <2>6
<1> QED
  BY <1>7, <1>8

\* A failure is persisted from the statuses the runner works in.
LEMMA FailureMoves ==
  ASSUME TypeInv, FreshHint, NEW r \in Runner, PersistFailure(r),
         "FAILED" \in Allowed[runner[r].hint.status]
  PROVE  Moved(runner[r].wf, "FAILED")
<1>1. /\ At(r, "persist") /\ ~At(r, "idle") /\ UNCHANGED <<approvals, read>>
  BY DEF PersistFailure, At
<1>2. /\ runner[r].wf \in WorkflowId /\ Row(r) \in WorkflowRow /\ WorkflowsOK
      /\ campaign \in CampaignRow /\ runner[r].hint \in WorkflowRow
  BY <1>1, RunnerRow DEF LocalOK, At, TypeInv, CampaignOK
<1>3. runner[r].hint.status \in {"RECEIVED", "VALIDATING", "ANALYZING", "GENERATING", "REVIEWING"}
  BY <1>2, Domains DEF WorkflowRow, Allowed
<1>4. Row(r).status = runner[r].hint.status
  BY <1>1, <1>3 DEF FreshHint, At
<1> DEFINE w == runner[r].wf
           row == [Row(r) EXCEPT !.status = "FAILED", !.done = TRUE]
<1>5. /\ row \in WorkflowRow /\ row.status = "FAILED" /\ row.parent = Row(r).parent
      /\ row.revision = Row(r).revision /\ row.retries = Row(r).retries /\ row.done
  BY <1>2, Domains DEF WorkflowRow
<1>6. /\ workflows' = [workflows EXCEPT ![w] = row]
      /\ campaign' = [campaign EXCEPT !.status = "FAILED"]
      /\ events' = events \cup {<<w, "FAILED">>}
  BY DEF PersistFailure, Row
<1>7. /\ Len(workflows') = Len(workflows) /\ workflows'[w] = row
      /\ \A v \in WorkflowId \ {w} : workflows'[v] = workflows[v]
  BY <1>2, <1>5, <1>6, RowMoves
<1>8. /\ campaign'.status = "FAILED" /\ campaign'.analysis = campaign.analysis
      /\ campaign'.draft = campaign.draft
  BY <1>2, <1>6 DEF CampaignRow
<1> HIDE DEF row
<1> QED
  BY <1>1, <1>2, <1>3, <1>4, <1>5, <1>6, <1>7, <1>8, Domains DEF Moved, Row

\* What a runner does to the rows the story is about.
LEMMA RunnerWrites ==
  ASSUME TypeInv, FreshHint, CarriesDraft, NEW r \in Runner, Commit(r) \/ PersistFailure(r)
  PROVE  \/ UNCHANGED <<campaign, workflows, events, approvals, read>>
         \/ \E next : Moved(runner[r].wf, next)
<1>1. CASE Commit(r) /\ Expected(r)
  BY <1>1, AdvanceMoves, ReviewMoves
<1>2. CASE Commit(r) /\ ~Expected(r)
  BY <1>2 DEF Commit
<1>3. CASE PersistFailure(r) /\ "FAILED" \in Allowed[runner[r].hint.status]
  BY <1>3, FailureMoves
<1>4. CASE PersistFailure(r) /\ ~("FAILED" \in Allowed[runner[r].hint.status])
  BY <1>4 DEF PersistFailure
<1> QED
  BY <1>1, <1>2, <1>3, <1>4

-----------------------------------------------------------------------------
(* What a move keeps.  RunnerStatus names the statuses it starts from.      *)

LEMMA RunnerStatus ==
  DOMAIN Advance \cup DOMAIN Specialist =
    {"RECEIVED", "VALIDATING", "ANALYZING", "GENERATING", "REVIEWING", "REVISION_REQUIRED"}
BY Domains

LEMMA ApprovalTyped ==
  ASSUME TypeInv, NEW a \in approvals
  PROVE  a.wf \in WorkflowId /\ a.decision \in {"APPROVED", "REJECTED", "REVISION_REQUIRED"}
BY DEF TypeInv, ApprovalsOK

\* A closed workflow run again is never closed for revision again.
LEMMA MovedRerun ==
  ASSUME TypeInv, DecidedInv, Rerun, NEW w, NEW next, Moved(w, next)
  PROVE  Rerun'
<1>1. PICK a \in approvals : workflows[a.wf].status # a.decision
  BY DEF Rerun
<1>2. a.decision = "REVISION_REQUIRED" /\ a \in approvals' /\ a.wf \in WorkflowId
  BY <1>1, ApprovalTyped DEF DecidedInv, Moved
<1>3. workflows'[a.wf].status # a.decision
  <2>1. CASE a.wf = w
    BY <2>1, <1>2 DEF Moved
  <2>2. CASE a.wf # w
    BY <2>2, <1>1, <1>2 DEF Moved
  <2> QED
    BY <2>1, <2>2
<1> QED
  BY <1>2, <1>3 DEF Rerun

LEMMA MovedRows ==
  ASSUME TypeInv, RowsInv, NEW w, NEW next, Moved(w, next)
  PROVE  RowsInv'
<1>1. WorkflowId' = WorkflowId /\ UNCHANGED approvals /\ w \in WorkflowId
  BY DEF Moved, WorkflowId
<1>2. \A v : Decided(v)' <=> Decided(v)
  BY <1>1 DEF Decided
<1>3. ClosedInv'
  <2> SUFFICES ASSUME NEW v \in WorkflowId, workflows'[v].done
               PROVE  workflows'[v].status = "FAILED" \/ Decided(v)
    BY <1>1, <1>2 DEF ClosedInv
  <2>1. CASE v = w
    BY <2>1, RunnerStatus DEF Moved, RowsInv, ClosedInv
  <2>2. CASE v # w
    BY <2>2 DEF Moved, RowsInv, ClosedInv
  <2> QED
    BY <2>1, <2>2
<1>4. DecidedInv'
  <2> SUFFICES ASSUME NEW a \in approvals
               PROVE  /\ workflows'[a.wf].done
                      /\ workflows'[a.wf].status = a.decision \/ a.decision = "REVISION_REQUIRED"
                      /\ \A b \in approvals : b.wf = a.wf => b = a
    BY <1>1 DEF DecidedInv
  <2>1. /\ workflows[a.wf].done
        /\ workflows[a.wf].status = a.decision \/ a.decision = "REVISION_REQUIRED"
        /\ \A b \in approvals : b.wf = a.wf => b = a
    BY DEF RowsInv, DecidedInv
  <2>2. a.wf \in WorkflowId /\ a.decision \in {"APPROVED", "REJECTED", "REVISION_REQUIRED"}
    BY ApprovalTyped
  <2>3. CASE a.wf = w
    BY <2>1, <2>2, <2>3, RunnerStatus DEF Moved
  <2>4. CASE a.wf # w
    BY <2>1, <2>2, <2>4 DEF Moved
  <2> QED
    BY <2>3, <2>4
<1>5. AnalysedInv'
  <2> SUFFICES ASSUME NEW v \in WorkflowId
               PROVE  /\ workflows'[v].status \in {"GENERATING", "REVIEWING",
                           "MANUAL_REVIEW_REQUIRED", "PENDING_APPROVAL", "REVISION_REQUIRED"}
                           => campaign'.analysis
                      /\ workflows'[v].status = "REVIEWING" => campaign'.draft > 0
    BY <1>1 DEF AnalysedInv
  <2>1. CASE v = w
    BY <2>1 DEF Moved, RowsInv, AnalysedInv
  <2>2. CASE v # w
    BY <2>2 DEF Moved, RowsInv, AnalysedInv
  <2> QED
    BY <2>1, <2>2
<1>6. RetriedInv'
  BY <1>1 DEF Moved, RowsInv, RetriedInv
<1> QED
  BY <1>3, <1>4, <1>5, <1>6 DEF RowsInv

\* A workflow that moves without running a closed one again is the newest one.
LEMMA NewestMoves ==
  ASSUME TypeInv, RowsInv, TaleInv, ~Rerun, NEW w, NEW next, Moved(w, next), ~Rerun'
  PROVE  /\ w = Len(workflows)
         /\ ~(workflows[w].status = "REVISION_REQUIRED" /\ workflows[w].done)
<1>1. ~(workflows[w].status = "REVISION_REQUIRED" /\ workflows[w].done)
  <2> SUFFICES ASSUME workflows[w].status = "REVISION_REQUIRED", workflows[w].done
               PROVE  FALSE
    OBVIOUS
  <2>1. Decided(w)
    BY DEF RowsInv, ClosedInv, Moved
  <2>2. PICK a \in approvals : a.wf = w
    BY <2>1 DEF Decided
  <2>3. a.decision = "REVISION_REQUIRED" /\ a \in approvals'
    BY <2>2 DEF Rerun, Moved
  <2>4. workflows'[a.wf].status # a.decision
    BY <2>2, <2>3 DEF Moved
  <2> QED
    BY <2>3, <2>4 DEF Rerun
<1>2. w \in WorkflowId
  BY DEF Moved
<1> QED
  BY <1>1, <1>2 DEF TaleInv, CampaignFollowsWorkflow

\* What EventsTellOutcome expects of a workflow.
Heard(row, w) ==
  CASE row.status \in {"FAILED", "MANUAL_REVIEW_REQUIRED"} -> {<<w, row.status>>}
    [] \/ row.status \in {"PENDING_APPROVAL", "APPROVED", "REJECTED"}
       \/ row.status = "REVISION_REQUIRED" /\ row.done -> {<<w, "PENDING_APPROVAL">>}
    [] OTHER -> {}

LEMMA HeardValues ==
  ASSUME NEW row, NEW w
  PROVE  /\ row.status \in {"FAILED", "MANUAL_REVIEW_REQUIRED"} => Heard(row, w) = {<<w, row.status>>}
         /\ row.status \in {"PENDING_APPROVAL", "APPROVED", "REJECTED"} =>
              Heard(row, w) = {<<w, "PENDING_APPROVAL">>}
         /\ row.status = "REVISION_REQUIRED" /\ row.done => Heard(row, w) = {<<w, "PENDING_APPROVAL">>}
         /\ row.status = "REVISION_REQUIRED" /\ ~row.done => Heard(row, w) = {}
         /\ row.status \in {"RECEIVED", "VALIDATING", "ANALYZING", "GENERATING", "REVIEWING"} =>
              Heard(row, w) = {}
BY DEF Heard

LEMMA EventsHeard ==
  EventsTellOutcome <=>
    (Rerun \/ \A w \in WorkflowId : {e \in events : e[1] = w} = Heard(workflows[w], w))
BY DEF EventsTellOutcome, Heard

LEMMA MovedEvents ==
  ASSUME TypeInv, EventsTellOutcome, ~Rerun, NEW w, NEW next, Moved(w, next),
         ~(workflows[w].status = "REVISION_REQUIRED" /\ workflows[w].done)
  PROVE  EventsTellOutcome'
<1>1. \A v \in WorkflowId : {e \in events : e[1] = v} = Heard(workflows[v], v)
  BY EventsHeard
<1>2. WorkflowId' = WorkflowId /\ w \in WorkflowId
  BY DEF Moved, WorkflowId
<1>3. Heard(workflows[w], w) = {}
  BY RunnerStatus, HeardValues DEF Moved
<1>4. ASSUME NEW v \in WorkflowId PROVE {e \in events' : e[1] = v} = Heard(workflows'[v], v)
  <2>1. CASE v # w
    <3>1. {e \in events' : e[1] = v} = {e \in events : e[1] = v}
      BY <2>1 DEF Moved
    <3>2. workflows'[v] = workflows[v]
      BY <1>4, <2>1 DEF Moved
    <3> QED
      BY <1>1, <1>4, <3>1, <3>2
  <2>2. CASE v = w
    <3>1. {e \in events : e[1] = w} = {}
      BY <1>1, <1>2, <1>3
    <3>2. workflows'[w].status = next
      BY DEF Moved
    <3>3. CASE next \in {"PENDING_APPROVAL", "MANUAL_REVIEW_REQUIRED", "FAILED"}
      <4>1. events' = events \cup {<<w, next>>}
        BY <3>3 DEF Moved
      <4>2. {e \in events' : e[1] = w} = {<<w, next>>}
        BY <3>1, <4>1
      <4> QED
        BY <2>2, <3>2, <3>3, <4>2, HeardValues
    <3>4. CASE next \in {"VALIDATING", "ANALYZING", "GENERATING", "REVIEWING"}
      <4>1. events' = events
        BY <3>4 DEF Moved
      <4> QED
        BY <2>2, <3>1, <3>2, <3>4, <4>1, HeardValues
    <3> QED
      BY <3>3, <3>4 DEF Moved
  <2> QED
    BY <2>1, <2>2
<1>5. (\A v \in WorkflowId : {e \in events : e[1] = v} = Heard(workflows[v], v))'
  BY <1>2, <1>4 DEF Heard
<1> QED
  BY <1>5 DEF EventsTellOutcome, Heard

LEMMA MovedTale ==
  ASSUME TypeInv, RowsInv, TaleInv, ~Rerun, NEW w, NEW next, Moved(w, next), ~Rerun'
  PROVE  TaleInv'
<1>1. /\ w = Len(workflows) /\ w \in WorkflowId
      /\ ~(workflows[w].status = "REVISION_REQUIRED" /\ workflows[w].done)
  BY NewestMoves DEF Moved
<1>2. WorkflowId' = WorkflowId /\ Len(workflows') = Len(workflows) /\ Len(workflows) \in Nat
  BY DEF Moved, WorkflowId, TypeInv, WorkflowsOK
<1>3. CampaignFollowsWorkflow'
  <2>1. campaign'.status = workflows'[Len(workflows')].status
    BY <1>1, <1>2 DEF Moved
  <2>2. ASSUME NEW v \in WorkflowId \ {Len(workflows)}
        PROVE  /\ workflows'[v].status = "REVISION_REQUIRED" /\ workflows'[v].done
               /\ workflows'[v + 1].parent = v
               /\ workflows'[v + 1].revision = workflows'[v].revision + 1
    <3>1. /\ workflows[v].status = "REVISION_REQUIRED" /\ workflows[v].done
          /\ workflows[v + 1].parent = v
          /\ workflows[v + 1].revision = workflows[v].revision + 1
      BY DEF TaleInv, CampaignFollowsWorkflow
    <3>2. v + 1 \in WorkflowId
      BY <1>2 DEF WorkflowId
    <3>3. workflows'[v] = workflows[v]
      BY <1>1 DEF Moved
    <3>4. /\ workflows'[v + 1].parent = workflows[v + 1].parent
          /\ workflows'[v + 1].revision = workflows[v + 1].revision
      <4>1. CASE v + 1 = w
        BY <4>1 DEF Moved
      <4>2. CASE v + 1 # w
        BY <3>2, <4>2 DEF Moved
      <4> QED
        BY <4>1, <4>2
    <3> QED
      BY <3>1, <3>3, <3>4
  <2> QED
    BY <1>2, <2>1, <2>2 DEF CampaignFollowsWorkflow
<1>4. ApprovedContentPassed'
  BY DEF ApprovedContentPassed, Moved
<1>5. EventsTellOutcome'
  BY <1>1, MovedEvents DEF TaleInv
<1>6. PageInv'
  <2> SUFFICES ASSUME read # NoRow, ~Decided(read.wf) PROVE FALSE
    BY DEF PageInv, Moved, Decided
  <2>1. workflows[read.wf].status = "PENDING_APPROVAL" /\ read.wf \in WorkflowId
    BY DEF TaleInv, PageInv, TypeInv, ReadOK
  <2>2. read.wf = Len(workflows)
    BY <2>1 DEF TaleInv, CampaignFollowsWorkflow
  <2> QED
    BY <1>1, <2>1, <2>2, RunnerStatus DEF Moved
<1>7. ShownInv'
  BY DEF TaleInv, ShownInv, Moved
<1> QED
  BY <1>3, <1>4, <1>5, <1>6, <1>7 DEF TaleInv

-----------------------------------------------------------------------------
(* What a decision keeps.                                                   *)

\* A decision that is taken.
Ruled(d) ==
  /\ read # NoRow /\ read \in Snapshot /\ read.wf \in WorkflowId /\ read' \in {read, NoRow}
  /\ d \in {"APPROVED", "REJECTED", "REVISION_REQUIRED"}
  /\ ~Decided(read.wf) /\ workflows[read.wf].status = "PENDING_APPROVAL"
  /\ campaign.version = read.version
  /\ Len(workflows') = Len(workflows)
  /\ \A v \in WorkflowId \ {read.wf} : workflows'[v] = workflows[v]
  /\ workflows'[read.wf].status = d /\ workflows'[read.wf].done
  /\ workflows'[read.wf].parent = workflows[read.wf].parent
  /\ workflows'[read.wf].revision = workflows[read.wf].revision
  /\ workflows'[read.wf].retries = workflows[read.wf].retries
  /\ campaign'.status = d
  /\ campaign'.analysis = campaign.analysis /\ campaign'.draft = campaign.draft
  /\ campaign'.judged = campaign.judged /\ campaign'.verdict = campaign.verdict
  /\ approvals' = approvals \cup
       {[wf |-> read.wf, decision |-> d, shown |-> read,
         previous |-> [wf |-> read.wf, version |-> campaign.version, draft |-> campaign.draft]]}
  /\ UNCHANGED <<events, runner>>

LEMMA DecideRules ==
  ASSUME TypeInv, NEW d \in {"APPROVED", "REJECTED", "REVISION_REQUIRED"}, Decide(d)
  PROVE  \/ Ruled(d)
         \/ UNCHANGED <<campaign, workflows, approvals, events, runner>> /\ read' \in {read, NoRow}
<1>1. /\ read \in Snapshot /\ read.wf \in WorkflowId /\ read # NoRow /\ read' \in {read, NoRow}
      /\ UNCHANGED <<events, runner>> /\ WorkflowsOK /\ campaign \in CampaignRow
  BY DEF Decide, TypeInv, ReadOK, CampaignOK
<1>2. CASE ~(Decided(read.wf) \/ workflows[read.wf].status # "PENDING_APPROVAL"
             \/ campaign.version # read.version)
  <2> DEFINE row == [workflows[read.wf] EXCEPT !.status = d, !.done = TRUE]
             n == IF d = "REVISION_REQUIRED" THEN campaign.version + 1 ELSE campaign.version
  <2>1. workflows[read.wf] \in WorkflowRow /\ d \in Status
    BY <1>1, Domains DEF WorkflowsOK, WorkflowId
  <2>2. /\ row \in WorkflowRow /\ row.status = d /\ row.done
        /\ row.parent = workflows[read.wf].parent /\ row.revision = workflows[read.wf].revision
        /\ row.retries = workflows[read.wf].retries
    BY <2>1 DEF WorkflowRow
  <2>3. /\ workflows' = [workflows EXCEPT ![read.wf] = row]
        /\ campaign' = [campaign EXCEPT !.status = d, !.version = n]
        /\ approvals' = approvals \cup
             {[wf |-> read.wf, decision |-> d, shown |-> read,
               previous |-> [wf |-> read.wf, version |-> campaign.version,
                             draft |-> campaign.draft]]}
    BY <1>2 DEF Decide
  <2> HIDE DEF n, row
  <2>4. /\ Len(workflows') = Len(workflows) /\ workflows'[read.wf] = row
        /\ \A v \in WorkflowId \ {read.wf} : workflows'[v] = workflows[v]
    BY <1>1, <2>2, <2>3, RowMoves
  <2>5. /\ campaign'.status = d
        /\ campaign'.analysis = campaign.analysis /\ campaign'.draft = campaign.draft
        /\ campaign'.judged = campaign.judged /\ campaign'.verdict = campaign.verdict
    BY <1>1, <2>3 DEF CampaignRow
  <2> QED
    BY <1>1, <1>2, <2>2, <2>3, <2>4, <2>5 DEF Ruled
<1>3. CASE Decided(read.wf) \/ workflows[read.wf].status # "PENDING_APPROVAL"
             \/ campaign.version # read.version
  BY <1>1, <1>3 DEF Decide
<1> QED
  BY <1>2, <1>3

LEMMA RuledRerun ==
  ASSUME TypeInv, Rerun, NEW d, Ruled(d)
  PROVE  Rerun'
<1>1. PICK a \in approvals : workflows[a.wf].status # a.decision
  BY DEF Rerun
<1>2. a \in approvals' /\ a.wf \in WorkflowId \ {read.wf}
  BY ApprovalTyped DEF Ruled, Decided
<1>3. workflows'[a.wf].status # a.decision
  BY <1>1, <1>2 DEF Ruled
<1> QED
  BY <1>2, <1>3 DEF Rerun

LEMMA RuledRows ==
  ASSUME TypeInv, RowsInv, NEW d, Ruled(d)
  PROVE  RowsInv'
<1> PICK w \in WorkflowId : w = read.wf
  BY DEF Ruled
<1> DEFINE new == [wf |-> w, decision |-> d, shown |-> read,
                   previous |-> [wf |-> w, version |-> campaign.version,
                                 draft |-> campaign.draft]]
<1>1. /\ WorkflowId' = WorkflowId /\ w \in WorkflowId /\ approvals' = approvals \cup {new}
      /\ new.wf = w /\ new.decision = d
  BY DEF Ruled, WorkflowId
<1> HIDE DEF new
<1>2. \A v : Decided(v) => Decided(v)'
  BY <1>1 DEF Decided
<1>3. Decided(w)'
  BY <1>1 DEF Decided, Ruled
<1>4. ClosedInv'
  <2> SUFFICES ASSUME NEW v \in WorkflowId, workflows'[v].done
               PROVE  workflows'[v].status = "FAILED" \/ Decided(v)'
    BY <1>1 DEF ClosedInv
  <2> QED
    BY <1>2, <1>3 DEF Ruled, RowsInv, ClosedInv
<1>5. DecidedInv'
  <2>1. ASSUME NEW a \in approvals
        PROVE  /\ workflows'[a.wf].done
               /\ workflows'[a.wf].status = a.decision \/ a.decision = "REVISION_REQUIRED"
               /\ \A b \in approvals' : b.wf = a.wf => b = a
    <3>1. a.wf \in WorkflowId \ {w}
      BY ApprovalTyped DEF Ruled, Decided
    <3>2. workflows'[a.wf] = workflows[a.wf]
      BY <3>1 DEF Ruled
    <3> QED
      BY <1>1, <3>1, <3>2 DEF RowsInv, DecidedInv
  <2>2. /\ workflows'[new.wf].done /\ workflows'[new.wf].status = new.decision
        /\ \A b \in approvals' : b.wf = new.wf => b = new
    BY <1>1 DEF Ruled, Decided
  <2> QED
    BY <1>1, <2>1, <2>2 DEF DecidedInv
<1>6. AnalysedInv'
  <2> SUFFICES ASSUME NEW v \in WorkflowId
               PROVE  /\ workflows'[v].status \in {"GENERATING", "REVIEWING",
                           "MANUAL_REVIEW_REQUIRED", "PENDING_APPROVAL", "REVISION_REQUIRED"}
                           => campaign'.analysis
                      /\ workflows'[v].status = "REVIEWING" => campaign'.draft > 0
    BY <1>1 DEF AnalysedInv
  <2> QED
    BY <1>1 DEF Ruled, RowsInv, AnalysedInv
<1>7. RetriedInv'
  BY <1>1 DEF Ruled, RowsInv, RetriedInv
<1> QED
  BY <1>4, <1>5, <1>6, <1>7 DEF RowsInv

LEMMA RuledTale ==
  ASSUME TypeInv, RowsInv, TaleInv, ~Rerun, NEW d, Ruled(d)
  PROVE  TaleInv'
<1> PICK w \in WorkflowId : w = read.wf
  BY DEF Ruled
<1>1. WorkflowId' = WorkflowId /\ Len(workflows') = Len(workflows) /\ Len(workflows) \in Nat
  BY DEF Ruled, WorkflowId, TypeInv, WorkflowsOK
<1>2. w = Len(workflows)
  BY DEF TaleInv, CampaignFollowsWorkflow, Ruled
<1>3. CampaignFollowsWorkflow'
  <2>1. campaign'.status = workflows'[Len(workflows')].status
    BY <1>1, <1>2 DEF Ruled
  <2>2. ASSUME NEW v \in WorkflowId \ {Len(workflows)}
        PROVE  /\ workflows'[v].status = "REVISION_REQUIRED" /\ workflows'[v].done
               /\ workflows'[v + 1].parent = v
               /\ workflows'[v + 1].revision = workflows'[v].revision + 1
    <3>1. /\ workflows[v].status = "REVISION_REQUIRED" /\ workflows[v].done
          /\ workflows[v + 1].parent = v
          /\ workflows[v + 1].revision = workflows[v].revision + 1
      BY DEF TaleInv, CampaignFollowsWorkflow
    <3>2. v + 1 \in WorkflowId /\ workflows'[v] = workflows[v]
      BY <1>1, <1>2 DEF WorkflowId, Ruled
    <3>3. /\ workflows'[v + 1].parent = workflows[v + 1].parent
          /\ workflows'[v + 1].revision = workflows[v + 1].revision
      <4>1. CASE v + 1 = w
        BY <4>1 DEF Ruled
      <4>2. CASE v + 1 # w
        BY <3>2, <4>2 DEF Ruled
      <4> QED
        BY <4>1, <4>2
    <3> QED
      BY <3>1, <3>2, <3>3
  <2> QED
    BY <1>1, <2>1, <2>2 DEF CampaignFollowsWorkflow
<1>4. ApprovedContentPassed'
  <2>1. campaign.status = "PENDING_APPROVAL"
    BY <1>2 DEF TaleInv, CampaignFollowsWorkflow, Ruled, WorkflowId
  <2> QED
    BY <2>1 DEF TaleInv, ApprovedContentPassed, Ruled
<1>5. EventsTellOutcome'
  <2>1. \A v \in WorkflowId : {e \in events : e[1] = v} = Heard(workflows[v], v)
    BY EventsHeard DEF TaleInv
  <2>2. ASSUME NEW v \in WorkflowId PROVE Heard(workflows'[v], v) = Heard(workflows[v], v)
    <3>1. CASE v = w
      <4>1. Heard(workflows[w], w) = {<<w, "PENDING_APPROVAL">>}
        BY HeardValues DEF Ruled
      <4>2. Heard(workflows'[w], w) = {<<w, "PENDING_APPROVAL">>}
        BY HeardValues DEF Ruled
      <4> QED
        BY <3>1, <4>1, <4>2
    <3>2. CASE v # w
      BY <3>2 DEF Ruled
    <3> QED
      BY <3>1, <3>2
  <2>3. (\A v \in WorkflowId : {e \in events : e[1] = v} = Heard(workflows[v], v))'
    BY <1>1, <2>1, <2>2 DEF Ruled, Heard
  <2> QED
    BY <2>3 DEF EventsTellOutcome, Heard
<1>6. PageInv'
  <2> SUFFICES ASSUME read' # NoRow PROVE \E a \in approvals' : a.wf = read'.wf
    BY DEF PageInv, Decided
  <2> DEFINE new == [wf |-> w, decision |-> d, shown |-> read,
                     previous |-> [wf |-> w, version |-> campaign.version,
                                   draft |-> campaign.draft]]
  <2>1. new \in approvals' /\ new.wf = w /\ read' = read
    BY DEF Ruled
  <2> QED
    BY <2>1
<1>7. ShownInv'
  <2>1. read = [wf |-> read.wf, version |-> read.version, draft |-> read.draft]
    BY DEF Ruled, Snapshot
  <2>2. campaign.version = read.version /\ campaign.draft = read.draft
    BY DEF Ruled, TaleInv, PageInv
  <2> QED
    BY <2>1, <2>2 DEF TaleInv, ShownInv, Ruled
<1> QED
  BY <1>3, <1>4, <1>5, <1>6, <1>7 DEF TaleInv

-----------------------------------------------------------------------------
(* What a new workflow keeps.                                               *)

Created(row) ==
  /\ workflows' = Append(workflows, row) /\ ~row.done /\ row.retries = 0
  /\ Len(workflows') = Len(workflows) + 1 /\ workflows'[Len(workflows) + 1] = row
  /\ \A v \in WorkflowId : workflows'[v] = workflows[v]
  /\ \A v \in WorkflowId : workflows[v].status \in Active => workflows[v].done
  /\ campaign.status = row.status
  /\ \/ row.status = "RECEIVED"
     \/ /\ row.status = "REVISION_REQUIRED"
        /\ \E p \in Parents :
             /\ \A v \in Parents : Precedes(v, p)
             /\ row.parent = p /\ row.revision = workflows[p].revision + 1
  /\ UNCHANGED <<campaign, events, approvals, read, runner>>

LEMMA CreateRows ==
  ASSUME TypeInv, CreateWorkflow
  PROVE  \E row : Created(row)
<1>1. ASSUME NEW row, workflows' = Append(workflows, row)
      PROVE  /\ Len(workflows') = Len(workflows) + 1 /\ workflows'[Len(workflows) + 1] = row
             /\ \A v \in WorkflowId : workflows'[v] = workflows[v]
  BY <1>1 DEF TypeInv, WorkflowsOK, WorkflowId
<1>2. /\ \A v \in WorkflowId : workflows[v].status \in Active => workflows[v].done
      /\ UNCHANGED <<campaign, events, approvals, read, runner>>
  BY DEF CreateWorkflow
<1>3. CASE /\ campaign.status = "RECEIVED"
           /\ workflows' = Append(workflows, NewWorkflow("RECEIVED", 0, 0))
  <2> DEFINE row == NewWorkflow("RECEIVED", 0, 0)
  <2>1. row.status = "RECEIVED" /\ ~row.done /\ row.retries = 0
    BY DEF NewWorkflow
  <2> HIDE DEF row
  <2>2. workflows' = Append(workflows, row)
    BY <1>3 DEF row
  <2>3. Created(row)
    BY <1>1, <1>2, <1>3, <2>1, <2>2 DEF Created
  <2> QED
    BY <2>3
<1>4. ASSUME campaign.status = "REVISION_REQUIRED", NEW p \in Parents,
             \A v \in Parents : Precedes(v, p),
             workflows' = Append(workflows,
               NewWorkflow("REVISION_REQUIRED", p, workflows[p].revision + 1))
      PROVE  \E row : Created(row)
  <2> DEFINE row == NewWorkflow("REVISION_REQUIRED", p, workflows[p].revision + 1)
  <2>1. /\ row.status = "REVISION_REQUIRED" /\ ~row.done /\ row.parent = p
        /\ row.revision = workflows[p].revision + 1 /\ row.retries = 0
    BY DEF NewWorkflow
  <2>2. workflows' = Append(workflows, row)
    BY <1>4
  <2> HIDE DEF row
  <2>3. Created(row)
    BY <1>1, <1>2, <1>4, <2>1, <2>2 DEF Created
  <2> QED
    BY <2>3
<1> QED
  BY <1>3, <1>4 DEF CreateWorkflow

LEMMA CreatedRerun ==
  ASSUME TypeInv, Rerun, NEW row, Created(row)
  PROVE  Rerun'
BY ApprovalTyped DEF Rerun, Created

LEMMA CreatedRows ==
  ASSUME TypeInv, RowsInv, NEW row, Created(row)
  PROVE  RowsInv'
<1>1. Len(workflows) \in Nat /\ UNCHANGED approvals
  BY DEF TypeInv, WorkflowsOK, Created
<1> PICK n \in Nat : n = Len(workflows) + 1
  BY <1>1
<1>2. WorkflowId' = WorkflowId \cup {n} /\ workflows'[n] = row
  BY <1>1 DEF WorkflowId, Created
<1>3. \A v : Decided(v)' <=> Decided(v)
  BY <1>1 DEF Decided
<1>4. ClosedInv'
  <2> SUFFICES ASSUME NEW v \in WorkflowId', workflows'[v].done
               PROVE  workflows'[v].status = "FAILED" \/ Decided(v)
    BY <1>3 DEF ClosedInv
  <2> QED
    BY <1>2 DEF Created, RowsInv, ClosedInv
<1>5. DecidedInv'
  <2>1. \A a \in approvals : workflows'[a.wf] = workflows[a.wf]
    BY ApprovalTyped DEF Created
  <2> QED
    BY <1>1, <2>1 DEF RowsInv, DecidedInv
<1>6. AnalysedInv'
  <2> SUFFICES ASSUME NEW v \in WorkflowId'
               PROVE  /\ workflows'[v].status \in {"GENERATING", "REVIEWING",
                           "MANUAL_REVIEW_REQUIRED", "PENDING_APPROVAL", "REVISION_REQUIRED"}
                           => campaign'.analysis
                      /\ workflows'[v].status = "REVIEWING" => campaign'.draft > 0
    BY DEF AnalysedInv
  <2>1. CASE v \in WorkflowId
    BY <2>1 DEF Created, RowsInv, AnalysedInv
  <2>2. CASE v = n
    BY <1>2, <2>2 DEF Created, RowsInv, AnalysedInv, Parents
  <2> QED
    BY <1>2, <2>1, <2>2
<1>7. RetriedInv'
  <2>1. row.retries <= MaxRetries
    BY WorkflowAssumption DEF Created
  <2>2. \A v \in WorkflowId : workflows'[v].retries <= MaxRetries
    BY DEF Created, RowsInv, RetriedInv
  <2> QED
    BY <1>2, <2>1, <2>2 DEF RetriedInv
<1> QED
  BY <1>4, <1>5, <1>6, <1>7 DEF RowsInv

LEMMA CreatedTale ==
  ASSUME TypeInv, RowsInv, TaleInv, ~Rerun, NEW row, Created(row)
  PROVE  TaleInv'
<1>1. Len(workflows) \in Nat /\ Len(workflows') = Len(workflows) + 1
  BY DEF TypeInv, WorkflowsOK, Created
<1> PICK n \in Nat : n = Len(workflows)
  BY <1>1
<1>2. WorkflowId = 1..n /\ WorkflowId' = 1..(n + 1) /\ workflows'[n + 1] = row
  BY <1>1 DEF WorkflowId, Created
<1>3. n # 0 => workflows[n].status = campaign.status /\ n \in WorkflowId
  <2>1. n # 0 => workflows # << >> /\ n \in 1..n
    BY DEF TypeInv, WorkflowsOK
  <2> QED
    BY <2>1, <1>2 DEF TaleInv, CampaignFollowsWorkflow
<1>4. n # 0 => workflows[n].status = "REVISION_REQUIRED" /\ workflows[n].done
  <2> SUFFICES ASSUME n # 0
               PROVE  workflows[n].status = "REVISION_REQUIRED" /\ workflows[n].done
    OBVIOUS
  <2>1. workflows[n].status \in {"RECEIVED", "REVISION_REQUIRED"} /\ n \in WorkflowId
    BY <1>3 DEF Created
  <2>2. workflows[n].done
    BY <2>1, Domains DEF Created, Active, Final
  <2>3. Decided(n)
    BY <2>1, <2>2 DEF RowsInv, ClosedInv
  <2>4. PICK a \in approvals : a.wf = n
    BY <2>3 DEF Decided
  <2>5. workflows[n].status = a.decision /\ a.decision # "RECEIVED"
    BY <2>4, ApprovalTyped DEF Rerun
  <2> QED
    BY <2>1, <2>2, <2>5
<1>5. n # 0 => row.parent = n /\ row.revision = workflows[n].revision + 1
  <2> SUFFICES ASSUME n # 0 PROVE row.parent = n /\ row.revision = workflows[n].revision + 1
    OBVIOUS
  <2>1. row.status = "REVISION_REQUIRED"
    BY <1>3, <1>4 DEF Created
  <2>2. PICK p \in Parents :
          /\ \A v \in Parents : Precedes(v, p)
          /\ row.parent = p /\ row.revision = workflows[p].revision + 1
    BY <2>1 DEF Created
  <2>3. \A v \in WorkflowId : v \in Parents
    BY <1>1, <1>4 DEF Parents, TaleInv, CampaignFollowsWorkflow
  <2>4. p \in WorkflowId /\ workflows[p].revision \in Nat
    <3>1. p \in WorkflowId
      BY DEF Parents
    <3>2. workflows[p] \in WorkflowRow
      BY <3>1 DEF TypeInv, WorkflowsOK, WorkflowId
    <3> QED
      BY <3>1, <3>2 DEF WorkflowRow
  <2>5. p = n
    <3> SUFFICES ASSUME p # n PROVE FALSE
      OBVIOUS
    <3>1. /\ p \in WorkflowId \ {Len(workflows)} /\ p + 1 \in WorkflowId
          /\ workflows[p + 1].revision = workflows[p].revision + 1
      BY <1>2, <2>4 DEF TaleInv, CampaignFollowsWorkflow
    <3>2. Precedes(p + 1, p)
      BY <2>2, <2>3, <3>1
    <3> QED
      BY <1>2, <2>4, <3>1, <3>2 DEF Precedes
  <2> QED
    BY <2>2, <2>5
<1>6. CampaignFollowsWorkflow'
  <2>1. campaign'.status = workflows'[Len(workflows')].status
    BY <1>1, <1>2 DEF Created
  <2>2. ASSUME NEW v \in WorkflowId' \ {n + 1}
        PROVE  /\ workflows'[v].status = "REVISION_REQUIRED" /\ workflows'[v].done
               /\ workflows'[v + 1].parent = v
               /\ workflows'[v + 1].revision = workflows'[v].revision + 1
    <3>1. v \in WorkflowId /\ workflows'[v] = workflows[v] /\ n # 0
      BY <1>2 DEF Created
    <3>2. CASE v = n
      BY <1>2, <1>4, <1>5, <3>1, <3>2
    <3>3. CASE v # n
      <4>1. v \in WorkflowId \ {Len(workflows)} /\ v + 1 \in WorkflowId
        BY <1>2, <3>1, <3>3
      <4>2. workflows'[v + 1] = workflows[v + 1]
        BY <4>1 DEF Created
      <4> QED
        BY <3>1, <4>1, <4>2 DEF TaleInv, CampaignFollowsWorkflow
    <3> QED
      BY <3>2, <3>3
  <2>3. Len(workflows') = n + 1
    BY <1>1
  <2> QED
    BY <2>1, <2>2, <2>3 DEF CampaignFollowsWorkflow
<1>7. ApprovedContentPassed'
  BY DEF TaleInv, ApprovedContentPassed, Created
<1>8. EventsTellOutcome'
  <2>1. \A v \in WorkflowId : {e \in events : e[1] = v} = Heard(workflows[v], v)
    BY EventsHeard DEF TaleInv
  <2>2. {e \in events : e[1] = n + 1} = {}
    BY <1>2 DEF TypeInv, EventsOK
  <2>3. Heard(row, n + 1) = {}
    BY HeardValues DEF Created
  <2>4. \A v \in 1..(n + 1) : {e \in events : e[1] = v} = Heard(workflows'[v], v)
    BY <1>2, <2>1, <2>2, <2>3 DEF Created
  <2>5. (\A v \in WorkflowId : {e \in events : e[1] = v} = Heard(workflows[v], v))'
    BY <1>2, <2>4 DEF Created, Heard
  <2> QED
    BY <2>5 DEF EventsTellOutcome, Heard
<1>9. PageInv'
  BY DEF TaleInv, PageInv, Created, Decided, TypeInv, ReadOK
<1>10. ShownInv'
  BY DEF TaleInv, ShownInv, Created
<1> QED
  BY <1>6, <1>7, <1>8, <1>9, <1>10 DEF TaleInv

-----------------------------------------------------------------------------
(* Every step.                                                              *)

\* A step that writes of these rows only the campaign's version and an LLM count.
Unwritten ==
  /\ UNCHANGED <<events, approvals>> /\ Len(workflows') = Len(workflows)
  /\ \A v \in WorkflowId :
       /\ workflows'[v].status = workflows[v].status /\ workflows'[v].done = workflows[v].done
       /\ workflows'[v].parent = workflows[v].parent
       /\ workflows'[v].revision = workflows[v].revision
       /\ workflows'[v].retries = workflows[v].retries
  /\ campaign'.status = campaign.status /\ campaign'.analysis = campaign.analysis
  /\ campaign'.draft = campaign.draft /\ campaign'.judged = campaign.judged
  /\ campaign'.verdict = campaign.verdict

LEMMA UnwrittenKeeps ==
  ASSUME TypeInv, Unwritten
  PROVE  /\ RowsInv => RowsInv'
         /\ Rerun => Rerun'
         /\ TaleInv /\ PageInv' => TaleInv'
<1>1. UNCHANGED <<WorkflowId, events, approvals>> /\ Len(workflows) \in Nat
  BY DEF Unwritten, WorkflowId, TypeInv, WorkflowsOK
<1>2. \A v : Decided(v)' <=> Decided(v)
  BY <1>1 DEF Decided
<1>3. \A a \in approvals : a.wf \in WorkflowId
  BY ApprovalTyped
<1>4. RowsInv => RowsInv'
  <2>1. ClosedInv => ClosedInv'
    BY <1>1, <1>2 DEF ClosedInv, Unwritten
  <2>2. DecidedInv => DecidedInv'
    BY <1>1, <1>3 DEF DecidedInv, Unwritten
  <2>3. AnalysedInv => AnalysedInv'
    BY <1>1 DEF AnalysedInv, Unwritten
  <2>4. RetriedInv => RetriedInv'
    BY <1>1 DEF RetriedInv, Unwritten
  <2> QED
    BY <2>1, <2>2, <2>3, <2>4 DEF RowsInv
<1>5. Rerun' <=> Rerun
  BY <1>1, <1>3 DEF Rerun, Unwritten
<1>6. CampaignFollowsWorkflow => CampaignFollowsWorkflow'
  <2> SUFFICES ASSUME ~Rerun, CampaignFollowsWorkflow PROVE CampaignFollowsWorkflow'
    BY <1>5 DEF CampaignFollowsWorkflow
  <2>1. Len(workflows) # 0 => workflows # << >> /\ Len(workflows) \in WorkflowId
    BY DEF TypeInv, WorkflowsOK, WorkflowId
  <2>2. workflows' # << >> => Len(workflows) # 0
    BY DEF Unwritten, TypeInv, WorkflowsOK
  <2>3. workflows' # << >> => campaign'.status = workflows'[Len(workflows')].status
    BY <2>1, <2>2 DEF CampaignFollowsWorkflow, Unwritten
  <2>4. \A w \in WorkflowId \ {Len(workflows)} :
          /\ workflows'[w].status = "REVISION_REQUIRED" /\ workflows'[w].done
          /\ workflows'[w + 1].parent = w
          /\ workflows'[w + 1].revision = workflows'[w].revision + 1
    <3> TAKE w \in WorkflowId \ {Len(workflows)}
    <3>1. w + 1 \in WorkflowId
      BY <1>1 DEF WorkflowId
    <3> QED
      BY <3>1 DEF CampaignFollowsWorkflow, Unwritten
  <2> QED
    BY <1>1, <2>3, <2>4 DEF CampaignFollowsWorkflow, Unwritten
<1>7. ApprovedContentPassed => ApprovedContentPassed'
  BY <1>5 DEF ApprovedContentPassed, Unwritten
<1>8. EventsTellOutcome => EventsTellOutcome'
  <2>1. \A v \in WorkflowId : Heard(workflows'[v], v) = Heard(workflows[v], v)
    BY DEF Unwritten, Heard
  <2> QED
    BY <1>1, <1>5, <2>1 DEF EventsTellOutcome, Heard
<1>9. ShownInv => ShownInv'
  BY <1>1 DEF ShownInv
<1> QED
  BY <1>4, <1>5, <1>6, <1>7, <1>8, <1>9 DEF TaleInv

\* A counted LLM turn is such a step.
LEMMA ReservationWrites ==
  ASSUME TypeInv, NEW r \in Runner, CommitReservation(r)
  PROVE  Unwritten /\ UNCHANGED <<campaign, read>>
<1>1. /\ At(r, "reserve") /\ ~At(r, "idle")
      /\ UNCHANGED <<campaign, events, approvals, read>>
  BY DEF CommitReservation, At
<1>2. /\ runner[r].wf \in WorkflowId /\ WorkflowsOK /\ Row(r) \in WorkflowRow
      /\ runner[r].hint \in WorkflowRow
  BY <1>1, RunnerRow DEF TypeInv, LocalOK, At
<1>3. CASE runner[r].hint.llm >= MaxLLMCalls
  BY <1>1, <1>3 DEF CommitReservation, Unwritten
<1>4. CASE ~(runner[r].hint.llm >= MaxLLMCalls)
  <2> DEFINE n == runner[r].hint.llm + 1
             row == [Row(r) EXCEPT !.llm = n]
  <2>1. n \in 0..MaxLLMCalls
    BY <1>2, <1>4, WorkflowAssumption DEF WorkflowRow
  <2> HIDE DEF n
  <2>2. /\ row \in WorkflowRow /\ row.status = Row(r).status /\ row.done = Row(r).done
        /\ row.parent = Row(r).parent /\ row.revision = Row(r).revision
        /\ row.retries = Row(r).retries
    BY <1>2, <2>1 DEF WorkflowRow
  <2>3. workflows' = [workflows EXCEPT ![runner[r].wf] = row]
    BY <1>4 DEF CommitReservation, Row, n
  <2> HIDE DEF row
  <2>4. /\ Len(workflows') = Len(workflows) /\ workflows'[runner[r].wf] = row
        /\ \A v \in WorkflowId \ {runner[r].wf} : workflows'[v] = workflows[v]
    BY <1>2, <2>2, <2>3, RowMoves
  <2> QED
    BY <1>1, <1>2, <2>2, <2>4 DEF Unwritten, Row
<1> QED
  BY <1>3, <1>4

\* The reviewer's page holds as long as its workflow is not written.
LEMMA PageStays ==
  ASSUME TypeInv, Unwritten, read' \in {read, NoRow}, PageInv
  PROVE  PageInv'
<1> SUFFICES ASSUME read' # NoRow, ~Decided(read.wf)'
             PROVE  workflows'[read'.wf].status = "PENDING_APPROVAL" /\ campaign'.draft = read'.draft
  BY DEF PageInv
<1>1. read' = read /\ read # NoRow /\ read.wf \in WorkflowId /\ ~Decided(read.wf)
  BY DEF Unwritten, Decided, TypeInv, ReadOK
<1> QED
  BY <1>1 DEF PageInv, Unwritten

LEMMA RowsStory ==
  ASSUME TypeInv, StoryInv, [Next]_cwVars
  PROVE  RowsInv' /\ (Rerun' \/ TaleInv')
<1>1. FreshHint /\ CarriesDraft /\ RowsInv /\ DecidedInv /\ (Rerun \/ TaleInv)
  BY DEF StoryInv, RowsInv
<1>2. ASSUME NEW w, NEW next, Moved(w, next) PROVE RowsInv' /\ (Rerun' \/ TaleInv')
  BY <1>1, <1>2, MovedRerun, MovedRows, MovedTale
<1>3. ASSUME NEW d, Ruled(d) PROVE RowsInv' /\ (Rerun' \/ TaleInv')
  BY <1>1, <1>3, RuledRerun, RuledRows, RuledTale
<1>4. ASSUME NEW row, Created(row) PROVE RowsInv' /\ (Rerun' \/ TaleInv')
  BY <1>1, <1>4, CreatedRerun, CreatedRows, CreatedTale
<1>5. ASSUME Unwritten, PageInv' \/ Rerun PROVE RowsInv' /\ (Rerun' \/ TaleInv')
  BY <1>1, <1>5, UnwrittenKeeps
<1>6. ASSUME UNCHANGED <<campaign, workflows, events, approvals, read>>
      PROVE  RowsInv' /\ (Rerun' \/ TaleInv')
  <2>1. Unwritten
    BY <1>6 DEF Unwritten
  <2> QED
    BY <1>1, <1>5, <1>6, <2>1, PageStays DEF TaleInv
<1>7. CASE EditCampaign
  <2>1. Unwritten /\ UNCHANGED read
    BY <1>7 DEF EditCampaign, Unwritten, TypeInv, CampaignOK, CampaignRow
  <2> QED
    BY <1>1, <1>5, <2>1, PageStays DEF TaleInv
<1>8. CASE ReadCampaign
  <2>1. Unwritten
    BY <1>8 DEF ReadCampaign, rows, Unwritten
  <2>2. PageInv'
    BY <1>8 DEF ReadCampaign, rows, PageInv
  <2> QED
    BY <1>5, <2>1, <2>2
<1>9. ASSUME NEW d \in {"APPROVED", "REJECTED", "REVISION_REQUIRED"}, Decide(d)
      PROVE  RowsInv' /\ (Rerun' \/ TaleInv')
  <2>1. CASE Ruled(d)
    BY <1>3, <2>1
  <2>2. CASE UNCHANGED <<campaign, workflows, approvals, events, runner>> /\ read' \in {read, NoRow}
    <3>1. Unwritten
      BY <2>2 DEF Unwritten
    <3> QED
      BY <1>1, <1>5, <2>2, <3>1, PageStays DEF TaleInv
  <2> QED
    BY <1>9, <2>1, <2>2, DecideRules
<1>10. ASSUME NEW r \in Runner, RunnerStep(r) \/ Cancel(r) \/ Crash(r)
       PROVE  RowsInv' /\ (Rerun' \/ TaleInv')
  <2>1. CASE Commit(r) \/ PersistFailure(r)
    BY <1>1, <1>2, <1>6, <2>1, RunnerWrites
  <2>2. CASE ~(Commit(r) \/ PersistFailure(r)) /\ ~CommitReservation(r)
    <3>1. UNCHANGED <<campaign, workflows, events, approvals, read>>
      BY <1>10, <2>2 DEF RunnerStep, LoadSnapshot, FinishJob, StartAgent, ReadReservation,
         CompleteAgent, FailAgent, ReadHint, RecordFeedback, ReadFailure, Cancel, Crash, rows
    <3> QED
      BY <1>6, <3>1
  <2>3. CASE CommitReservation(r)
    <3>1. Unwritten /\ UNCHANGED read
      BY <2>3, ReservationWrites
    <3> QED
      BY <1>1, <1>5, <3>1, PageStays DEF TaleInv
  <2> QED
    BY <1>10, <2>1, <2>2, <2>3
<1>11. ASSUME NEW r \in Runner, NEW w \in 1..WorkflowLimit, Lease(r, w)
       PROVE  RowsInv' /\ (Rerun' \/ TaleInv')
  BY <1>6, <1>11 DEF Lease, rows
<1>12. CASE CreateWorkflow
  BY <1>4, <1>12, CreateRows
<1>13. CASE UNCHANGED cwVars
  BY <1>6, <1>13 DEF cwVars, rows
<1> QED
  BY <1>7, <1>8, <1>9, <1>10, <1>11, <1>12, <1>13 DEF Next

-----------------------------------------------------------------------------
(* What the runner holds, with one worker.                                  *)

\* One runner moves: what it then holds is what counts.
LEMMA WorkerHolds ==
  ASSUME NEW worker, Runner = {worker}, TypeInv, NEW x, runner' = [runner EXCEPT ![worker] = x],
         UNCHANGED workflows,
         x.pc \in {"commit", "persist"} =>
           x.hint.status \in {workflows[x.wf].status, "PENDING_APPROVAL"},
         \/ x.pc \in AgentPc \cup {"save"}
         \/ x.pc = "commit" /\ x.seen \in DOMAIN Specialist
         => x.draft = campaign'.draft /\ (x.seen = "REVIEWING" => campaign'.draft > 0)
  PROVE  FreshHint' /\ CarriesDraft'
<1>1. \A r \in Runner : runner'[r] = x
  BY DEF TypeInv, RunnersOK
<1>2. FreshHint'
  BY <1>1 DEF FreshHint, Row
<1>3. CarriesDraft'
  BY <1>1 DEF CarriesDraft
<1> QED
  BY <1>2, <1>3

\* A runner between two checkpoints, or without a workflow, holds nothing.
LEMMA HoldsNothing ==
  ASSUME NEW worker, Runner = {worker}, TypeInv,
         \/ Stop(worker)
         \/ \E pc \in {"load", "return", "record", "fail"} : Goto(worker, pc)
         \/ \E w \in 1..WorkflowLimit : Lease(worker, w)
         \/ LoadSnapshot(worker)
  PROVE  FreshHint' /\ CarriesDraft'
<1>1. \A r \in Runner : runner'[r].pc \in {"idle", "load", "return", "record", "fail", "act"}
  <2>1. ASSUME NEW y, runner' = [runner EXCEPT ![worker] = y]
        PROVE  \A r \in Runner : runner'[r] = y
    BY <2>1 DEF TypeInv, RunnersOK
  <2>2. CASE Stop(worker)
    BY <2>1, <2>2 DEF Stop, Idle
  <2>3. ASSUME NEW pc \in {"load", "return", "record", "fail"}, Goto(worker, pc)
        PROVE  \A r \in Runner : runner'[r].pc = pc
    <3> DEFINE y == [Idle EXCEPT !.pc = pc, !.wf = runner[worker].wf]
    <3>1. y.pc = pc
      BY DEF Idle
    <3> QED
      BY <2>1, <2>3, <3>1 DEF Goto
  <2>4. ASSUME NEW w \in 1..WorkflowLimit, Lease(worker, w)
        PROVE  \A r \in Runner : runner'[r].pc = "load"
    <3> DEFINE y == [Idle EXCEPT !.pc = "load", !.wf = w]
    <3>1. y.pc = "load"
      BY DEF Idle
    <3> QED
      BY <2>1, <2>4, <3>1 DEF Lease
  <2>5. CASE LoadSnapshot(worker)
    <3> DEFINE y == [Idle EXCEPT !.pc = "act", !.wf = runner[worker].wf,
                                 !.seen = Row(worker).status]
    <3>1. Goto(worker, "return") \/ runner' = [runner EXCEPT ![worker] = y]
      BY <2>5 DEF LoadSnapshot
    <3>2. y.pc = "act"
      BY DEF Idle
    <3> HIDE DEF y
    <3> QED
      BY <2>1, <2>3, <3>1, <3>2
  <2> QED
    BY <2>2, <2>3, <2>4, <2>5
<1> QED
  BY <1>1 DEF FreshHint, CarriesDraft, AgentPc

LEMMA HoldsNext ==
  ASSUME NEW worker, Runner = {worker}, TypeInv, FreshHint, CarriesDraft, [Next]_cwVars
  PROVE  FreshHint' /\ CarriesDraft'
<1> DEFINE x == runner[worker]
<1>1. ~At(worker, "idle") =>
        x \in Local /\ LocalOK(x, Len(workflows)) /\ x.wf \in WorkflowId
  BY RunnerRow
<1>2. campaign.draft \in Nat
  BY DEF TypeInv, CampaignOK, CampaignRow
<1>3. ASSUME NEW y, runner' = [runner EXCEPT ![worker] = y], UNCHANGED <<campaign, workflows>>,
             y.pc \in {"commit", "persist"} =>
               y.hint.status \in {workflows[y.wf].status, "PENDING_APPROVAL"},
             \/ y.pc \in AgentPc \cup {"save"}
             \/ y.pc = "commit" /\ y.seen \in DOMAIN Specialist
             => y.draft = campaign.draft /\ (y.seen = "REVIEWING" => campaign.draft > 0)
      PROVE  FreshHint' /\ CarriesDraft'
  BY <1>3, WorkerHolds
<1>4. CASE \E w \in 1..WorkflowLimit : Lease(worker, w)
  BY <1>4, HoldsNothing
<1>5. CASE StartAgent(worker)
  <2> DEFINE y == [x EXCEPT !.pc = "agent", !.draft = campaign.draft]
  <2>1. CASE Goto(worker, "fail")
    BY <2>1, HoldsNothing
  <2>2. CASE ~Goto(worker, "fail")
    <3>1. /\ runner' = [runner EXCEPT ![worker] = y] /\ UNCHANGED <<campaign, workflows>>
          /\ x.seen = "REVIEWING" => campaign.draft # 0
          /\ ~At(worker, "idle")
      BY <1>5, <2>2 DEF StartAgent, At
    <3>2. y.pc = "agent" /\ y.draft = campaign.draft /\ y.seen = x.seen
      BY <1>1, <3>1 DEF Local
    <3>3. x.seen = "REVIEWING" => campaign.draft > 0
      BY <1>2, <3>1
    <3> HIDE DEF x, y
    <3> QED
      BY <1>3, <3>1, <3>2, <3>3
  <2> QED
    BY <2>1, <2>2
<1>6. CASE ReadReservation(worker) \/ CompleteAgent(worker)
  <2>1. /\ x.pc \in AgentPc /\ ~At(worker, "idle") /\ UNCHANGED <<campaign, workflows>>
        /\ \/ runner' = [runner EXCEPT ![worker] = [x EXCEPT !.pc = "reserve", !.hint = Row(worker)]]
           \/ \E v \in Verdict :
                runner' = [runner EXCEPT ![worker] = [x EXCEPT !.pc = "save", !.verdict = v]]
    BY <1>6 DEF ReadReservation, CompleteAgent, At, AgentPc, rows
  <2>2. x.draft = campaign.draft /\ (x.seen = "REVIEWING" => campaign.draft > 0)
    BY <2>1 DEF CarriesDraft
  <2>3. \E y : /\ runner' = [runner EXCEPT ![worker] = y] /\ y.pc \in {"reserve", "save"}
               /\ y.draft = x.draft /\ y.seen = x.seen
    <3>1. CASE runner' = [runner EXCEPT ![worker] = [x EXCEPT !.pc = "reserve", !.hint = Row(worker)]]
      <4> DEFINE y == [x EXCEPT !.pc = "reserve", !.hint = Row(worker)]
      <4>1. y.pc = "reserve" /\ y.draft = x.draft /\ y.seen = x.seen
        BY <1>1, <2>1 DEF Local
      <4> QED
        BY <3>1, <4>1
    <3>2. ASSUME NEW v \in Verdict,
                 runner' = [runner EXCEPT ![worker] = [x EXCEPT !.pc = "save", !.verdict = v]]
          PROVE  \E y : /\ runner' = [runner EXCEPT ![worker] = y] /\ y.pc \in {"reserve", "save"}
                       /\ y.draft = x.draft /\ y.seen = x.seen
      <4> DEFINE y == [x EXCEPT !.pc = "save", !.verdict = v]
      <4>1. y.pc = "save" /\ y.draft = x.draft /\ y.seen = x.seen
        BY <1>1, <2>1 DEF Local
      <4> QED
        BY <3>2, <4>1
    <3> QED
      BY <2>1, <3>1, <3>2
  <2> QED
    BY <1>3, <2>1, <2>2, <2>3
<1>7. CASE CommitReservation(worker)
  <2>1. CASE Goto(worker, "fail")
    BY <2>1, HoldsNothing
  <2>2. CASE ~Goto(worker, "fail")
    <3> DEFINE y == [x EXCEPT !.pc = "answer", !.hint = NoRow]
    <3>1. /\ runner' = [runner EXCEPT ![worker] = y] /\ UNCHANGED campaign
          /\ x.pc = "reserve" /\ ~At(worker, "idle")
      BY <1>7, <2>2 DEF CommitReservation, At
    <3>2. y.pc = "answer" /\ y.draft = x.draft /\ y.seen = x.seen
      BY <1>1, <3>1 DEF Local
    <3>3. x.draft = campaign.draft /\ (x.seen = "REVIEWING" => campaign.draft > 0)
      BY <3>1 DEF CarriesDraft, AgentPc
    <3>4. \A r \in Runner : runner'[r] = y
      BY <3>1 DEF TypeInv, RunnersOK
    <3> HIDE DEF y
    <3> QED
      BY <3>1, <3>2, <3>3, <3>4 DEF FreshHint, CarriesDraft
  <2> QED
    BY <2>1, <2>2
<1>8. CASE ReadHint(worker) \/ ReadFailure(worker)
  <2>1. /\ ~At(worker, "idle") /\ UNCHANGED <<campaign, workflows>>
        /\ x.pc \in {"act", "save", "fail"} /\ (x.pc = "act" => x.seen \in DOMAIN Advance)
    BY <1>8 DEF ReadHint, ReadFailure, At, rows
  <2>2. \E pc \in {"commit", "persist"} :
          /\ runner' = [runner EXCEPT ![worker] = [x EXCEPT !.pc = pc, !.hint = Row(worker)]]
          /\ pc = "commit" => x.pc # "fail"
    BY <1>8 DEF ReadHint, ReadFailure, At
  <2>3. PICK pc \in {"commit", "persist"} :
          /\ runner' = [runner EXCEPT ![worker] = [x EXCEPT !.pc = pc, !.hint = Row(worker)]]
          /\ pc = "commit" => x.pc # "fail"
    BY <2>2
  <2> DEFINE y == [x EXCEPT !.pc = pc, !.hint = Row(worker)]
  <2>4. /\ runner' = [runner EXCEPT ![worker] = y] /\ y.pc = pc /\ y.draft = x.draft
        /\ y.seen = x.seen /\ y.wf = x.wf /\ y.hint = workflows[x.wf]
    BY <1>1, <2>1, <2>3 DEF Local, Row
  <2>5. y.pc = "commit" /\ y.seen \in DOMAIN Specialist => x.pc = "save"
    BY <2>1, <2>3, <2>4, Domains
  <2> HIDE DEF y
  <2> QED
    <3>1. y.hint.status = workflows[y.wf].status
      BY <2>4
    <3>2. y.pc \notin AgentPc \cup {"save"}
      BY <2>4 DEF AgentPc
    <3>3. y.pc = "commit" /\ y.seen \in DOMAIN Specialist =>
            y.draft = campaign.draft /\ (y.seen = "REVIEWING" => campaign.draft > 0)
      BY <2>1, <2>4, <2>5 DEF CarriesDraft
    <3> HIDE DEF x
    <3> QED
      BY <1>3, <2>1, <2>4, <3>1, <3>2, <3>3
<1>9. CASE LoadSnapshot(worker) \/ FinishJob(worker) \/ FailAgent(worker) \/ RecordFeedback(worker)
           \/ PersistFailure(worker) \/ Cancel(worker) \/ Crash(worker) \/ Commit(worker)
  <2>1. \/ Stop(worker) \/ LoadSnapshot(worker)
        \/ Goto(worker, "fail") \/ Goto(worker, "load") \/ Goto(worker, "record")
    BY <1>9 DEF FinishJob, FailAgent, RecordFeedback, PersistFailure, Cancel, Crash, Commit
  <2> QED
    BY <2>1, HoldsNothing
<1>10. ASSUME NEW r \in Runner, RunnerStep(r) \/ Cancel(r) \/ Crash(r)
       PROVE  FreshHint' /\ CarriesDraft'
  BY <1>5, <1>6, <1>7, <1>8, <1>9, <1>10 DEF RunnerStep
<1>11. ASSUME UNCHANGED runner, campaign'.draft = campaign.draft,
              ~At(worker, "idle") => workflows'[x.wf].status = workflows[x.wf].status
                                     \/ workflows[x.wf].status = "PENDING_APPROVAL"
       PROVE  FreshHint' /\ CarriesDraft'
  <2>1. CarriesDraft'
    BY <1>11 DEF CarriesDraft
  <2>2. FreshHint'
    BY <1>11 DEF FreshHint, Row, At
  <2> QED
    BY <2>1, <2>2
<1>12. CASE CreateWorkflow
  <2>1. PICK row : Created(row)
    BY <1>12, CreateRows
  <2> QED
    BY <1>1, <1>11, <2>1 DEF Created
<1>13. CASE EditCampaign \/ ReadCampaign \/ UNCHANGED cwVars
  <2>1. UNCHANGED <<runner, workflows>> /\ campaign'.draft = campaign.draft
    BY <1>13 DEF EditCampaign, ReadCampaign, cwVars, rows, TypeInv, CampaignOK, CampaignRow
  <2> QED
    BY <1>11, <2>1
<1>14. ASSUME NEW d \in {"APPROVED", "REJECTED", "REVISION_REQUIRED"}, Decide(d)
       PROVE  FreshHint' /\ CarriesDraft'
  <2>1. CASE Ruled(d)
    <3>1. UNCHANGED runner /\ campaign'.draft = campaign.draft
      BY <2>1 DEF Ruled
    <3>2. ~At(worker, "idle") => workflows'[x.wf].status = workflows[x.wf].status
                                 \/ workflows[x.wf].status = "PENDING_APPROVAL"
      BY <1>1, <2>1 DEF Ruled
    <3> QED
      BY <1>11, <3>1, <3>2
  <2>2. CASE UNCHANGED <<campaign, workflows, runner>>
    BY <1>11, <2>2
  <2> QED
    BY <1>14, <2>1, <2>2, DecideRules
<1> QED
  BY <1>4, <1>10, <1>12, <1>13, <1>14 DEF Next

-----------------------------------------------------------------------------
(* The theorems.  With several runners on one workflow a stale hint moves a *)
(* decided workflow, so they are about one worker.                          *)

LEMMA StoryInit == Init => StoryInv
<1> SUFFICES ASSUME Init PROVE StoryInv
  OBVIOUS
<1>1. WorkflowId = {} /\ approvals = {}
  BY DEF Init, WorkflowId
<1>2. \A r \in Runner : runner[r].pc = "idle"
  BY DEF Init, Idle
<1>3. FreshHint /\ CarriesDraft
  BY <1>2 DEF FreshHint, CarriesDraft, AgentPc
<1>4. RowsInv
  BY <1>1 DEF RowsInv, ClosedInv, DecidedInv, AnalysedInv, RetriedInv
<1>5. CampaignFollowsWorkflow /\ EventsTellOutcome /\ PageInv /\ ShownInv
  BY <1>1 DEF Init, CampaignFollowsWorkflow, EventsTellOutcome, PageInv, ShownInv
<1>6. ApprovedContentPassed
  BY DEF Init, ApprovedContentPassed
<1> QED
  BY <1>3, <1>4, <1>5, <1>6 DEF StoryInv, TaleInv

LEMMA StoryNext ==
  ASSUME NEW worker, Runner = {worker}, TypeInv, StoryInv, [Next]_cwVars
  PROVE  StoryInv'
<1>1. RowsInv' /\ (Rerun' \/ TaleInv')
  BY RowsStory
<1>2. FreshHint' /\ CarriesDraft'
  BY HoldsNext DEF StoryInv
<1> QED
  BY <1>1, <1>2 DEF StoryInv

LEMMA StoryHolds ==
  ASSUME NEW worker, Runner = {worker}
  PROVE  Spec => []StoryInv
<1>1. TypeInv /\ StoryInv /\ [Next]_cwVars => StoryInv'
  BY StoryNext
<1> QED
  BY <1>1, StoryInit, TypeInit, TypeNext, PTL DEF Spec

\* A campaign and its newest workflow move together, and every older workflow
\* was closed for revision (the checkpoints, ApprovalService.decide and
\* WorkflowService.create_workflow each write both rows or neither).
THEOREM CampaignFollows ==
  ASSUME NEW worker, Runner = {worker}
  PROVE  Spec => []CampaignFollowsWorkflow
<1>1. StoryInv => CampaignFollowsWorkflow
  BY DEF StoryInv, TaleInv, CampaignFollowsWorkflow
<1> QED
  BY <1>1, StoryHolds, PTL

\* A workflow's outcome is announced exactly when the workflow has it
\* (save_review and _persist_failure, each after an unlocked read).
THEOREM EventsAreTrue ==
  ASSUME NEW worker, Runner = {worker}
  PROVE  Spec => []EventsTellOutcome
<1>1. StoryInv => EventsTellOutcome
  BY DEF StoryInv, TaleInv, EventsTellOutcome
<1> QED
  BY <1>1, StoryHolds, PTL

\* A workflow has one decision, made on what the reviewer read, and a decision
\* to approve or reject is final (ApprovalService.decide).
THEOREM DecisionsHold ==
  ASSUME NEW worker, Runner = {worker}
  PROVE  Spec => []DecisionsStand
<1>1. StoryInv => DecisionsStand
  BY DEF StoryInv, TaleInv, RowsInv, DecidedInv, ShownInv, DecisionsStand
<1> QED
  BY <1>1, StoryHolds, PTL

-----------------------------------------------------------------------------
(* The campaign's retry counter.  A retry is counted twice, in the campaign *)
(* from its current value and in the workflow from the hint: the two agree  *)
(* because the only runner's hint has the row's count (FreshRetries).       *)

Used == [w \in WorkflowId |-> workflows[w].retries]
SumInv == campaign.retries = SumFunctionOnSet(Used, WorkflowId)
FreshRetries == \A r \in Runner : At(r, "commit") => runner[r].hint.retries = Row(r).retries

\* What a step does to the counters: nothing, a new workflow, or one retry.
SameRetries ==
  /\ Len(workflows') = Len(workflows) /\ campaign'.retries = campaign.retries
  /\ \A v \in WorkflowId : workflows'[v].retries = workflows[v].retries
Retried(w) ==
  /\ w \in WorkflowId
  /\ Len(workflows') = Len(workflows) /\ campaign'.retries = campaign.retries + 1
  /\ workflows'[w].retries = workflows[w].retries + 1
  /\ \A v \in WorkflowId \ {w} : workflows'[v].retries = workflows[v].retries

LEMMA UsedTyped ==
  ASSUME TypeInv
  PROVE  /\ IsFiniteSet(WorkflowId) /\ Len(workflows) \in Nat
         /\ \A w \in WorkflowId : workflows[w].retries \in Int /\ Used[w] = workflows[w].retries
<1>1. workflows \in Seq(WorkflowRow) /\ Len(workflows) \in Nat
  BY DEF TypeInv, WorkflowsOK
<1>2. IsFiniteSet(1..Len(workflows))
  BY <1>1, FS_Interval
<1>3. \A w \in WorkflowId : workflows[w].retries \in Int
  <2>1. \A row \in WorkflowRow : row.retries \in Int
    BY DEF WorkflowRow
  <2>2. \A w \in WorkflowId : workflows[w] \in WorkflowRow
    BY <1>1 DEF WorkflowId
  <2> QED
    BY <2>1, <2>2
<1> QED
  BY <1>1, <1>2, <1>3 DEF Used, WorkflowId

LEMMA SameSum == ASSUME TypeInv, SumInv, SameRetries PROVE SumInv'
<1>1. WorkflowId' = WorkflowId
  BY DEF SameRetries, WorkflowId
<1>2. /\ IsFiniteSet(WorkflowId)
      /\ \A w \in WorkflowId : Used[w] \in Int /\ Used'[w] = Used[w]
  BY <1>1, UsedTyped DEF SameRetries, Used
<1>3. SumFunctionOnSet(Used, WorkflowId) = SumFunctionOnSet(Used', WorkflowId)
  BY <1>2, SumSame
<1> QED
  BY <1>1, <1>3 DEF SumInv, SameRetries

LEMMA RetriedSum == ASSUME TypeInv, SumInv, NEW w, Retried(w) PROVE SumInv'
<1>1. WorkflowId' = WorkflowId /\ w \in WorkflowId
  BY DEF Retried, WorkflowId
<1>2. /\ IsFiniteSet(WorkflowId)
      /\ \A v \in WorkflowId : Used[v] \in Int
      /\ \A v \in WorkflowId \ {w} : Used'[v] = Used[v]
      /\ Used'[w] = Used[w] + 1
  BY <1>1, UsedTyped DEF Retried, Used
<1>3. SumFunctionOnSet(Used', WorkflowId) = SumFunctionOnSet(Used, WorkflowId) + 1
  BY <1>1, <1>2, SumUpdate
<1> QED
  BY <1>1, <1>3 DEF SumInv, Retried

LEMMA CreatedSum == ASSUME TypeInv, SumInv, NEW row, Created(row) PROVE SumInv'
<1> DEFINE n == Len(workflows) + 1
<1>1. /\ IsFiniteSet(WorkflowId) /\ Len(workflows) \in Nat
      /\ \A v \in WorkflowId : Used[v] \in Int /\ Used[v] = workflows[v].retries
  BY UsedTyped
<1>2. WorkflowId' = WorkflowId \cup {n} /\ n \notin WorkflowId
  BY <1>1 DEF Created, WorkflowId
<1>3. /\ \A v \in WorkflowId : Used'[v] = Used[v]
      /\ Used'[n] = 0
  BY <1>1, <1>2 DEF Created, Used
<1> HIDE DEF n
<1>4. \A v \in WorkflowId \cup {n} : Used'[v] \in Int
  BY <1>1, <1>3
<1>5. SumFunctionOnSet(Used', WorkflowId \cup {n})
        = SumFunctionOnSet(Used', WorkflowId) + Used'[n]
  BY <1>1, <1>2, <1>4, SumAdd
<1>6. /\ SumFunctionOnSet(Used, WorkflowId) = SumFunctionOnSet(Used', WorkflowId)
      /\ SumFunctionOnSet(Used, WorkflowId) \in Int
  BY <1>1, <1>3, SumSame, SumInt
<1>7. UNCHANGED campaign
  BY DEF Created
<1> QED
  BY <1>2, <1>3, <1>5, <1>6, <1>7 DEF SumInv

\* The checkpoint of a runner with a fresh hint.
LEMMA CheckpointCounts ==
  ASSUME TypeInv, FreshRetries, NEW r \in Runner, Commit(r)
  PROVE  SameRetries \/ Retried(runner[r].wf)
<1>1. /\ At(r, "commit") /\ ~At(r, "idle")
  BY DEF Commit, At
<1>2. /\ runner[r].wf \in WorkflowId /\ Row(r) \in WorkflowRow /\ WorkflowsOK
      /\ runner[r].seen \in DOMAIN Advance \cup DOMAIN Specialist
      /\ runner[r].seen \in Status /\ campaign \in CampaignRow
      /\ runner[r].hint.retries = Row(r).retries
  BY <1>1, RunnerRow, Domains DEF LocalOK, At, TypeInv, CampaignOK, FreshRetries
<1> DEFINE w == runner[r].wf
<1>3. CASE ~Expected(r)
  BY <1>3 DEF Commit, SameRetries
<1>4. ASSUME NEW next, NEW c \in CampaignRow, Move(r, next, c), c.retries = campaign.retries
      PROVE  SameRetries
  <2>1. /\ Len(workflows') = Len(workflows)
        /\ \A v \in WorkflowId \ {w} : workflows'[v] = workflows[v]
        /\ workflows'[w] = [Row(r) EXCEPT !.status = next]
        /\ campaign' = [c EXCEPT !.status = next]
    BY <1>1, <1>2, <1>4, MoveRow
  <2>2. workflows'[w].retries = Row(r).retries /\ campaign'.retries = c.retries
    BY <1>2, <1>4, <2>1 DEF WorkflowRow, CampaignRow
  <2> QED
    BY <1>4, <2>1, <2>2 DEF SameRetries, Row
<1>5. /\ campaign \in CampaignRow
      /\ [campaign EXCEPT !.analysis = TRUE] \in CampaignRow
      /\ [campaign EXCEPT !.analysis = TRUE].retries = campaign.retries
      /\ [campaign EXCEPT !.draft = @ + 1] \in CampaignRow
      /\ [campaign EXCEPT !.draft = @ + 1].retries = campaign.retries
  <2>1. campaign.draft + 1 \in Nat
    BY <1>2 DEF CampaignRow
  <2> DEFINE k == campaign.draft + 1
  <2> HIDE DEF k
  <2>2. /\ [campaign EXCEPT !.draft = k] \in CampaignRow
        /\ [campaign EXCEPT !.draft = k].retries = campaign.retries
    BY <1>2, <2>1 DEF CampaignRow, k
  <2>3. /\ [campaign EXCEPT !.analysis = TRUE] \in CampaignRow
        /\ [campaign EXCEPT !.analysis = TRUE].retries = campaign.retries
    BY <1>2 DEF CampaignRow
  <2> QED
    BY <1>2, <2>2, <2>3 DEF k
<1>6. CASE Expected(r) /\ runner[r].seen # "REVIEWING"
  <2>1. \/ Move(r, Advance[runner[r].seen], campaign)
        \/ Move(r, "GENERATING", [campaign EXCEPT !.analysis = TRUE])
        \/ Move(r, "REVIEWING", [campaign EXCEPT !.draft = @ + 1])
    BY <1>2, <1>6, Domains DEF Commit, Save
  <2> QED
    BY <1>4, <1>5, <2>1
<1>7. CASE Expected(r) /\ runner[r].seen = "REVIEWING"
  <2>1. SaveReview(r)
    BY <1>7, Domains DEF Commit, Save
  <2>2. /\ runner[r].verdict \in Verdict /\ runner[r].draft \in Nat
        /\ runner[r].hint.retries \in Nat
    BY <1>1, <1>2, <1>7, RunnerRow, Domains DEF LocalOK, At, Local, WorkflowRow
  <2>3. Judged(r) \in CampaignRow /\ Judged(r).retries = campaign.retries
    BY <1>2, <2>2 DEF Judged, CampaignRow
  <2>4. CASE Outcome(r) # "GENERATING"
    BY <1>4, <2>1, <2>3, <2>4 DEF SaveReview
  <2>5. CASE Outcome(r) = "GENERATING"
    <3> DEFINE k == runner[r].hint.retries + 1
               row == [Row(r) EXCEPT !.status = "GENERATING", !.retries = k]
               c == Judged(r)
    <3>1. k \in Nat /\ k = Row(r).retries + 1 /\ "GENERATING" \in Status
      BY <1>2, <2>2, Domains
    <3>2. /\ workflows' = [workflows EXCEPT ![w] = row]
          /\ campaign' = [c EXCEPT !.status = "GENERATING", !.retries = @ + 1]
      BY <2>1, <2>5 DEF SaveReview, Row
    <3> HIDE DEF k, c
    <3>3. row \in WorkflowRow /\ row.retries = k
      BY <1>2, <3>1 DEF WorkflowRow
    <3>4. campaign'.retries = campaign.retries + 1
      BY <2>3, <3>2 DEF CampaignRow, c
    <3> HIDE DEF row
    <3>5. /\ Len(workflows') = Len(workflows) /\ workflows'[w] = row
          /\ \A v \in WorkflowId \ {w} : workflows'[v] = workflows[v]
      BY <1>2, <3>2, <3>3, RowMoves
    <3>6. Retried(w)
      BY <1>2, <3>1, <3>3, <3>4, <3>5 DEF Retried, Row
    <3> QED
      BY <3>6
  <2> QED
    BY <2>4, <2>5
<1> QED
  BY <1>3, <1>6, <1>7

LEMMA FailureCounts ==
  ASSUME TypeInv, NEW r \in Runner, PersistFailure(r)
  PROVE  SameRetries
<1>1. At(r, "persist") /\ ~At(r, "idle")
  BY DEF PersistFailure, At
<1>2. runner[r].wf \in WorkflowId /\ Row(r) \in WorkflowRow /\ WorkflowsOK /\ campaign \in CampaignRow
  BY <1>1, RunnerRow DEF TypeInv, CampaignOK
<1>3. CASE ~("FAILED" \in Allowed[runner[r].hint.status])
  BY <1>3 DEF PersistFailure, SameRetries
<1>4. CASE "FAILED" \in Allowed[runner[r].hint.status]
  <2> DEFINE row == [Row(r) EXCEPT !.status = "FAILED", !.done = TRUE]
  <2>1. row \in WorkflowRow /\ row.retries = Row(r).retries
    BY <1>2, Domains DEF WorkflowRow
  <2>2. /\ workflows' = [workflows EXCEPT ![runner[r].wf] = row]
        /\ campaign' = [campaign EXCEPT !.status = "FAILED"]
    BY <1>4 DEF PersistFailure, Row
  <2> HIDE DEF row
  <2>3. /\ Len(workflows') = Len(workflows) /\ workflows'[runner[r].wf] = row
        /\ \A v \in WorkflowId \ {runner[r].wf} : workflows'[v] = workflows[v]
    BY <1>2, <2>1, <2>2, RowMoves
  <2>4. campaign'.retries = campaign.retries
    BY <1>2, <2>2 DEF CampaignRow
  <2> QED
    BY <1>2, <2>1, <2>3, <2>4 DEF SameRetries, Row
<1> QED
  BY <1>3, <1>4

LEMMA DecideCounts ==
  ASSUME TypeInv, NEW d \in {"APPROVED", "REJECTED", "REVISION_REQUIRED"}, Decide(d)
  PROVE  SameRetries
<1>1. campaign'.retries = campaign.retries
  BY DEF Decide, TypeInv, CampaignOK, CampaignRow
<1>2. CASE Ruled(d)
  BY <1>1, <1>2 DEF Ruled, SameRetries
<1>3. CASE UNCHANGED workflows
  BY <1>1, <1>3 DEF SameRetries
<1> QED
  BY <1>2, <1>3, DecideRules

LEMMA StepCounts ==
  ASSUME TypeInv, FreshRetries, [Next]_cwVars
  PROVE  SameRetries \/ (\E row : Created(row)) \/ (\E w : Retried(w))
<1>1. ASSUME UNCHANGED <<campaign, workflows>> PROVE SameRetries
  BY <1>1 DEF SameRetries
<1>2. CASE CreateWorkflow
  BY <1>2, CreateRows
<1>3. CASE EditCampaign
  BY <1>3 DEF EditCampaign, SameRetries, TypeInv, CampaignOK, CampaignRow
<1>4. CASE ReadCampaign \/ UNCHANGED cwVars
  BY <1>1, <1>4 DEF ReadCampaign, rows, cwVars
<1>5. ASSUME NEW d \in {"APPROVED", "REJECTED", "REVISION_REQUIRED"}, Decide(d) PROVE SameRetries
  BY <1>5, DecideCounts
<1>6. ASSUME NEW r \in Runner, RunnerStep(r) \/ Cancel(r) \/ Crash(r)
      PROVE  SameRetries \/ (\E w : Retried(w))
  <2>1. CASE LoadSnapshot(r) \/ FinishJob(r) \/ StartAgent(r) \/ ReadReservation(r)
    BY <1>1, <2>1 DEF LoadSnapshot, FinishJob, StartAgent, ReadReservation, rows
  <2>2. CASE CompleteAgent(r) \/ FailAgent(r) \/ ReadHint(r) \/ RecordFeedback(r) \/ ReadFailure(r)
    BY <1>1, <2>2 DEF CompleteAgent, FailAgent, ReadHint, RecordFeedback, ReadFailure, rows
  <2>3. CASE Cancel(r) \/ Crash(r)
    BY <1>1, <2>3 DEF Cancel, Crash, rows
  <2>4. CASE CommitReservation(r)
    BY <2>4, ReservationWrites DEF Unwritten, SameRetries
  <2>5. CASE Commit(r)
    BY <2>5, CheckpointCounts
  <2>6. CASE PersistFailure(r)
    BY <2>6, FailureCounts
  <2> QED
    BY <1>6, <2>1, <2>2, <2>3, <2>4, <2>5, <2>6 DEF RunnerStep
<1>7. ASSUME NEW r \in Runner, NEW w \in 1..WorkflowLimit, Lease(r, w) PROVE SameRetries
  BY <1>1, <1>7 DEF Lease, rows
<1> QED
  BY <1>2, <1>3, <1>4, <1>5, <1>6, <1>7 DEF Next

\* The worker's own steps reach a checkpoint only by reading the row, and
\* nobody else counts a retry.
LEMMA FreshNext ==
  ASSUME NEW worker, Runner = {worker}, TypeInv, FreshRetries, [Next]_cwVars
  PROVE  FreshRetries'
<1> DEFINE x == runner[worker]
<1>1. ~At(worker, "idle") => x \in Local /\ x.wf \in WorkflowId
  BY RunnerRow
<1>2. runner \in [Runner -> Local]
  BY DEF TypeInv, RunnersOK
<1>3. ASSUME NEW y, runner' = [runner EXCEPT ![worker] = y], y.pc # "commit"
      PROVE  FreshRetries'
  BY <1>2, <1>3 DEF FreshRetries, At
<1>4. ASSUME UNCHANGED runner, \A v \in WorkflowId : workflows'[v].retries = workflows[v].retries
      PROVE  FreshRetries'
  BY <1>1, <1>4 DEF FreshRetries, At, Row
<1>5. ASSUME NEW pc \in {"load", "return", "record", "fail"}, Goto(worker, pc) PROVE FreshRetries'
  <2> DEFINE y == [Idle EXCEPT !.pc = pc, !.wf = x.wf]
  <2>1. runner' = [runner EXCEPT ![worker] = y]
    BY <1>5 DEF Goto
  <2>2. y.pc # "commit"
    BY DEF Idle
  <2> QED
    BY <1>3, <2>1, <2>2
<1>6. ASSUME Stop(worker) PROVE FreshRetries'
  <2>1. runner' = [runner EXCEPT ![worker] = Idle] /\ Idle.pc # "commit"
    BY <1>6 DEF Stop, Idle
  <2> QED
    BY <1>3, <2>1
<1>7. ASSUME NEW w, Lease(worker, w) PROVE FreshRetries'
  <2> DEFINE y == [Idle EXCEPT !.pc = "load", !.wf = w]
  <2>1. runner' = [runner EXCEPT ![worker] = y]
    BY <1>7 DEF Lease
  <2>2. y.pc # "commit"
    BY DEF Idle
  <2> QED
    BY <1>3, <2>1, <2>2
<1>8. CASE LoadSnapshot(worker)
  <2> DEFINE y == [Idle EXCEPT !.pc = "act", !.wf = x.wf, !.seen = Row(worker).status]
  <2>1. Goto(worker, "return") \/ runner' = [runner EXCEPT ![worker] = y]
    BY <1>8 DEF LoadSnapshot
  <2>2. y.pc # "commit"
    BY DEF Idle
  <2> QED
    BY <1>3, <1>5, <2>1, <2>2
<1>9. CASE StartAgent(worker) \/ ReadReservation(worker) \/ CommitReservation(worker)
            \/ CompleteAgent(worker) \/ ReadFailure(worker)
  <2>1. ~At(worker, "idle")
    BY <1>9 DEF StartAgent, ReadReservation, CommitReservation, CompleteAgent, ReadFailure, At
  <2>2. CASE Goto(worker, "fail")
    BY <1>5, <2>2
  <2>3. CASE ~Goto(worker, "fail")
    <3>1. \/ runner' = [runner EXCEPT ![worker] = [x EXCEPT !.pc = "agent", !.draft = campaign.draft]]
          \/ runner' = [runner EXCEPT ![worker] = [x EXCEPT !.pc = "reserve", !.hint = Row(worker)]]
          \/ runner' = [runner EXCEPT ![worker] = [x EXCEPT !.pc = "answer", !.hint = NoRow]]
          \/ \E v \in Verdict :
               runner' = [runner EXCEPT ![worker] = [x EXCEPT !.pc = "save", !.verdict = v]]
          \/ runner' = [runner EXCEPT ![worker] = [x EXCEPT !.pc = "persist", !.hint = Row(worker)]]
      BY <1>9, <2>3
         DEF StartAgent, ReadReservation, CommitReservation, CompleteAgent, ReadFailure
    <3>2. /\ [x EXCEPT !.pc = "agent", !.draft = campaign.draft].pc # "commit"
          /\ [x EXCEPT !.pc = "reserve", !.hint = Row(worker)].pc # "commit"
          /\ [x EXCEPT !.pc = "answer", !.hint = NoRow].pc # "commit"
          /\ \A v \in Verdict : [x EXCEPT !.pc = "save", !.verdict = v].pc # "commit"
          /\ [x EXCEPT !.pc = "persist", !.hint = Row(worker)].pc # "commit"
      BY <1>1, <2>1 DEF Local
    <3> HIDE DEF x
    <3>3. CASE runner' = [runner EXCEPT ![worker] = [x EXCEPT !.pc = "agent", !.draft = campaign.draft]]
      BY <1>3, <3>2, <3>3
    <3>4. CASE runner' = [runner EXCEPT ![worker] = [x EXCEPT !.pc = "reserve", !.hint = Row(worker)]]
      BY <1>3, <3>2, <3>4
    <3>5. CASE runner' = [runner EXCEPT ![worker] = [x EXCEPT !.pc = "answer", !.hint = NoRow]]
      BY <1>3, <3>2, <3>5
    <3>6. ASSUME NEW v \in Verdict,
                 runner' = [runner EXCEPT ![worker] = [x EXCEPT !.pc = "save", !.verdict = v]]
          PROVE  FreshRetries'
      <4> DEFINE y == [x EXCEPT !.pc = "save", !.verdict = v]
      <4>1. runner' = [runner EXCEPT ![worker] = y] /\ y.pc # "commit"
        BY <3>2, <3>6
      <4> HIDE DEF y
      <4> QED
        BY <1>3, <4>1
    <3>7. CASE runner' = [runner EXCEPT ![worker] = [x EXCEPT !.pc = "persist", !.hint = Row(worker)]]
      BY <1>3, <3>2, <3>7
    <3> QED
      BY <3>1, <3>3, <3>4, <3>5, <3>6, <3>7
  <2> QED
    BY <2>2, <2>3
<1>10. CASE ReadHint(worker)
  <2> DEFINE y == [x EXCEPT !.pc = "commit", !.hint = Row(worker)]
  <2>1. runner' = [runner EXCEPT ![worker] = y] /\ ~At(worker, "idle") /\ UNCHANGED workflows
    BY <1>10 DEF ReadHint, At, rows
  <2>2. y.wf = x.wf /\ y.hint = workflows[x.wf]
    BY <1>1, <2>1 DEF Local, Row
  <2>3. runner'[worker] = y
    BY <1>2, <2>1
  <2> HIDE DEF y
  <2> QED
    BY <2>1, <2>2, <2>3 DEF FreshRetries, Row
<1>11. CASE FinishJob(worker) \/ FailAgent(worker) \/ RecordFeedback(worker)
            \/ PersistFailure(worker) \/ Cancel(worker) \/ Crash(worker) \/ Commit(worker)
  <2>1. \/ Stop(worker)
        \/ Goto(worker, "fail") \/ Goto(worker, "load") \/ Goto(worker, "record")
    BY <1>11 DEF FinishJob, FailAgent, RecordFeedback, PersistFailure, Cancel, Crash, Commit
  <2> QED
    BY <1>5, <1>6, <2>1
<1>12. ASSUME NEW r \in Runner, RunnerStep(r) \/ Cancel(r) \/ Crash(r) PROVE FreshRetries'
  BY <1>8, <1>9, <1>10, <1>11, <1>12 DEF RunnerStep
<1>13. CASE CreateWorkflow
  <2>1. PICK row : Created(row)
    BY <1>13, CreateRows
  <2> QED
    BY <1>4, <2>1 DEF Created
<1>14. CASE EditCampaign \/ ReadCampaign \/ UNCHANGED cwVars
  BY <1>4, <1>14 DEF EditCampaign, ReadCampaign, cwVars, rows
<1>15. ASSUME NEW d \in {"APPROVED", "REJECTED", "REVISION_REQUIRED"}, Decide(d)
       PROVE  FreshRetries'
  BY <1>4, <1>15, DecideCounts DEF SameRetries, Decide
<1> QED
  BY <1>7, <1>12, <1>13, <1>14, <1>15 DEF Next

LEMMA RetriesHold ==
  ASSUME NEW worker, Runner = {worker}
  PROVE  Spec => []SumInv
<1>1. Init => SumInv /\ FreshRetries
  <2> SUFFICES ASSUME Init PROVE SumInv /\ FreshRetries
    OBVIOUS
  <2>1. WorkflowId = {} /\ campaign.retries = 0
    BY DEF Init, WorkflowId
  <2>2. SumFunctionOnSet(Used, {}) = 0
    BY SumEmpty
  <2>3. SumInv
    BY <2>1, <2>2 DEF SumInv
  <2>4. FreshRetries
    BY DEF Init, Idle, FreshRetries, At
  <2> QED
    BY <2>3, <2>4
<1>2. TypeInv /\ SumInv /\ FreshRetries /\ [Next]_cwVars => SumInv'
  BY StepCounts, SameSum, CreatedSum, RetriedSum
<1>3. TypeInv /\ FreshRetries /\ [Next]_cwVars => FreshRetries'
  BY FreshNext
<1> QED
  BY <1>1, <1>2, <1>3, TypeInit, TypeNext, PTL DEF Spec

\* What waits for approval or has it is the draft whose review passed, no
\* resumed runner meets a missing input, no workflow retries its content beyond
\* max_content_retries, and the campaign's counter is the sum of its workflows'
\* (run_to_pending_approval and the two counters save_review writes).
THEOREM ContentPassed ==
  ASSUME NEW worker, Runner = {worker}
  PROVE  Spec => []ContentIsReviewed
<1>1. StoryInv => /\ ApprovedContentPassed /\ InputsReady
                  /\ \A w \in WorkflowId : workflows[w].retries <= MaxRetries
  BY DEF StoryInv, TaleInv, RowsInv, AnalysedInv, RetriedInv, ApprovedContentPassed, InputsReady
<1>2. SumInv => campaign.retries = SumFunction([w \in WorkflowId |-> workflows[w].retries])
  BY DEF SumInv, Used, SumFunction
<1>3. StoryInv /\ SumInv => ContentIsReviewed
  BY <1>1, <1>2 DEF ContentIsReviewed, RetriesAccounted
<1> QED
  BY <1>3, StoryHolds, RetriesHold, PTL

-----------------------------------------------------------------------------
(* Any number of workers.  A stale snapshot may move a decided workflow, but *)
(* what it was allowed to start from never stops being true: the analysis    *)
(* and the content are never taken back, and a retry is bounded by the hint. *)

Analysed == {"GENERATING", "REVIEWING", "MANUAL_REVIEW_REQUIRED", "PENDING_APPROVAL",
             "REVISION_REQUIRED"}
HasInput(c, status) ==
  /\ status \in Analysed => c.analysis
  /\ status = "REVIEWING" => c.draft > 0

InputRows == \A w \in WorkflowId : HasInput(campaign, workflows[w].status)
Sees == {"act", "save", "commit"} \cup AgentPc
InputSeen == \A r \in Runner : runner[r].pc \in Sees => HasInput(campaign, runner[r].seen)
InputInv == InputRows /\ InputSeen /\ RetriedInv

\* What a status needed is never taken back.
Keeps == (campaign.analysis => campaign'.analysis) /\ (campaign.draft > 0 => campaign'.draft > 0)

LEMMA InputKept == ASSUME Keeps, NEW s, HasInput(campaign, s) PROVE HasInput(campaign', s)
BY DEF Keeps, HasInput

\* One row written, with a status whose inputs are there and retries in bounds.
WrittenAt(w) ==
  /\ w \in WorkflowId /\ Len(workflows') = Len(workflows) /\ Keeps
  /\ \A v \in WorkflowId \ {w} : workflows'[v] = workflows[v]
  /\ HasInput(campaign', workflows'[w].status)
  /\ workflows'[w].retries <= MaxRetries

LEMMA WrittenRows ==
  ASSUME TypeInv, InputInv, NEW w, WrittenAt(w)
  PROVE  InputRows' /\ RetriedInv'
<1>1. WorkflowId' = WorkflowId /\ Keeps
  BY DEF WrittenAt, WorkflowId
<1>2. \A v \in WorkflowId : HasInput(campaign', workflows'[v].status)
  <2> TAKE v \in WorkflowId
  <2>1. CASE v = w
    BY <2>1 DEF WrittenAt
  <2>2. CASE v # w
    <3>1. workflows'[v] = workflows[v]
      BY <2>2 DEF WrittenAt
    <3>2. HasInput(campaign, workflows[v].status)
      BY DEF InputInv, InputRows
    <3> QED
      BY <1>1, <3>1, <3>2 DEF Keeps, HasInput
  <2> QED
    BY <2>1, <2>2
<1>3. \A v \in WorkflowId : workflows'[v].retries <= MaxRetries
  BY DEF WrittenAt, InputInv, RetriedInv
<1> QED
  BY <1>1, <1>2, <1>3 DEF InputRows, RetriedInv

\* A checkpoint and a persisted failure, whatever the hint.
LEMMA CommitWrites ==
  ASSUME TypeInv, InputInv, NEW r \in Runner, Commit(r), Expected(r)
  PROVE  WrittenAt(runner[r].wf)
<1>1. At(r, "commit") /\ ~At(r, "idle") /\ Save(r)
  BY DEF Commit, At
<1>2. /\ runner[r].wf \in WorkflowId /\ Row(r) \in WorkflowRow /\ WorkflowsOK
      /\ runner[r].seen \in DOMAIN Advance \cup DOMAIN Specialist
      /\ runner[r].seen \in Status /\ campaign \in CampaignRow
  BY <1>1, RunnerRow, Domains DEF LocalOK, At, TypeInv, CampaignOK
<1>3. HasInput(campaign, runner[r].seen) /\ Row(r).retries <= MaxRetries
  BY <1>1, <1>2 DEF InputInv, InputSeen, Sees, At, RetriedInv, Row
<1> DEFINE w == runner[r].wf
<1>4. ASSUME NEW next, NEW c \in CampaignRow, Move(r, next, c),
             campaign.analysis => c.analysis, campaign.draft > 0 => c.draft > 0,
             next \in Analysed => c.analysis, next = "REVIEWING" => c.draft > 0
      PROVE  WrittenAt(w)
  <2>1. /\ Len(workflows') = Len(workflows)
        /\ \A v \in WorkflowId \ {w} : workflows'[v] = workflows[v]
        /\ workflows'[w] = [Row(r) EXCEPT !.status = next]
        /\ campaign' = [c EXCEPT !.status = next]
    BY <1>1, <1>2, <1>4, MoveRow
  <2>2. /\ workflows'[w].status = next /\ workflows'[w].retries = Row(r).retries
    BY <1>2, <2>1 DEF WorkflowRow
  <2>3. campaign'.analysis = c.analysis /\ campaign'.draft = c.draft
    BY <1>4, <2>1 DEF CampaignRow
  <2>4. Keeps /\ HasInput(campaign', workflows'[w].status)
    BY <1>4, <2>2, <2>3 DEF Keeps, HasInput
  <2> QED
    BY <1>2, <1>3, <2>1, <2>2, <2>4 DEF WrittenAt
<1>5. CASE runner[r].seen \in DOMAIN Advance
  <2>1. Move(r, Advance[runner[r].seen], campaign)
    BY <1>1, <1>5, Domains DEF Save
  <2>2. /\ Advance[runner[r].seen] \in {"VALIDATING", "ANALYZING", "GENERATING"}
        /\ Advance[runner[r].seen] = "GENERATING" => runner[r].seen = "REVISION_REQUIRED"
    BY <1>5, Domains DEF Advance
  <2>3. Advance[runner[r].seen] \in Analysed => campaign.analysis
    BY <1>3, <2>2 DEF HasInput, Analysed
  <2> QED
    BY <1>2, <1>4, <2>1, <2>2, <2>3
<1>6. CASE runner[r].seen = "ANALYZING"
  <2> DEFINE c == [campaign EXCEPT !.analysis = TRUE]
  <2>1. c \in CampaignRow /\ c.analysis = TRUE /\ c.draft = campaign.draft
    BY <1>2 DEF CampaignRow
  <2>2. Move(r, "GENERATING", c)
    BY <1>1, <1>6, Domains DEF Save
  <2> HIDE DEF c
  <2> QED
    BY <1>4, <2>1, <2>2
<1>7. CASE runner[r].seen = "GENERATING"
  <2> DEFINE c == [campaign EXCEPT !.draft = @ + 1]
  <2>1. c \in CampaignRow /\ c.analysis = campaign.analysis /\ c.draft > 0
    BY <1>2 DEF CampaignRow
  <2>2. Move(r, "REVIEWING", c)
    BY <1>1, <1>7, Domains DEF Save
  <2>3. campaign.analysis
    BY <1>3, <1>7 DEF HasInput, Analysed
  <2> HIDE DEF c
  <2> QED
    BY <1>4, <2>1, <2>2, <2>3
<1>8. CASE runner[r].seen = "REVIEWING"
  <2>1. SaveReview(r)
    BY <1>1, <1>8, Domains DEF Save
  <2>2. /\ runner[r].verdict \in Verdict /\ runner[r].draft \in Nat
        /\ runner[r].hint.retries \in Nat
    BY <1>1, <1>8, RunnerRow, Domains DEF LocalOK, At, Local, WorkflowRow
  <2>3. /\ Judged(r) \in CampaignRow /\ Judged(r).analysis = campaign.analysis
        /\ Judged(r).draft = campaign.draft
    BY <1>2, <2>2 DEF Judged, CampaignRow
  <2>4. campaign.analysis /\ campaign.draft > 0
    BY <1>3, <1>8 DEF HasInput, Analysed
  <2>5. CASE Outcome(r) # "GENERATING"
    <3>1. Move(r, Outcome(r), Judged(r))
      BY <2>1, <2>5 DEF SaveReview
    <3> QED
      BY <1>4, <2>3, <2>4, <3>1
  <2>6. CASE Outcome(r) = "GENERATING"
    <3> DEFINE k == runner[r].hint.retries + 1
               row == [Row(r) EXCEPT !.status = "GENERATING", !.retries = k]
               c == Judged(r)
    <3>1. k \in Nat /\ k <= MaxRetries /\ "GENERATING" \in Status
      <4>1. runner[r].hint.retries < MaxRetries
        BY <2>6 DEF Outcome
      <4> QED
        BY <2>2, <4>1, Domains, WorkflowAssumption
    <3>2. /\ workflows' = [workflows EXCEPT ![w] = row]
          /\ campaign' = [c EXCEPT !.status = "GENERATING", !.retries = @ + 1]
      BY <2>1, <2>6 DEF SaveReview, Row
    <3> HIDE DEF k, c
    <3>3. row \in WorkflowRow /\ row.retries = k /\ row.status = "GENERATING"
      BY <1>2, <3>1 DEF WorkflowRow
    <3>4. campaign'.analysis = campaign.analysis /\ campaign'.draft = campaign.draft
      BY <2>3, <3>2 DEF CampaignRow, c
    <3> HIDE DEF row
    <3>5. /\ Len(workflows') = Len(workflows) /\ workflows'[w] = row
          /\ \A v \in WorkflowId \ {w} : workflows'[v] = workflows[v]
      BY <1>2, <3>2, <3>3, RowMoves
    <3>6. Keeps /\ HasInput(campaign', workflows'[w].status)
      BY <2>4, <3>3, <3>4, <3>5 DEF Keeps, HasInput
    <3> QED
      BY <1>2, <3>1, <3>3, <3>5, <3>6 DEF WrittenAt
  <2> QED
    BY <2>5, <2>6
<1> QED
  BY <1>2, <1>5, <1>6, <1>7, <1>8, Domains

LEMMA FailureWrites ==
  ASSUME TypeInv, InputInv, NEW r \in Runner, PersistFailure(r),
         "FAILED" \in Allowed[runner[r].hint.status]
  PROVE  WrittenAt(runner[r].wf)
<1>1. At(r, "persist") /\ ~At(r, "idle")
  BY DEF PersistFailure, At
<1>2. runner[r].wf \in WorkflowId /\ Row(r) \in WorkflowRow /\ WorkflowsOK /\ campaign \in CampaignRow
  BY <1>1, RunnerRow DEF TypeInv, CampaignOK
<1> DEFINE row == [Row(r) EXCEPT !.status = "FAILED", !.done = TRUE]
<1>3. row \in WorkflowRow /\ row.retries = Row(r).retries /\ row.status = "FAILED"
  BY <1>2, Domains DEF WorkflowRow
<1>4. /\ workflows' = [workflows EXCEPT ![runner[r].wf] = row]
      /\ campaign' = [campaign EXCEPT !.status = "FAILED"]
  BY DEF PersistFailure, Row
<1> HIDE DEF row
<1>5. /\ Len(workflows') = Len(workflows) /\ workflows'[runner[r].wf] = row
      /\ \A v \in WorkflowId \ {runner[r].wf} : workflows'[v] = workflows[v]
  BY <1>2, <1>3, <1>4, RowMoves
<1>6. campaign'.analysis = campaign.analysis /\ campaign'.draft = campaign.draft
  BY <1>2, <1>4 DEF CampaignRow
<1>7. Keeps /\ HasInput(campaign', workflows'[runner[r].wf].status)
  BY <1>3, <1>5, <1>6 DEF Keeps, HasInput, Analysed
<1>8. row.retries <= MaxRetries
  BY <1>2, <1>3 DEF InputInv, RetriedInv, Row
<1> QED
  BY <1>2, <1>5, <1>7, <1>8 DEF WrittenAt

\* Nobody else writes a status whose inputs are missing.
LEMMA StepWrites ==
  ASSUME TypeInv, InputInv, [Next]_cwVars
  PROVE  Keeps /\ InputRows' /\ RetriedInv'
<1>1. InputRows /\ RetriedInv
  BY DEF InputInv
<1>2. ASSUME Unwritten PROVE Keeps /\ InputRows' /\ RetriedInv'
  <2>1. WorkflowId' = WorkflowId /\ Keeps
    BY <1>2 DEF Unwritten, WorkflowId, Keeps
  <2>2. \A v \in WorkflowId : HasInput(campaign', workflows'[v].status)
    BY <1>1, <1>2, <2>1, InputKept DEF InputRows, Unwritten
  <2>3. \A v \in WorkflowId : workflows'[v].retries <= MaxRetries
    BY <1>1, <1>2 DEF RetriedInv, Unwritten
  <2> QED
    BY <2>1, <2>2, <2>3 DEF InputRows, RetriedInv
<1>3. ASSUME UNCHANGED <<campaign, workflows, events, approvals>>
      PROVE  Keeps /\ InputRows' /\ RetriedInv'
  <2>1. Unwritten
    BY <1>3 DEF Unwritten
  <2> QED
    BY <1>2, <2>1
<1>4. ASSUME NEW w, WrittenAt(w) PROVE Keeps /\ InputRows' /\ RetriedInv'
  BY <1>4, WrittenRows DEF WrittenAt
<1>5. CASE CreateWorkflow
  <2>1. PICK row : Created(row)
    BY <1>5, CreateRows
  <2>2. Len(workflows) \in Nat /\ UNCHANGED campaign
    BY <2>1 DEF TypeInv, WorkflowsOK, Created
  <2> PICK n \in Nat : n = Len(workflows) + 1
    BY <2>2
  <2>3. WorkflowId' = WorkflowId \cup {n} /\ workflows'[n] = row
    BY <2>1, <2>2 DEF WorkflowId, Created
  <2>4. HasInput(campaign, row.status) /\ row.retries <= MaxRetries
    <3>1. row.retries <= MaxRetries
      BY <2>1, WorkflowAssumption DEF Created
    <3>2. CASE row.status = "RECEIVED"
      BY <3>1, <3>2 DEF HasInput, Analysed
    <3>3. CASE row.status = "REVISION_REQUIRED"
      <4>1. PICK p \in WorkflowId : workflows[p].status = "REVISION_REQUIRED"
        BY <2>1, <3>3 DEF Created, Parents
      <4>2. HasInput(campaign, workflows[p].status)
        BY <1>1 DEF InputRows
      <4> QED
        BY <3>1, <3>3, <4>1, <4>2
    <3> QED
      BY <2>1, <3>2, <3>3 DEF Created
  <2>5. \A v \in WorkflowId' :
          HasInput(campaign, workflows'[v].status) /\ workflows'[v].retries <= MaxRetries
    BY <1>1, <2>1, <2>3, <2>4 DEF Created, InputRows, RetriedInv
  <2>6. Keeps
    BY <2>2 DEF Keeps
  <2> QED
    BY <2>2, <2>5, <2>6 DEF InputRows, RetriedInv
<1>6. CASE EditCampaign
  <2>1. Unwritten
    BY <1>6 DEF EditCampaign, Unwritten, TypeInv, CampaignOK, CampaignRow
  <2> QED
    BY <1>2, <2>1
<1>7. CASE ReadCampaign \/ UNCHANGED cwVars
  BY <1>3, <1>7 DEF ReadCampaign, rows, cwVars
<1>8. ASSUME NEW d \in {"APPROVED", "REJECTED", "REVISION_REQUIRED"}, Decide(d)
      PROVE  Keeps /\ InputRows' /\ RetriedInv'
  <2>1. CASE Ruled(d)
    <3>1. HasInput(campaign, workflows[read.wf].status) /\ workflows[read.wf].retries <= MaxRetries
      BY <1>1, <2>1 DEF Ruled, InputRows, RetriedInv
    <3>2. campaign.analysis
      BY <2>1, <3>1 DEF Ruled, HasInput, Analysed
    <3>3. Keeps
      BY <2>1 DEF Ruled, Keeps
    <3>4. HasInput(campaign', workflows'[read.wf].status)
      BY <2>1, <3>2 DEF Ruled, HasInput, Analysed
    <3>5. WrittenAt(read.wf)
      BY <2>1, <3>1, <3>3, <3>4 DEF Ruled, WrittenAt
    <3> QED
      BY <1>4, <3>5
  <2>2. CASE UNCHANGED <<campaign, workflows, approvals, events, runner>>
    BY <1>3, <2>2
  <2> QED
    BY <1>8, <2>1, <2>2, DecideRules
<1>9. ASSUME NEW r \in Runner, RunnerStep(r) \/ Cancel(r) \/ Crash(r)
      PROVE  Keeps /\ InputRows' /\ RetriedInv'
  <2>1. CASE LoadSnapshot(r) \/ FinishJob(r) \/ StartAgent(r) \/ ReadReservation(r)
    BY <1>3, <2>1 DEF LoadSnapshot, FinishJob, StartAgent, ReadReservation, rows
  <2>2. CASE CompleteAgent(r) \/ FailAgent(r) \/ ReadHint(r) \/ RecordFeedback(r) \/ ReadFailure(r)
    BY <1>3, <2>2 DEF CompleteAgent, FailAgent, ReadHint, RecordFeedback, ReadFailure, rows
  <2>3. CASE Cancel(r) \/ Crash(r)
    BY <1>3, <2>3 DEF Cancel, Crash, rows
  <2>4. CASE CommitReservation(r)
    BY <1>2, <2>4, ReservationWrites
  <2>5. CASE Commit(r) /\ Expected(r)
    BY <1>4, <2>5, CommitWrites
  <2>6. CASE Commit(r) /\ ~Expected(r)
    BY <1>3, <2>6 DEF Commit
  <2>7. CASE PersistFailure(r) /\ "FAILED" \in Allowed[runner[r].hint.status]
    BY <1>4, <2>7, FailureWrites
  <2>8. CASE PersistFailure(r) /\ ~("FAILED" \in Allowed[runner[r].hint.status])
    BY <1>3, <2>8 DEF PersistFailure
  <2> QED
    BY <1>9, <2>1, <2>2, <2>3, <2>4, <2>5, <2>6, <2>7, <2>8 DEF RunnerStep
<1>10. ASSUME NEW r \in Runner, NEW w \in 1..WorkflowLimit, Lease(r, w)
       PROVE  Keeps /\ InputRows' /\ RetriedInv'
  BY <1>3, <1>10 DEF Lease, rows
<1> QED
  BY <1>5, <1>6, <1>7, <1>8, <1>9, <1>10 DEF Next

\* A snapshot is a status some row had.
LEMMA StepSees ==
  ASSUME TypeInv, InputInv, [Next]_cwVars, Keeps
  PROVE  InputSeen'
<1>1. runner \in [Runner -> Local] /\ InputSeen /\ InputRows
  BY DEF TypeInv, RunnersOK, InputInv
<1>2. ASSUME NEW r \in Runner, NEW y, runner' = [runner EXCEPT ![r] = y],
             y.pc \in Sees => HasInput(campaign, y.seen)
      PROVE  InputSeen'
  <2> SUFFICES ASSUME NEW q \in Runner, runner'[q].pc \in Sees
               PROVE  HasInput(campaign', runner'[q].seen)
    BY DEF InputSeen
  <2>1. CASE q = r
    BY <1>1, <1>2, <2>1, InputKept
  <2>2. CASE q # r
    <3>1. runner'[q] = runner[q]
      BY <1>1, <1>2, <2>2
    <3> QED
      BY <1>1, <3>1, InputKept DEF InputSeen
  <2> QED
    BY <2>1, <2>2
<1>3. ASSUME UNCHANGED runner PROVE InputSeen'
  BY <1>1, <1>3, InputKept DEF InputSeen
<1>4. ASSUME NEW r \in Runner, NEW pc \in {"load", "return", "record", "fail"}, NEW w,
             runner' = [runner EXCEPT ![r] = [Idle EXCEPT !.pc = pc, !.wf = w]]
      PROVE  InputSeen'
  <2> DEFINE y == [Idle EXCEPT !.pc = pc, !.wf = w]
  <2>1. y.pc \notin Sees
    BY DEF Idle, Sees, AgentPc
  <2> QED
    BY <1>2, <1>4, <2>1
<1>5. ASSUME NEW r \in Runner, Stop(r) PROVE InputSeen'
  <2>1. runner' = [runner EXCEPT ![r] = Idle] /\ Idle.pc \notin Sees
    BY <1>5 DEF Stop, Idle, Sees, AgentPc
  <2> QED
    BY <1>2, <2>1
<1>6. ASSUME NEW r \in Runner, NEW pc \in {"load", "return", "record", "fail"}, Goto(r, pc)
      PROVE  InputSeen'
  BY <1>4, <1>6 DEF Goto
<1>7. ASSUME NEW r \in Runner, RunnerStep(r) \/ Cancel(r) \/ Crash(r) PROVE InputSeen'
  <2> DEFINE x == runner[r]
  <2>1. CASE LoadSnapshot(r)
    <3> DEFINE y == [Idle EXCEPT !.pc = "act", !.wf = x.wf, !.seen = Row(r).status]
    <3>1. Goto(r, "return") \/ runner' = [runner EXCEPT ![r] = y]
      BY <2>1 DEF LoadSnapshot
    <3>2. ~At(r, "idle") /\ y.seen = Row(r).status
      BY <2>1 DEF LoadSnapshot, At, Idle
    <3>3. HasInput(campaign, Row(r).status)
      BY <1>1, <3>2, RunnerRow DEF InputRows, Row
    <3> HIDE DEF y
    <3> QED
      BY <1>2, <1>6, <3>1, <3>2, <3>3
  <2>2. ASSUME NEW y, runner' = [runner EXCEPT ![r] = y], x.pc \in Sees, y.seen = x.seen
        PROVE  InputSeen'
    BY <1>1, <1>2, <2>2 DEF InputSeen
  <2>3. CASE ReadFailure(r)
    <3> DEFINE y == [x EXCEPT !.pc = "persist", !.hint = Row(r)]
    <3>1. runner' = [runner EXCEPT ![r] = y] /\ ~At(r, "idle")
      BY <2>3 DEF ReadFailure, At
    <3>2. y.pc = "persist"
      BY <3>1, RunnerRow DEF Local
    <3>3. y.pc \notin Sees
      BY <3>2 DEF Sees, AgentPc
    <3> HIDE DEF y
    <3> QED
      BY <1>2, <3>1, <3>3
  <2>4. CASE StartAgent(r) \/ ReadReservation(r) \/ CommitReservation(r) \/ ReadHint(r)
             \/ CompleteAgent(r)
    <3>1. ~At(r, "idle") /\ x.pc \in Sees
      BY <2>4 DEF StartAgent, ReadReservation, CommitReservation, ReadHint, CompleteAgent, At,
                  Sees, AgentPc
    <3>2. x \in Local
      BY <3>1, RunnerRow
    <3>3. CASE StartAgent(r)
      <4> DEFINE y == [x EXCEPT !.pc = "agent", !.draft = campaign.draft]
      <4>1. Goto(r, "fail") \/ runner' = [runner EXCEPT ![r] = y]
        BY <3>3 DEF StartAgent
      <4>2. y.seen = x.seen
        BY <3>2 DEF Local
      <4> HIDE DEF y
      <4> QED
        BY <1>6, <2>2, <3>1, <4>1, <4>2
    <3>4. CASE ReadReservation(r)
      <4> DEFINE y == [x EXCEPT !.pc = "reserve", !.hint = Row(r)]
      <4>1. runner' = [runner EXCEPT ![r] = y]
        BY <3>4 DEF ReadReservation
      <4>2. y.seen = x.seen
        BY <3>2 DEF Local
      <4> HIDE DEF y
      <4> QED
        BY <2>2, <3>1, <4>1, <4>2
    <3>5. CASE CommitReservation(r)
      <4> DEFINE y == [x EXCEPT !.pc = "answer", !.hint = NoRow]
      <4>1. Goto(r, "fail") \/ runner' = [runner EXCEPT ![r] = y]
        BY <3>5 DEF CommitReservation
      <4>2. y.seen = x.seen
        BY <3>2 DEF Local
      <4> HIDE DEF y
      <4> QED
        BY <1>6, <2>2, <3>1, <4>1, <4>2
    <3>6. CASE ReadHint(r)
      <4> DEFINE y == [x EXCEPT !.pc = "commit", !.hint = Row(r)]
      <4>1. runner' = [runner EXCEPT ![r] = y]
        BY <3>6 DEF ReadHint
      <4>2. y.seen = x.seen
        BY <3>2 DEF Local
      <4> HIDE DEF y
      <4> QED
        BY <2>2, <3>1, <4>1, <4>2
    <3>7. CASE CompleteAgent(r)
      <4>1. PICK v \in Verdict : runner' = [runner EXCEPT ![r] = [x EXCEPT !.pc = "save", !.verdict = v]]
        BY <3>7 DEF CompleteAgent
      <4> DEFINE y == [x EXCEPT !.pc = "save", !.verdict = v]
      <4>2. runner' = [runner EXCEPT ![r] = y] /\ y.seen = x.seen
        BY <3>2, <4>1 DEF Local
      <4> HIDE DEF y
      <4> QED
        BY <2>2, <3>1, <4>2
    <3> QED
      BY <2>4, <3>3, <3>4, <3>5, <3>6, <3>7
  <2>5. CASE FinishJob(r) \/ FailAgent(r) \/ RecordFeedback(r) \/ PersistFailure(r)
             \/ Cancel(r) \/ Crash(r) \/ Commit(r)
    <3>1. Stop(r) \/ Goto(r, "fail") \/ Goto(r, "load") \/ Goto(r, "record")
      BY <2>5 DEF FinishJob, FailAgent, RecordFeedback, PersistFailure, Cancel, Crash, Commit
    <3> QED
      BY <1>5, <1>6, <3>1
  <2> QED
    BY <1>7, <2>1, <2>3, <2>4, <2>5 DEF RunnerStep
<1>8. ASSUME NEW r \in Runner, NEW w, Lease(r, w) PROVE InputSeen'
  BY <1>4, <1>8 DEF Lease
<1>9. CASE CreateWorkflow \/ EditCampaign \/ ReadCampaign \/ UNCHANGED cwVars
           \/ \E d \in {"APPROVED", "REJECTED", "REVISION_REQUIRED"} : Decide(d)
  BY <1>3, <1>9 DEF CreateWorkflow, EditCampaign, ReadCampaign, cwVars, Decide
<1> QED
  BY <1>7, <1>8, <1>9 DEF Next

\* However many workers run a workflow, and however stale their snapshots are:
\* a workflow that generates has an analysis, one that reviews has content, and
\* none retries its content beyond max_content_retries
\* (run_to_pending_approval, save_review).
THEOREM InputsAlwaysReady ==
  Spec => [](InputsReady /\ \A w \in WorkflowId : workflows[w].retries <= MaxRetries)
<1>1. Init => InputInv
  <2> SUFFICES ASSUME Init PROVE InputInv
    OBVIOUS
  <2>1. WorkflowId = {} /\ \A r \in Runner : runner[r].pc = "idle"
    BY DEF Init, Idle, WorkflowId
  <2> QED
    BY <2>1 DEF InputInv, InputRows, InputSeen, RetriedInv, Sees, AgentPc
<1>2. TypeInv /\ InputInv /\ [Next]_cwVars => InputInv'
  BY StepWrites, StepSees DEF InputInv
<1>3. InputInv => InputsReady /\ \A w \in WorkflowId : workflows[w].retries <= MaxRetries
  BY DEF InputInv, InputRows, HasInput, Analysed, InputsReady, RetriedInv
<1> QED
  BY <1>1, <1>2, <1>3, TypeInit, TypeNext, PTL DEF Spec
=============================================================================
