------------------------------ MODULE AgentLoop ------------------------------
(***************************************************************************)
(* The runs of specialist agents for one workflow: AgenticOrchestrator._run  *)
(* (app/agentic/runtime/orchestrator.py), AgentLoop and its budget            *)
(* (agent_loop.py, execution_budget.py), ToolExecutor                         *)
(* (app/agentic/tools/executor.py) and the audit rows they keep              *)
(* (app/service/agent_run_service.py).                                       *)
(*                                                                         *)
(* Runners are the coroutines that execute the workflow: the job, the job     *)
(* another endpoint enqueued under another key, and coroutines a lease         *)
(* outlived; which specialist one needs depends on the status it has read.     *)
(* Every call of a service is one transaction and one step.  A runner may be   *)
(* cancelled at every await (asyncio.timeout, heartbeat) and die at any time.   *)
(***************************************************************************)
EXTENDS Integers, FiniteSets, Sequences

CONSTANTS
  Runner,            \* coroutines executing the workflow
  Agent,             \* specialists
  MaxIterations,     \* AgentExecutionBudget.max_iterations
  MaxLLMCalls,       \* AgentExecutionBudget.max_llm_calls
  MaxToolCalls,      \* AgentExecutionBudget.max_tool_calls
  MaxProposals,      \* AgentExecutionBudget.max_action_proposals
  MaxWorkflowCalls,  \* settings.max_llm_calls_per_workflow
  RunLimit           \* bound of the model: rows of agent_runs

ASSUME AgentLoopAssumption ==
  /\ MaxIterations \in Nat \ {0} /\ MaxLLMCalls \in Nat \ {0}
  /\ MaxToolCalls \in Nat /\ MaxProposals \in Nat
  /\ MaxWorkflowCalls \in Nat /\ RunLimit \in Nat

VARIABLES
  runs,           \* rows of agent_runs
  calls,          \* [run -> the statuses of its rows of agent_tool_calls, in order]
  workflowCalls,  \* workflow_runs.llm_call_count
  runner          \* [Runner -> where the coroutine is]

agentVars == <<runs, calls, workflowCalls, runner>>

RunId == 1..RunLimit

AgentRunStatus == {"CREATED", "RUNNING", "COMPLETED", "FAILED", "LIMIT_EXCEEDED"}

ToolCallStatus == {"REQUESTED", "RUNNING", "COMPLETED", "FAILED", "REJECTED"}

AgentRun == [agent : Agent, status : AgentRunStatus \cup {"NONE"},
             iterations : Nat, llm : Nat, tools : Nat]

(* Where the code is, with the counters of AgentState: `left' of the batch of  *)
(* tool calls or proposals it works on, the count of the workflow it has read,  *)
(* how the run is to end.                                                      *)
Resting == [pc |-> "idle"]

InLoop == {"iterate", "read", "reserve", "count", "turn", "propose",
           "tools", "requested", "handling"}

Active(i) == runs[i].status \in {"CREATED", "RUNNING"}

Ended(i) == runs[i].status \in {"COMPLETED", "FAILED", "LIMIT_EXCEEDED"}

Go(r, pc) == runner' = [runner EXCEPT ![r].pc = pc]

Become(r, c) == runner' = [runner EXCEPT ![r] = c]

Raise(r, status) == runner' = [runner EXCEPT ![r].pc = "fail", ![r].why = status]

AgentInit ==
  /\ \E a \in Agent :
       runs = [i \in RunId |-> [agent |-> a, status |-> "NONE",
                                iterations |-> 0, llm |-> 0, tools |-> 0]]
  /\ calls = [i \in RunId |-> <<>>]
  /\ workflowCalls = 0
  /\ runner = [r \in Runner |-> Resting]

-----------------------------------------------------------------------------
(* _run before its try.                                                      *)

FindActive(r) ==
  /\ runner[r].pc = "idle"
  /\ \E a \in Agent :
       /\ ~\E i \in RunId : Active(i) /\ runs[i].agent = a
       /\ Become(r, [pc |-> "found", agent |-> a])
  /\ UNCHANGED <<runs, calls, workflowCalls>>

(* Mutant: without uq_agent_runs_one_active_specialist.                       *)
CreateRunUnchecked(r) ==
  /\ runner[r].pc = "found"
  /\ \E i \in RunId :
       /\ runs[i].status = "NONE" /\ \A k \in 1..(i - 1) : runs[k].status # "NONE"
       /\ runs' = [runs EXCEPT ![i].status = "CREATED", ![i].agent = runner[r].agent]
       /\ Become(r, [pc |-> "created", run |-> i, why |-> "FAILED", left |-> 0, hint |-> 0,
                     iteration |-> 0, llm |-> 0, tool |-> 0])
  /\ UNCHANGED <<calls, workflowCalls>>

CreateRun(r) ==
  /\ runner[r].pc = "found"
  /\ IF \E i \in RunId : Active(i) /\ runs[i].agent = runner[r].agent
     THEN Become(r, Resting) /\ UNCHANGED runs
     ELSE \E i \in RunId :
            /\ runs[i].status = "NONE" /\ \A k \in 1..(i - 1) : runs[k].status # "NONE"
            /\ runs' = [runs EXCEPT ![i].status = "CREATED", ![i].agent = runner[r].agent]
            /\ Become(r, [pc |-> "created", run |-> i, why |-> "FAILED", left |-> 0,
                          hint |-> 0, iteration |-> 0, llm |-> 0, tool |-> 0])
  /\ UNCHANGED <<calls, workflowCalls>>

StartRun(r) ==
  /\ runner[r].pc = "created"
  /\ runs' = [runs EXCEPT ![runner[r].run].status = "RUNNING"]
  /\ Go(r, "iterate")
  /\ UNCHANGED <<calls, workflowCalls>>

-----------------------------------------------------------------------------
(* AgentLoop._run.                                                           *)

BeginIteration(r) ==
  LET c == runner[r] IN
  /\ c.pc = "iterate"
  /\ IF c.iteration >= MaxIterations \/ c.llm >= MaxLLMCalls
     THEN Raise(r, "LIMIT_EXCEEDED") /\ UNCHANGED runs
     ELSE /\ runs' = [runs EXCEPT ![c.run].iterations = @ + 1]
          /\ Become(r, [c EXCEPT !.pc = "read", !.iteration = @ + 1])
  /\ UNCHANGED <<calls, workflowCalls>>

(* WorkflowService.record_llm_call reads the row, and locks it without          *)
(* reading it again.                                                          *)
ReadWorkflow(r) ==
  /\ runner[r].pc = "read"
  /\ Become(r, [runner[r] EXCEPT !.pc = "reserve", !.hint = workflowCalls])
  /\ UNCHANGED <<runs, calls, workflowCalls>>

ReserveCall(r) ==
  /\ runner[r].pc = "reserve"
  /\ IF runner[r].hint >= MaxWorkflowCalls
     THEN Raise(r, "FAILED") /\ UNCHANGED workflowCalls
     ELSE workflowCalls' = runner[r].hint + 1 /\ Go(r, "count")
  /\ UNCHANGED <<runs, calls>>

RecordLLMCall(r) ==
  LET c == runner[r] IN
  /\ c.pc = "count"
  /\ runs' = [runs EXCEPT ![c.run].llm = @ + 1]
  /\ Become(r, [c EXCEPT !.pc = "turn", !.llm = @ + 1])
  /\ UNCHANGED <<calls, workflowCalls>>

(* A final output with n proposals.                                           *)
FinalTurn(r) ==
  /\ runner[r].pc = "turn"
  /\ \E n \in 0..(MaxProposals + 1) :
       IF n > MaxProposals THEN Raise(r, "LIMIT_EXCEEDED")
       ELSE Become(r, [runner[r] EXCEPT !.pc = "propose", !.left = n])
  /\ UNCHANGED <<runs, calls, workflowCalls>>

(* Mutant: only the calls already made are counted.                           *)
ToolTurnChecksFewer(r) ==
  /\ runner[r].pc = "turn"
  /\ \E n \in 0..(MaxToolCalls + 1) :
       IF runner[r].tool > MaxToolCalls THEN Raise(r, "LIMIT_EXCEEDED")
       ELSE Become(r, [runner[r] EXCEPT !.pc = "tools", !.left = n])
  /\ UNCHANGED <<runs, calls, workflowCalls>>

(* A batch of n tool calls, all of them or none within the budget.             *)
ToolTurn(r) ==
  /\ runner[r].pc = "turn"
  /\ \E n \in 0..(MaxToolCalls + 1) :
       IF runner[r].tool + n > MaxToolCalls THEN Raise(r, "LIMIT_EXCEEDED")
       ELSE Become(r, [runner[r] EXCEPT !.pc = "tools", !.left = n])
  /\ UNCHANGED <<runs, calls, workflowCalls>>

ProposeAction(r) ==
  /\ runner[r].pc = "propose"
  /\ IF runner[r].left = 0 THEN Go(r, "returned")
     ELSE runner' = [runner EXCEPT ![r].left = @ - 1]
  /\ UNCHANGED <<runs, calls, workflowCalls>>

(* An error of the provider, an invalid output, a proposal or a transaction    *)
(* that fails, a timeout of the loop, a cancellation from outside: anything     *)
(* but the end of a tool call.  A tool's 10 s are within the loop's.            *)
Interrupt(r) ==
  /\ runner[r].pc \in (InLoop \ {"requested", "handling"}) \cup {"returned"}
  /\ \/ Raise(r, "FAILED")
     \/ runner[r].pc \in InLoop /\ Raise(r, "LIMIT_EXCEEDED")
  /\ UNCHANGED <<runs, calls, workflowCalls>>

-----------------------------------------------------------------------------
(* ToolExecutor._execute.                                                    *)

SetCall(i, status) == calls' = [calls EXCEPT ![i][Len(calls[i])] = status]

EndBatch(r) ==
  /\ runner[r].pc = "tools" /\ runner[r].left = 0
  /\ Go(r, "iterate")
  /\ UNCHANGED <<runs, calls, workflowCalls>>

(* The audit row is committed before the try: whoever is cancelled meanwhile    *)
(* leaves it REQUESTED.                                                        *)
CreateToolCall(r) ==
  LET i == runner[r].run IN
  /\ runner[r].pc = "tools" /\ runner[r].left > 0
  /\ calls' = [calls EXCEPT ![i] = Append(@, "REQUESTED")]
  /\ runs' = [runs EXCEPT ![i].tools = @ + 1]
  /\ Go(r, "requested") \/ Raise(r, "FAILED") \/ Raise(r, "LIMIT_EXCEEDED")
  /\ UNCHANGED workflowCalls

(* Unknown or not the agent's, out of scope, or invalid arguments.             *)
RejectToolCall(r) ==
  /\ runner[r].pc = "requested"
  /\ SetCall(runner[r].run, "REJECTED")
  /\ Raise(r, "FAILED")
  /\ UNCHANGED <<runs, workflowCalls>>

StartToolCall(r) ==
  /\ runner[r].pc = "requested"
  /\ SetCall(runner[r].run, "RUNNING")
  /\ Go(r, "handling")
  /\ UNCHANGED <<runs, workflowCalls>>

FinishToolCall(r) ==
  /\ runner[r].pc = "handling"
  /\ SetCall(runner[r].run, "COMPLETED")
  /\ Become(r, [runner[r] EXCEPT !.pc = "tools", !.left = @ - 1, !.tool = @ + 1])
  /\ UNCHANGED <<runs, workflowCalls>>

(* An error of the handler, its timeout, or the cancellation of the task.       *)
FailToolCall(r) ==
  /\ runner[r].pc \in {"requested", "handling"}
  /\ SetCall(runner[r].run, "FAILED")
  /\ Raise(r, "FAILED") \/ Raise(r, "LIMIT_EXCEEDED")
  /\ UNCHANGED <<runs, workflowCalls>>

-----------------------------------------------------------------------------
(* The end of _run.                                                          *)

(* Whoever is cancelled after the commit goes on to record a failure.          *)
CompleteRun(r) ==
  /\ runner[r].pc = "returned"
  /\ runs' = [runs EXCEPT ![runner[r].run].status = "COMPLETED"]
  /\ Become(r, Resting) \/ Raise(r, "FAILED")
  /\ UNCHANGED <<calls, workflowCalls>>

(* Mutant: the failure is recorded whatever the run's status.                 *)
FailRunAlways(r) ==
  /\ runner[r].pc = "fail"
  /\ runs' = [runs EXCEPT ![runner[r].run].status = runner[r].why]
  /\ Become(r, Resting)
  /\ UNCHANGED <<calls, workflowCalls>>

FailRun(r) ==
  /\ runner[r].pc = "fail"
  /\ runs' = IF Active(runner[r].run)
             THEN [runs EXCEPT ![runner[r].run].status = runner[r].why] ELSE runs
  /\ Become(r, Resting)
  /\ UNCHANGED <<calls, workflowCalls>>

(* The process dies, or what was to record the failure fails, or the run was    *)
(* to be started: nobody ends the run any more.                               *)
Die(r) ==
  /\ runner[r].pc # "idle"
  /\ Become(r, Resting)
  /\ UNCHANGED <<runs, calls, workflowCalls>>

RunnerStep(r) ==
  \/ FindActive(r) \/ CreateRun(r) \/ StartRun(r)
  \/ BeginIteration(r) \/ ReadWorkflow(r) \/ ReserveCall(r) \/ RecordLLMCall(r)
  \/ FinalTurn(r) \/ ToolTurn(r) \/ ProposeAction(r) \/ Interrupt(r)
  \/ EndBatch(r) \/ CreateToolCall(r) \/ RejectToolCall(r) \/ StartToolCall(r)
  \/ FinishToolCall(r) \/ FailToolCall(r)
  \/ CompleteRun(r) \/ FailRun(r) \/ Die(r)

AgentNext == \E r \in Runner : RunnerStep(r)

AgentSpec == AgentInit /\ [][AgentNext]_agentVars

-----------------------------------------------------------------------------
(* PROPERTIES                                                               *)

Open == {"REQUESTED", "RUNNING"}

(* The audit of the runs, whoever races, is cancelled or dies: a specialist     *)
(* has one active run, a coroutine works on a run that is RUNNING and its own,   *)
(* the counter of tool calls is the number of their rows, only the last row      *)
(* may be anything but COMPLETED, and a COMPLETED run has none such              *)
(* (AgentRunService, ToolExecutor._execute).                                   *)
RunsAudited ==
  /\ \A i, k \in RunId : Active(i) /\ Active(k) /\ runs[i].agent = runs[k].agent => i = k
  /\ \A r \in Runner :
       runner[r].pc \in InLoop \cup {"returned"}
       => /\ runs[runner[r].run].status = "RUNNING"
          /\ \A q \in Runner \ {r} : runner[q].pc \notin {"idle", "found"}
                                     => runner[q].run # runner[r].run
  /\ \A i \in RunId :
       /\ runs[i].tools = Len(calls[i])
       /\ \A k \in 1..Len(calls[i]) :
            calls[i][k] # "COMPLETED" => k = Len(calls[i]) /\ runs[i].status # "COMPLETED"

(* What a run may consume, by its own budget and that of its workflow, as its   *)
(* row shows it: the model is only called after the iteration was recorded and  *)
(* the workflow's call reserved (BudgetTracker, WorkflowService.record_llm_call). *)
BudgetsHold ==
  /\ workflowCalls <= MaxWorkflowCalls
  /\ \A i \in RunId :
       /\ runs[i].iterations <= MaxIterations /\ runs[i].llm <= MaxLLMCalls
       /\ runs[i].llm <= runs[i].iterations /\ runs[i].iterations <= runs[i].llm + 1
       /\ runs[i].llm > 0 => workflowCalls > 0
       /\ runs[i].tools <= MaxToolCalls

(* The audit of a run that has ended is never touched again: a coroutine         *)
(* cancelled right after it completed its run does not turn it into a failure    *)
(* (AgentRunService.fail_run).                                                *)
EndedRunsStand ==
  [][\A i \in RunId : Ended(i) => runs'[i] = runs[i] /\ calls'[i] = calls[i]]_agentVars
=============================================================================
