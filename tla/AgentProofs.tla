---------------------------- MODULE AgentProofs -----------------------------
(***************************************************************************)
(* Proofs about the agents: AgentLoop (their runs, turns and tool calls)     *)
(* and ActionExecution (the actions they propose), for any coroutines,       *)
(* specialists, budgets, actions, callers, releases, humans and bounds.      *)
(***************************************************************************)
EXTENDS AgentLoop, ActionExecution, TLAPS

-----------------------------------------------------------------------------
(* Agent runs.  The inductive invariant RunInv says of every row of agent_runs *)
(* what its counters may be (RowsInv), of every coroutine that holds a run    *)
(* that its own counters are the row's (HoldersInv: the row is written from    *)
(* the coroutine's counters, never read back), and that no two coroutines      *)
(* hold the same run (HeldOnce), so that one never invalidates what another     *)
(* knows.                                                                   *)

InRun == InLoop \cup {"returned"}

Found == [pc : {"found"}, agent : Agent]

Holder == [pc : InRun \cup {"created", "fail"}, run : RunId,
           why : {"FAILED", "LIMIT_EXCEEDED"}, left : Nat, hint : Nat,
           iteration : Nat, llm : Nat, tool : Nat]

RunTypes ==
    /\ runs \in [RunId -> AgentRun]
    /\ calls \in [RunId -> Seq(ToolCallStatus)]
    /\ workflowCalls \in Nat
    /\ runner \in [Runner -> {Resting} \cup Found \cup Holder]

Holds(r) == runner[r].pc \notin {"idle", "found"}

HeldOnce ==
    \A r, q \in Runner : Holds(r) /\ Holds(q) /\ runner[r].run = runner[q].run => r = q

OneActive ==
    \A i, k \in RunId : Active(i) /\ Active(k) /\ runs[i].agent = runs[k].agent => i = k

AllDone(s) == \A k \in 1..Len(s) : s[k] = "COMPLETED"

LastOpen(s) == \A k \in 1..Len(s) : s[k] # "COMPLETED" => k = Len(s)

(* What a row tells, with the statuses s of its tool calls.                   *)
RunRowOK(row, s) ==
    /\ row.status \in {"NONE", "CREATED"} => row.iterations = 0 /\ row.llm = 0 /\ row.tools = 0
    /\ row.iterations <= MaxIterations /\ row.llm <= MaxLLMCalls
    /\ row.llm <= row.iterations /\ row.iterations <= row.llm + 1
    /\ row.tools <= MaxToolCalls /\ row.tools = Len(s)
    /\ LastOpen(s)
    /\ row.status = "COMPLETED" => AllDone(s)

RowsInv == \A i \in RunId : RunRowOK(runs[i], calls[i]) /\ (runs[i].llm > 0 => workflowCalls > 0)

(* The counters c of a coroutine are those of the row it works on.            *)
Counts(c, row, s) ==
    /\ row.iterations = c.iteration /\ row.llm = c.llm
    /\ IF c.pc \in {"read", "reserve", "count"}
       THEN c.iteration = c.llm + 1 /\ c.llm < MaxLLMCalls
       ELSE c.iteration = c.llm
    /\ IF c.pc \in {"requested", "handling"}
       THEN c.left > 0 /\ Len(s) = c.tool + 1
       ELSE Len(s) = c.tool /\ AllDone(s)
    /\ c.pc \in {"tools", "requested", "handling"} => c.tool + c.left <= MaxToolCalls

(* What holding a run means.                                                 *)
Fits(c, row, s) ==
    /\ row.status # "NONE"
    /\ c.pc = "created" => row.status = "CREATED"
    /\ c.pc \in InRun => row.status = "RUNNING"
    /\ c.pc # "fail" => Counts(c, row, s)

HoldersInv ==
    \A r \in Runner : Holds(r) =>
      /\ Fits(runner[r], runs[runner[r].run], calls[runner[r].run])
      /\ runner[r].pc = "count" => workflowCalls > 0

RunInv == /\ RunTypes /\ HeldOnce /\ OneActive /\ RowsInv /\ HoldersInv
        /\ workflowCalls <= MaxWorkflowCalls

-----------------------------------------------------------------------------
(* The statuses of the tool calls of a run.                                   *)

(* A call is only created when those before it are COMPLETED.                 *)
LEMMA CallAppended ==
    ASSUME NEW s \in Seq(ToolCallStatus), AllDone(s), NEW e \in ToolCallStatus
    PROVE  /\ Append(s, e) \in Seq(ToolCallStatus)
           /\ Len(Append(s, e)) = Len(s) + 1
           /\ LastOpen(Append(s, e))
  BY DEF AllDone, LastOpen

(* The last call changes its status.                                         *)
LEMMA CallSet ==
    ASSUME NEW s \in Seq(ToolCallStatus), Len(s) > 0, LastOpen(s), NEW e \in ToolCallStatus
    PROVE  LET t == [s EXCEPT ![Len(s)] = e] IN
           /\ t \in Seq(ToolCallStatus)
           /\ Len(t) = Len(s)
           /\ LastOpen(t)
           /\ e = "COMPLETED" => AllDone(t)
  BY DEF AllDone, LastOpen

(* What SetCall does to the calls of the run it is about.                     *)
LEMMA CallSetOfRun ==
    ASSUME RunTypes, NEW i \in RunId, RunRowOK(runs[i], calls[i]), Len(calls[i]) > 0,
           NEW e \in ToolCallStatus, SetCall(i, e)
    PROVE  /\ calls' \in [RunId -> Seq(ToolCallStatus)]
           /\ \A k \in RunId \ {i} : calls'[k] = calls[k]
           /\ Len(calls'[i]) = Len(calls[i])
           /\ LastOpen(calls'[i])
           /\ e = "COMPLETED" => AllDone(calls'[i])
  <1> DEFINE t == [calls[i] EXCEPT ![Len(calls[i])] = e]
  <1>1. calls[i] \in Seq(ToolCallStatus) /\ LastOpen(calls[i])
    BY DEF RunTypes, RunRowOK
  <1>2. /\ t \in Seq(ToolCallStatus) /\ Len(t) = Len(calls[i]) /\ LastOpen(t)
        /\ e = "COMPLETED" => AllDone(t)
    BY <1>1, CallSet
  <1>3. calls' = [calls EXCEPT ![i] = t]
    BY DEF SetCall
  <1> HIDE DEF t
  <1>4. calls'[i] = t
    BY <1>3 DEF RunTypes
  <1>. QED
    BY <1>2, <1>3, <1>4 DEF RunTypes
-----------------------------------------------------------------------------
(* Coroutines.                                                              *)

LEMMA HolderTyped ==
    ASSUME RunTypes, NEW r \in Runner, Holds(r)
    PROVE  runner[r] \in Holder /\ runner[r].run \in RunId
  BY DEF RunTypes, Holds, Resting, Found, Holder

(* Nothing but the run i is written.                                         *)
OnlyRun(i) ==
    /\ runs' \in [RunId -> AgentRun]
    /\ calls' \in [RunId -> Seq(ToolCallStatus)]
    /\ \A k \in RunId \ {i} : runs'[k] = runs[k] /\ calls'[k] = calls[k]

(* A coroutine that holds a run goes on with it, or lets go of it: what it      *)
(* leaves behind must fit what it is, and nobody else's run is touched.          *)
LEMMA HolderMoves ==
    ASSUME RunInv, NEW r \in Runner, Holds(r), NEW i \in RunId, i = runner[r].run,
           NEW c \in Holder \cup {Resting}, Become(r, c), OnlyRun(i),
           runs'[i].agent = runs[i].agent, Active(i)' => Active(i),
           c # Resting => c.run = i /\ Fits(c, runs'[i], calls'[i]),
           RunRowOK(runs'[i], calls'[i]),
           workflowCalls' \in Nat, workflowCalls' <= MaxWorkflowCalls,
           workflowCalls > 0 \/ runs'[i].llm > 0 \/ c.pc = "count" => workflowCalls' > 0
    PROVE  RunInv'
  <1> USE DEF RunInv
  <1>1. runner' = [runner EXCEPT ![r] = c] /\ runner'[r] = c
    BY DEF Become, RunTypes
  <1>2. \A q \in Runner \ {r} : runner'[q] = runner[q]
    BY <1>1 DEF RunTypes
  <1>3. RunTypes'
    BY <1>1 DEF RunTypes, OnlyRun
  <1>4. c \in Holder => c.pc \notin {"idle", "found"} /\ c # Resting
    BY DEF Holder, InRun, InLoop, Resting
  <1>5. c = Resting => ~Holds(r)'
    BY <1>1 DEF Resting, Holds
  <1>6. \A q \in Runner \ {r} : Holds(q)' => Holds(q) /\ runner[q].run \in RunId \ {i}
    BY <1>2, HolderTyped DEF Holds, HeldOnce
  <1>7. Holds(r)' => c \in Holder /\ c.run = i
    BY <1>1, <1>4, <1>5
  <1>8. HeldOnce'
    BY <1>1, <1>2, <1>6, <1>7 DEF HeldOnce, Holds
  <1>9. OneActive'
    <2>1. \A k \in RunId : Active(k)' => Active(k) /\ runs'[k].agent = runs[k].agent
      BY DEF OnlyRun, Active
    <2>. QED
      BY <2>1 DEF OneActive
  <1>10. RowsInv'
    BY DEF RowsInv, OnlyRun
  <1>11. HoldersInv'
    <2>1. ASSUME NEW q \in Runner \ {r}, Holds(q)'
          PROVE  /\ Fits(runner'[q], runs'[runner'[q].run], calls'[runner'[q].run])
                 /\ runner'[q].pc = "count" => workflowCalls' > 0
      <3>1. /\ runner'[q] = runner[q] /\ runner[q].run \in RunId \ {i}
            /\ Fits(runner[q], runs[runner[q].run], calls[runner[q].run])
            /\ runner[q].pc = "count" => workflowCalls > 0
        BY <1>2, <1>6, <2>1 DEF HoldersInv
      <3>. QED
        BY <3>1 DEF OnlyRun
    <2>2. ASSUME Holds(r)'
          PROVE  /\ Fits(runner'[r], runs'[runner'[r].run], calls'[runner'[r].run])
                 /\ runner'[r].pc = "count" => workflowCalls' > 0
      BY <1>1, <1>4, <1>7, <2>2
    <2>. QED
      BY <2>1, <2>2 DEF HoldersInv, Holds
  <1>. QED
    BY <1>3, <1>8, <1>9, <1>10, <1>11

(* A step of a coroutine that writes none of the rows.                        *)
LEMMA RunnerMoves ==
    ASSUME RunInv, NEW r \in Runner, Holds(r), NEW c \in Holder \cup {Resting}, Become(r, c),
           UNCHANGED <<runs, calls>>,
           c # Resting => /\ c.run = runner[r].run
                       /\ Fits(c, runs[runner[r].run], calls[runner[r].run]),
           workflowCalls' \in Nat, workflowCalls' <= MaxWorkflowCalls,
           workflowCalls > 0 \/ c.pc = "count" => workflowCalls' > 0
    PROVE  RunInv'
  <1>1. PICK i \in RunId : i = runner[r].run
    BY HolderTyped DEF RunInv
  <1>2. RunRowOK(runs[i], calls[i]) /\ (runs[i].llm > 0 => workflowCalls > 0)
    BY <1>1 DEF RunInv, RowsInv
  <1>3. OnlyRun(i) /\ runs'[i].agent = runs[i].agent /\ (Active(i)' => Active(i))
    BY DEF OnlyRun, RunInv, RunTypes, Active
  <1>. QED
    BY <1>1, <1>2, <1>3, HolderMoves

(* What Raise makes of a coroutine.                                          *)
LEMMA RaiseBecomes ==
    ASSUME RunTypes, NEW r \in Runner, Holds(r), NEW status \in {"FAILED", "LIMIT_EXCEEDED"},
           Raise(r, status)
    PROVE  LET c == [runner[r] EXCEPT !.pc = "fail", !.why = status] IN
           /\ c \in Holder
           /\ c # Resting
           /\ Become(r, c)
           /\ c.run = runner[r].run
           /\ c.pc = "fail"
  <1>1. runner[r] \in Holder
    BY HolderTyped
  <1>2. runner' = [runner EXCEPT ![r] = [runner[r] EXCEPT !.pc = "fail", !.why = status]]
    BY DEF Raise, RunTypes
  <1>. QED
    BY <1>1, <1>2 DEF Holder, Become, Resting

(* A failure of the coroutine itself.                                        *)
LEMMA RaiseKeeps ==
    ASSUME RunInv, NEW r \in Runner, Holds(r), NEW status \in {"FAILED", "LIMIT_EXCEEDED"},
           Raise(r, status), UNCHANGED <<runs, calls, workflowCalls>>
    PROVE  RunInv'
  <1> DEFINE c == [runner[r] EXCEPT !.pc = "fail", !.why = status]
  <1>1. c \in Holder /\ c # Resting /\ Become(r, c) /\ c.run = runner[r].run /\ c.pc = "fail"
    BY RaiseBecomes DEF RunInv
  <1> HIDE DEF c
  <1>2. runs[runner[r].run].status # "NONE"
    BY DEF RunInv, HoldersInv, Fits
  <1>3. Fits(c, runs[runner[r].run], calls[runner[r].run])
    BY <1>1, <1>2 DEF Fits, InRun, InLoop
  <1>. QED
    BY <1>1, <1>3, RunnerMoves DEF RunInv, RunTypes

(* A failure of the coroutine after a tool call of its run was recorded.        *)
LEMMA RaiseAfterCall ==
    ASSUME RunInv, NEW r \in Runner, Holds(r), NEW status \in {"FAILED", "LIMIT_EXCEEDED"},
           Raise(r, status), UNCHANGED workflowCalls, OnlyRun(runner[r].run),
           runs[runner[r].run].status = "RUNNING",
           runs'[runner[r].run] = [runs[runner[r].run] EXCEPT !.tools = Len(calls'[runner[r].run])],
           LastOpen(calls'[runner[r].run]), Len(calls'[runner[r].run]) <= MaxToolCalls
    PROVE  RunInv'
  <1> DEFINE c == [runner[r] EXCEPT !.pc = "fail", !.why = status]
  <1>1. PICK i \in RunId : i = runner[r].run
    BY HolderTyped DEF RunInv
  <1>2. c \in Holder /\ c # Resting /\ Become(r, c) /\ c.run = i /\ c.pc = "fail"
    BY <1>1, RaiseBecomes DEF RunInv
  <1> HIDE DEF c
  <1>3. RunRowOK(runs[i], calls[i]) /\ runs[i] \in AgentRun /\ (runs[i].llm > 0 => workflowCalls > 0)
    BY <1>1 DEF RunInv, RowsInv, RunTypes
  <1>4. /\ runs'[i].status = "RUNNING" /\ runs'[i].agent = runs[i].agent
        /\ runs'[i].iterations = runs[i].iterations /\ runs'[i].llm = runs[i].llm
        /\ runs'[i].tools = Len(calls'[i])
    BY <1>1, <1>3 DEF AgentRun
  <1>5. RunRowOK(runs'[i], calls'[i])
    BY <1>1, <1>3, <1>4 DEF RunRowOK, LastOpen
  <1>6. Fits(c, runs'[i], calls'[i])
    BY <1>2, <1>4 DEF Fits, InRun, InLoop
  <1>7. Active(i)' => Active(i)
    BY <1>1 DEF Active
  <1>8. OnlyRun(i)
    BY <1>1
  <1>. QED
    BY <1>1, <1>2, <1>3, <1>4, <1>5, <1>6, <1>7, <1>8, HolderMoves DEF RunInv, RunTypes

-----------------------------------------------------------------------------
(* The invariant holds in the first state.                                    *)

LEMMA AgentInitInv == AgentInit => RunInv
  <1> SUFFICES ASSUME AgentInit PROVE RunInv
    OBVIOUS
  <1> USE DEF AgentInit
  <1>1. RunTypes
    BY DEF RunTypes, AgentRun, Resting
  <1>2. \A r \in Runner : ~Holds(r)
    BY DEF Holds, Resting
  <1>3. OneActive
    BY DEF OneActive, Active
  <1>4. RowsInv
    BY AgentLoopAssumption DEF RowsInv, RunRowOK, LastOpen
  <1>. QED
    BY <1>1, <1>2, <1>3, <1>4, AgentLoopAssumption DEF RunInv, HeldOnce, HoldersInv

-----------------------------------------------------------------------------
(* Before a run is held.                                                     *)

(* A coroutine without a run finds none active for its specialist, or stops.    *)
LEMMA FreeMoves ==
    ASSUME RunInv, NEW r \in Runner, NEW c \in {Resting} \cup Found, Become(r, c),
           UNCHANGED <<runs, calls, workflowCalls>>
    PROVE  RunInv'
  <1>1. runner' = [runner EXCEPT ![r] = c] /\ runner'[r] = c /\ c.pc \in {"idle", "found"}
    BY DEF Become, RunInv, RunTypes, Resting, Found
  <1>2. \A q \in Runner : Holds(q)' => Holds(q) /\ runner'[q] = runner[q]
    BY <1>1 DEF Holds, RunInv, RunTypes
  <1>3. RunTypes'
    BY <1>1 DEF RunInv, RunTypes
  <1>4. HeldOnce' /\ HoldersInv'
    BY <1>2 DEF RunInv, HeldOnce, HoldersInv
  <1>5. OneActive' /\ RowsInv'
    BY DEF RunInv, OneActive, RowsInv, Active
  <1>. QED
    BY <1>3, <1>4, <1>5 DEF RunInv

LEMMA FindActiveKeeps ==
    ASSUME RunInv, NEW r \in Runner, FindActive(r)
    PROVE  RunInv'
  <1>1. PICK a \in Agent : Become(r, [pc |-> "found", agent |-> a])
    BY DEF FindActive
  <1>2. [pc |-> "found", agent |-> a] \in Found
    BY DEF Found
  <1>. QED
    BY <1>1, <1>2, FreeMoves DEF FindActive

LEMMA CreateRunKeeps ==
    ASSUME RunInv, NEW r \in Runner, CreateRun(r)
    PROVE  RunInv'
  <1> USE DEF RunInv
  <1>1. CASE \E i \in RunId : Active(i) /\ runs[i].agent = runner[r].agent
    BY <1>1, FreeMoves DEF CreateRun
  <1>2. CASE ~\E i \in RunId : Active(i) /\ runs[i].agent = runner[r].agent
    <2> DEFINE d(i) == [pc |-> "created", run |-> i, why |-> "FAILED", left |-> 0, hint |-> 0,
                        iteration |-> 0, llm |-> 0, tool |-> 0]
    <2>1. PICK i \in RunId :
            /\ runs[i].status = "NONE"
            /\ runs' = [runs EXCEPT ![i].status = "CREATED", ![i].agent = runner[r].agent]
            /\ Become(r, d(i))
      BY <1>2 DEF CreateRun
    <2>2. UNCHANGED <<calls, workflowCalls>> /\ ~Holds(r) /\ runner[r].agent \in Agent
      <3>1. runner[r].pc = "found" /\ runner[r] \in {Resting} \cup Found \cup Holder
        BY DEF CreateRun, RunTypes
      <3>2. runner[r] \in Found
        BY <3>1 DEF Resting, Holder, InRun, InLoop
      <3>. QED
        BY <3>1, <3>2 DEF CreateRun, Holds, Found
    <2> DEFINE c == d(i)
    <2>3. /\ c \in Holder /\ c.run = i /\ c.pc = "created" /\ c.iteration = 0 /\ c.llm = 0
          /\ c.tool = 0
      BY DEF Holder
    <2>4. /\ runs' \in [RunId -> AgentRun]
          /\ runs'[i] = [runs[i] EXCEPT !.status = "CREATED", !.agent = runner[r].agent]
          /\ \A k \in RunId \ {i} : runs'[k] = runs[k]
      <3> DEFINE next == [runs[i] EXCEPT !.status = "CREATED", !.agent = runner[r].agent]
      <3>1. runs \in [RunId -> AgentRun]
        BY DEF RunTypes
      <3>2. next \in AgentRun
        BY <2>2, <3>1 DEF AgentRun, AgentRunStatus
      <3>3. runs' = [runs EXCEPT ![i] = next]
        BY <2>1, <3>1
      <3> HIDE DEF next
      <3>4. /\ runs' \in [RunId -> AgentRun] /\ runs'[i] = next
            /\ \A k \in RunId \ {i} : runs'[k] = runs[k]
        BY <3>1, <3>2, <3>3
      <3>. QED
        BY <3>4 DEF next
    <2>5. /\ runs'[i].status = "CREATED" /\ runs'[i].agent = runner[r].agent
          /\ runs'[i].iterations = runs[i].iterations /\ runs'[i].llm = runs[i].llm
          /\ runs'[i].tools = runs[i].tools
      BY <2>4 DEF RunTypes, AgentRun
    <2> HIDE DEF c
    <2>6. runner' = [runner EXCEPT ![r] = c] /\ runner'[r] = c
      BY <2>1 DEF Become, RunTypes, c
    <2>7. RunTypes'
      BY <2>2, <2>3, <2>4, <2>6 DEF RunTypes
    <2>8. RunRowOK(runs[i], calls[i])
      BY DEF RowsInv
    <2>9. RunRowOK(runs'[i], calls[i]) /\ Counts(c, runs'[i], calls[i])
      <3>1. runs[i].iterations = 0 /\ runs[i].llm = 0 /\ runs[i].tools = 0 /\ Len(calls[i]) = 0
        BY <2>1, <2>8 DEF RunRowOK
      <3>. QED
        BY <2>3, <2>5, <2>8, <3>1 DEF RunRowOK, Counts, AllDone
    <2>10. RowsInv'
      BY <2>2, <2>4, <2>5, <2>9 DEF RowsInv
    <2>11. \A q \in Runner \ {r} : /\ runner'[q] = runner[q]
                                   /\ Holds(q) => runner[q].run \in RunId \ {i}
      BY <2>1, <2>6, HolderTyped DEF RunTypes, HoldersInv, Fits
    <2>12. HeldOnce'
      BY <2>3, <2>6, <2>11 DEF HeldOnce, Holds
    <2>13. OneActive'
      <3>1. \A k \in RunId \ {i} : runs'[k] = runs[k]
                                   /\ (Active(k)' => runs'[k].agent # runs'[i].agent)
        BY <1>2, <2>4, <2>5 DEF Active
      <3>. QED
        BY <3>1 DEF OneActive, Active
    <2>14. HoldersInv'
      <3>1. Fits(c, runs'[i], calls'[i])
        BY <2>2, <2>3, <2>5, <2>9 DEF Fits, InRun, InLoop
      <3>2. ASSUME NEW q \in Runner \ {r}, Holds(q)'
            PROVE  /\ Fits(runner'[q], runs'[runner'[q].run], calls'[runner'[q].run])
                   /\ runner'[q].pc = "count" => workflowCalls' > 0
        BY <2>2, <2>4, <2>11, <3>2 DEF HoldersInv, Holds
      <3>. QED
        BY <2>3, <2>6, <3>1, <3>2 DEF HoldersInv
    <2>. QED
      BY <2>2, <2>7, <2>10, <2>12, <2>13, <2>14
  <1>. QED
    BY <1>1, <1>2

-----------------------------------------------------------------------------
(* The loop.                                                                *)

(* What a coroutine that holds a run knows of it.                             *)
LEMMA AtWork ==
    ASSUME RunInv, NEW r \in Runner, runner[r].pc \in InRun \cup {"created", "fail"}
    PROVE  /\ Holds(r)
           /\ runner[r] \in Holder
           /\ \E i \in RunId :
                /\ i = runner[r].run
                /\ runs[i] \in AgentRun /\ calls[i] \in Seq(ToolCallStatus)
                /\ RunRowOK(runs[i], calls[i]) /\ (runs[i].llm > 0 => workflowCalls > 0)
                /\ Fits(runner[r], runs[i], calls[i])
                /\ runner[r].pc # "fail" => Counts(runner[r], runs[i], calls[i])
                /\ runner[r].pc = "count" => workflowCalls > 0
  <1>1. Holds(r)
    BY DEF Holds, InRun, InLoop
  <1>2. runner[r] \in Holder /\ runner[r].run \in RunId
    BY <1>1, HolderTyped DEF RunInv
  <1>. QED
    BY <1>1, <1>2 DEF RunInv, RunTypes, RowsInv, HoldersInv, Fits

(* A move within the loop.                                                   *)
LEMMA GoBecomes ==
    ASSUME RunTypes, NEW r \in Runner, runner[r] \in Holder,
           NEW pc \in InRun \cup {"created", "fail"}, Go(r, pc)
    PROVE  LET c == [runner[r] EXCEPT !.pc = pc] IN
           /\ Become(r, c) /\ c \in Holder /\ c # Resting
           /\ c.pc = pc /\ c.run = runner[r].run /\ c.left = runner[r].left
           /\ c.iteration = runner[r].iteration /\ c.llm = runner[r].llm
           /\ c.tool = runner[r].tool
  <1>1. runner' = [runner EXCEPT ![r] = [runner[r] EXCEPT !.pc = pc]]
    BY DEF Go, RunTypes
  <1>2. [runner[r] EXCEPT !.pc = pc] \in Holder
    BY DEF Holder
  <1>3. [runner[r] EXCEPT !.pc = pc] # Resting
    BY DEF Holder, Resting
  <1>. QED
    BY <1>1, <1>2, <1>3 DEF Become, Holder

LEMMA StartRunKeeps ==
    ASSUME RunInv, NEW r \in Runner, StartRun(r)
    PROVE  RunInv'
  <1> DEFINE c == [runner[r] EXCEPT !.pc = "iterate"]
  <1>1. runner[r].pc = "created" /\ Go(r, "iterate") /\ UNCHANGED <<calls, workflowCalls>>
    BY DEF StartRun
  <1>2. PICK i \in RunId :
          /\ i = runner[r].run /\ runs[i] \in AgentRun /\ RunRowOK(runs[i], calls[i])
          /\ runs[i].llm > 0 => workflowCalls > 0
          /\ Fits(runner[r], runs[i], calls[i]) /\ Counts(runner[r], runs[i], calls[i])
    BY <1>1, AtWork
  <1>3. Holds(r) /\ runner[r] \in Holder
    BY <1>1, AtWork
  <1>4. /\ Become(r, c) /\ c \in Holder /\ c # Resting /\ c.pc = "iterate" /\ c.run = i
        /\ c.left = runner[r].left /\ c.iteration = runner[r].iteration
        /\ c.llm = runner[r].llm /\ c.tool = runner[r].tool
    BY <1>1, <1>2, <1>3, GoBecomes DEF RunInv, InRun, InLoop
  <1> HIDE DEF c
  <1>5. runs' = [runs EXCEPT ![i] = [runs[i] EXCEPT !.status = "RUNNING"]]
    BY <1>2 DEF StartRun
  <1>6. OnlyRun(i) /\ runs'[i] = [runs[i] EXCEPT !.status = "RUNNING"]
    BY <1>1, <1>2, <1>5 DEF OnlyRun, RunInv, RunTypes, AgentRun, AgentRunStatus
  <1>7. /\ runs'[i].status = "RUNNING" /\ runs'[i].agent = runs[i].agent
        /\ runs'[i].iterations = runs[i].iterations /\ runs'[i].llm = runs[i].llm
        /\ runs'[i].tools = runs[i].tools
    BY <1>2, <1>6 DEF AgentRun
  <1>8. RunRowOK(runs'[i], calls'[i])
    BY <1>1, <1>2, <1>7 DEF RunRowOK
  <1>9. Fits(c, runs'[i], calls'[i])
    BY <1>1, <1>2, <1>4, <1>7 DEF Fits, Counts
  <1>10. Active(i)
    BY <1>1, <1>2 DEF Active, Fits
  <1>. QED
    BY <1>1, <1>2, <1>3, <1>4, <1>6, <1>7, <1>8, <1>9, <1>10, HolderMoves DEF RunInv, RunTypes

LEMMA BeginIterationKeeps ==
    ASSUME RunInv, NEW r \in Runner, BeginIteration(r)
    PROVE  RunInv'
  <1>1. runner[r].pc = "iterate" /\ UNCHANGED <<calls, workflowCalls>>
    BY DEF BeginIteration
  <1>2. PICK i \in RunId :
          /\ i = runner[r].run /\ runs[i] \in AgentRun /\ RunRowOK(runs[i], calls[i])
          /\ runs[i].llm > 0 => workflowCalls > 0
          /\ Fits(runner[r], runs[i], calls[i]) /\ Counts(runner[r], runs[i], calls[i])
    BY <1>1, AtWork DEF InRun, InLoop
  <1>3. Holds(r) /\ runner[r] \in Holder
    BY <1>1, AtWork DEF InRun, InLoop
  <1>4. CASE runner[r].iteration >= MaxIterations \/ runner[r].llm >= MaxLLMCalls
    BY <1>1, <1>3, <1>4, RaiseKeeps DEF BeginIteration
  <1>5. CASE ~(runner[r].iteration >= MaxIterations \/ runner[r].llm >= MaxLLMCalls)
    <2> DEFINE c == [runner[r] EXCEPT !.pc = "read", !.iteration = @ + 1]
    <2>1. Become(r, c) /\ runs' = [runs EXCEPT ![i] = [runs[i] EXCEPT !.iterations = @ + 1]]
      BY <1>2, <1>5 DEF BeginIteration
    <2>2. /\ c \in Holder /\ c # Resting /\ c.pc = "read" /\ c.run = i
          /\ c.iteration = runner[r].iteration + 1 /\ c.llm = runner[r].llm
          /\ c.tool = runner[r].tool
      <3>1. runner[r].iteration + 1 \in Nat
        BY <1>3 DEF Holder
      <3>. QED
        BY <1>2, <1>3, <3>1 DEF Holder, Resting, InRun, InLoop
    <2> HIDE DEF c
    <2>3. OnlyRun(i) /\ runs'[i] = [runs[i] EXCEPT !.iterations = @ + 1]
      <3>1. runs[i].iterations + 1 \in Nat
        BY <1>2 DEF AgentRun
      <3>2. [runs[i] EXCEPT !.iterations = @ + 1] \in AgentRun
        BY <1>2, <3>1 DEF AgentRun
      <3>. QED
        BY <1>1, <2>1, <3>2 DEF OnlyRun, RunInv, RunTypes
    <2>4. /\ runs'[i].status = runs[i].status /\ runs'[i].agent = runs[i].agent
          /\ runs'[i].iterations = runs[i].iterations + 1 /\ runs'[i].llm = runs[i].llm
          /\ runs'[i].tools = runs[i].tools
      BY <1>2, <2>3 DEF AgentRun
    <2>5. runs[i].status = "RUNNING" /\ runs[i].iterations = runner[r].iteration
          /\ runs[i].llm = runner[r].llm /\ runs[i].iterations = runs[i].llm
      BY <1>1, <1>2 DEF Fits, Counts, InRun, InLoop
    <2>6. /\ runs[i].iterations \in Nat /\ runs[i].llm \in Nat
          /\ runs[i].iterations < MaxIterations /\ runs[i].llm < MaxLLMCalls
      BY <1>2, <1>3, <1>5, <2>5, AgentLoopAssumption DEF Holder, AgentRun
    <2>7. RunRowOK(runs'[i], calls'[i])
      BY <1>1, <1>2, <2>4, <2>5, <2>6, AgentLoopAssumption DEF RunRowOK
    <2>8. Fits(c, runs'[i], calls'[i])
      <3>1. Len(calls[i]) = c.tool /\ AllDone(calls[i])
        BY <1>1, <1>2, <2>2 DEF Counts
      <3>. QED
        BY <1>1, <2>2, <2>4, <2>5, <2>6, <3>1 DEF Fits, Counts
    <2>9. Active(i)
      BY <2>5 DEF Active
    <2>. QED
      BY <1>1, <1>2, <1>3, <2>1, <2>2, <2>3, <2>4, <2>7, <2>8, <2>9, HolderMoves DEF RunInv, RunTypes
  <1>. QED
    BY <1>4, <1>5

LEMMA ReadWorkflowKeeps ==
    ASSUME RunInv, NEW r \in Runner, ReadWorkflow(r)
    PROVE  RunInv'
  <1> DEFINE c == [runner[r] EXCEPT !.pc = "reserve", !.hint = workflowCalls]
  <1>1. /\ runner[r].pc = "read" /\ UNCHANGED <<runs, calls, workflowCalls>>
        /\ Become(r, c)
    BY DEF ReadWorkflow
  <1>2. PICK i \in RunId : /\ i = runner[r].run /\ Fits(runner[r], runs[i], calls[i])
                           /\ Counts(runner[r], runs[i], calls[i])
    BY <1>1, AtWork DEF InRun, InLoop
  <1>3. Holds(r) /\ runner[r] \in Holder /\ workflowCalls \in Nat
    BY <1>1, AtWork DEF InRun, InLoop, RunInv, RunTypes
  <1>4. /\ c \in Holder /\ c # Resting /\ c.pc = "reserve" /\ c.run = i
        /\ c.iteration = runner[r].iteration /\ c.llm = runner[r].llm /\ c.tool = runner[r].tool
    BY <1>2, <1>3 DEF Holder, Resting, InRun, InLoop
  <1> HIDE DEF c
  <1>5. Fits(c, runs[i], calls[i])
    BY <1>1, <1>2, <1>4 DEF Fits, Counts, InRun, InLoop
  <1>. QED
    BY <1>1, <1>2, <1>3, <1>4, <1>5, RunnerMoves DEF RunInv

LEMMA ReserveCallKeeps ==
    ASSUME RunInv, NEW r \in Runner, ReserveCall(r)
    PROVE  RunInv'
  <1>1. runner[r].pc = "reserve" /\ UNCHANGED <<runs, calls>>
    BY DEF ReserveCall
  <1>2. PICK i \in RunId : /\ i = runner[r].run /\ Fits(runner[r], runs[i], calls[i])
                           /\ Counts(runner[r], runs[i], calls[i])
    BY <1>1, AtWork DEF InRun, InLoop
  <1>3. Holds(r) /\ runner[r] \in Holder
    BY <1>1, AtWork DEF InRun, InLoop
  <1>4. CASE runner[r].hint >= MaxWorkflowCalls
    BY <1>1, <1>3, <1>4, RaiseKeeps DEF ReserveCall
  <1>5. CASE ~(runner[r].hint >= MaxWorkflowCalls)
    <2> DEFINE c == [runner[r] EXCEPT !.pc = "count"]
    <2>1. workflowCalls' = runner[r].hint + 1 /\ Go(r, "count") /\ runner[r].hint \in Nat
      BY <1>3, <1>5 DEF ReserveCall, Holder
    <2>2. /\ Become(r, c) /\ c \in Holder /\ c # Resting /\ c.pc = "count" /\ c.run = i
          /\ c.left = runner[r].left /\ c.iteration = runner[r].iteration
          /\ c.llm = runner[r].llm /\ c.tool = runner[r].tool
      BY <1>2, <1>3, <2>1, GoBecomes DEF RunInv, InRun, InLoop
    <2> HIDE DEF c
    <2>3. Fits(c, runs[i], calls[i])
      BY <1>1, <1>2, <2>2 DEF Fits, Counts, InRun, InLoop
    <2>4. workflowCalls' \in Nat /\ workflowCalls' <= MaxWorkflowCalls /\ workflowCalls' > 0
      BY <1>5, <2>1, AgentLoopAssumption
    <2>. QED
      BY <1>1, <1>2, <1>3, <2>2, <2>3, <2>4, RunnerMoves
  <1>. QED
    BY <1>4, <1>5

LEMMA RecordLLMCallKeeps ==
    ASSUME RunInv, NEW r \in Runner, RecordLLMCall(r)
    PROVE  RunInv'
  <1> DEFINE c == [runner[r] EXCEPT !.pc = "turn", !.llm = @ + 1]
  <1>1. runner[r].pc = "count" /\ UNCHANGED <<calls, workflowCalls>> /\ Become(r, c)
    BY DEF RecordLLMCall
  <1>2. PICK i \in RunId :
          /\ i = runner[r].run /\ runs[i] \in AgentRun /\ RunRowOK(runs[i], calls[i])
          /\ Fits(runner[r], runs[i], calls[i]) /\ Counts(runner[r], runs[i], calls[i])
    BY <1>1, AtWork DEF InRun, InLoop
  <1>3. Holds(r) /\ runner[r] \in Holder /\ workflowCalls > 0
    BY <1>1, AtWork DEF InRun, InLoop
  <1>4. /\ c \in Holder /\ c # Resting /\ c.pc = "turn" /\ c.run = i
        /\ c.iteration = runner[r].iteration /\ c.llm = runner[r].llm + 1 /\ c.tool = runner[r].tool
    <2>1. runner[r].llm + 1 \in Nat
      BY <1>3 DEF Holder
    <2>. QED
      BY <1>2, <1>3, <2>1 DEF Holder, Resting, InRun, InLoop
  <1> HIDE DEF c
  <1>5. runs' = [runs EXCEPT ![i] = [runs[i] EXCEPT !.llm = @ + 1]]
    BY <1>2 DEF RecordLLMCall
  <1>6. OnlyRun(i) /\ runs'[i] = [runs[i] EXCEPT !.llm = @ + 1]
    <2>1. runs[i].llm + 1 \in Nat
      BY <1>2 DEF AgentRun
    <2>2. [runs[i] EXCEPT !.llm = @ + 1] \in AgentRun
      BY <1>2, <2>1 DEF AgentRun
    <2>. QED
      BY <1>1, <1>5, <2>2 DEF OnlyRun, RunInv, RunTypes
  <1>7. /\ runs'[i].status = runs[i].status /\ runs'[i].agent = runs[i].agent
        /\ runs'[i].iterations = runs[i].iterations /\ runs'[i].llm = runs[i].llm + 1
        /\ runs'[i].tools = runs[i].tools
    BY <1>2, <1>6 DEF AgentRun
  <1>8. /\ runs[i].status = "RUNNING" /\ runs[i].iterations = runs[i].llm + 1
        /\ runs[i].llm < MaxLLMCalls /\ runs[i].llm = runner[r].llm
        /\ runs[i].iterations = runner[r].iteration
        /\ Len(calls[i]) = runner[r].tool /\ AllDone(calls[i])
    BY <1>1, <1>2 DEF Fits, Counts, InRun, InLoop
  <1>9. runs[i].iterations \in Nat /\ runs[i].llm \in Nat
    BY <1>2 DEF AgentRun
  <1>10. RunRowOK(runs'[i], calls'[i])
    BY <1>1, <1>2, <1>7, <1>8, <1>9, AgentLoopAssumption DEF RunRowOK
  <1>11. Fits(c, runs'[i], calls'[i])
    BY <1>1, <1>4, <1>7, <1>8, <1>9 DEF Fits, Counts
  <1>12. Active(i)
    BY <1>8 DEF Active
  <1>. QED
    BY <1>1, <1>2, <1>3, <1>4, <1>6, <1>7, <1>10, <1>11, <1>12, HolderMoves DEF RunInv, RunTypes

LEMMA FinalTurnKeeps ==
    ASSUME RunInv, NEW r \in Runner, FinalTurn(r)
    PROVE  RunInv'
  <1>1. runner[r].pc = "turn" /\ UNCHANGED <<runs, calls, workflowCalls>>
    BY DEF FinalTurn
  <1>2. PICK i \in RunId : /\ i = runner[r].run /\ Fits(runner[r], runs[i], calls[i])
                           /\ Counts(runner[r], runs[i], calls[i])
    BY <1>1, AtWork DEF InRun, InLoop
  <1>3. Holds(r) /\ runner[r] \in Holder
    BY <1>1, AtWork DEF InRun, InLoop
  <1>4. PICK n \in 0..(MaxProposals + 1) :
          IF n > MaxProposals THEN Raise(r, "LIMIT_EXCEEDED")
          ELSE Become(r, [runner[r] EXCEPT !.pc = "propose", !.left = n])
    BY DEF FinalTurn
  <1>5. CASE n > MaxProposals
    BY <1>1, <1>3, <1>4, <1>5, RaiseKeeps
  <1>6. CASE ~(n > MaxProposals)
    <2> DEFINE c == [runner[r] EXCEPT !.pc = "propose", !.left = n]
    <2>1. Become(r, c) /\ n \in Nat
      BY <1>4, <1>6, AgentLoopAssumption
    <2>2. /\ c \in Holder /\ c # Resting /\ c.pc = "propose" /\ c.run = i
          /\ c.iteration = runner[r].iteration /\ c.llm = runner[r].llm /\ c.tool = runner[r].tool
      BY <1>2, <1>3, <2>1 DEF Holder, Resting, InRun, InLoop
    <2> HIDE DEF c
    <2>3. Fits(c, runs[i], calls[i])
      BY <1>1, <1>2, <2>2 DEF Fits, Counts, InRun, InLoop
    <2>. QED
      BY <1>1, <1>2, <1>3, <2>1, <2>2, <2>3, RunnerMoves DEF RunInv, RunTypes
  <1>. QED
    BY <1>5, <1>6

LEMMA ToolTurnKeeps ==
    ASSUME RunInv, NEW r \in Runner, ToolTurn(r)
    PROVE  RunInv'
  <1>1. runner[r].pc = "turn" /\ UNCHANGED <<runs, calls, workflowCalls>>
    BY DEF ToolTurn
  <1>2. PICK i \in RunId : /\ i = runner[r].run /\ Fits(runner[r], runs[i], calls[i])
                           /\ Counts(runner[r], runs[i], calls[i])
    BY <1>1, AtWork DEF InRun, InLoop
  <1>3. Holds(r) /\ runner[r] \in Holder
    BY <1>1, AtWork DEF InRun, InLoop
  <1>4. PICK n \in 0..(MaxToolCalls + 1) :
          IF runner[r].tool + n > MaxToolCalls THEN Raise(r, "LIMIT_EXCEEDED")
          ELSE Become(r, [runner[r] EXCEPT !.pc = "tools", !.left = n])
    BY DEF ToolTurn
  <1>5. CASE runner[r].tool + n > MaxToolCalls
    BY <1>1, <1>3, <1>4, <1>5, RaiseKeeps
  <1>6. CASE ~(runner[r].tool + n > MaxToolCalls)
    <2> DEFINE c == [runner[r] EXCEPT !.pc = "tools", !.left = n]
    <2>1. Become(r, c) /\ n \in Nat /\ runner[r].tool \in Nat
      BY <1>3, <1>4, <1>6, AgentLoopAssumption DEF Holder
    <2>2. /\ c \in Holder /\ c # Resting /\ c.pc = "tools" /\ c.run = i /\ c.left = n
          /\ c.iteration = runner[r].iteration /\ c.llm = runner[r].llm /\ c.tool = runner[r].tool
      BY <1>2, <1>3, <2>1 DEF Holder, Resting, InRun, InLoop
    <2> HIDE DEF c
    <2>3. c.tool + c.left <= MaxToolCalls
      BY <1>6, <2>1, <2>2, AgentLoopAssumption
    <2>4. Fits(c, runs[i], calls[i])
      BY <1>1, <1>2, <2>2, <2>3 DEF Fits, Counts, InRun, InLoop
    <2>. QED
      BY <1>1, <1>2, <1>3, <2>1, <2>2, <2>4, RunnerMoves DEF RunInv, RunTypes
  <1>. QED
    BY <1>5, <1>6

LEMMA ProposeKeeps ==
    ASSUME RunInv, NEW r \in Runner, ProposeAction(r)
    PROVE  RunInv'
  <1>1. runner[r].pc = "propose" /\ UNCHANGED <<runs, calls, workflowCalls>>
    BY DEF ProposeAction
  <1>2. PICK i \in RunId : /\ i = runner[r].run /\ Fits(runner[r], runs[i], calls[i])
                           /\ Counts(runner[r], runs[i], calls[i])
    BY <1>1, AtWork DEF InRun, InLoop
  <1>3. Holds(r) /\ runner[r] \in Holder
    BY <1>1, AtWork DEF InRun, InLoop
  <1>4. CASE runner[r].left = 0
    <2> DEFINE c == [runner[r] EXCEPT !.pc = "returned"]
    <2>1. /\ Become(r, c) /\ c \in Holder /\ c # Resting /\ c.pc = "returned" /\ c.run = i
          /\ c.iteration = runner[r].iteration /\ c.llm = runner[r].llm /\ c.tool = runner[r].tool
      BY <1>2, <1>3, <1>4, GoBecomes DEF RunInv, ProposeAction, InRun
    <2> HIDE DEF c
    <2>2. Fits(c, runs[i], calls[i])
      BY <1>1, <1>2, <2>1 DEF Fits, Counts, InRun, InLoop
    <2>. QED
      BY <1>1, <1>2, <1>3, <2>1, <2>2, RunnerMoves DEF RunInv, RunTypes
  <1>5. CASE runner[r].left # 0
    <2> DEFINE c == [runner[r] EXCEPT !.left = @ - 1]
    <2>1. runner[r].left - 1 \in Nat
      BY <1>3, <1>5 DEF Holder
    <2>2. Become(r, c)
      BY <1>5 DEF ProposeAction, Become, RunInv, RunTypes
    <2>3. /\ c \in Holder /\ c # Resting /\ c.pc = "propose" /\ c.run = i
          /\ c.iteration = runner[r].iteration /\ c.llm = runner[r].llm /\ c.tool = runner[r].tool
      BY <1>1, <1>2, <1>3, <2>1 DEF Holder, Resting, InRun, InLoop
    <2> HIDE DEF c
    <2>4. Fits(c, runs[i], calls[i])
      BY <1>1, <1>2, <2>3 DEF Fits, Counts, InRun, InLoop
    <2>. QED
      BY <1>1, <1>2, <1>3, <2>2, <2>3, <2>4, RunnerMoves DEF RunInv, RunTypes
  <1>. QED
    BY <1>4, <1>5

LEMMA InterruptKeeps ==
    ASSUME RunInv, NEW r \in Runner, Interrupt(r)
    PROVE  RunInv'
  <1>1. runner[r].pc \in InRun /\ UNCHANGED <<runs, calls, workflowCalls>>
    BY DEF Interrupt, InRun
  <1>2. Holds(r)
    BY <1>1, AtWork
  <1>3. PICK status \in {"FAILED", "LIMIT_EXCEEDED"} : Raise(r, status)
    BY DEF Interrupt
  <1>. QED
    BY <1>1, <1>2, <1>3, RaiseKeeps

-----------------------------------------------------------------------------
(* The tools.                                                               *)

LEMMA EndBatchKeeps ==
    ASSUME RunInv, NEW r \in Runner, EndBatch(r)
    PROVE  RunInv'
  <1> DEFINE c == [runner[r] EXCEPT !.pc = "iterate"]
  <1>1. /\ runner[r].pc = "tools" /\ Go(r, "iterate")
        /\ UNCHANGED <<runs, calls, workflowCalls>>
    BY DEF EndBatch
  <1>2. PICK i \in RunId : /\ i = runner[r].run /\ Fits(runner[r], runs[i], calls[i])
                           /\ Counts(runner[r], runs[i], calls[i])
    BY <1>1, AtWork DEF InRun, InLoop
  <1>3. Holds(r) /\ runner[r] \in Holder
    BY <1>1, AtWork DEF InRun, InLoop
  <1>4. /\ Become(r, c) /\ c \in Holder /\ c # Resting /\ c.pc = "iterate" /\ c.run = i
        /\ c.iteration = runner[r].iteration /\ c.llm = runner[r].llm /\ c.tool = runner[r].tool
    BY <1>1, <1>2, <1>3, GoBecomes DEF RunInv, InRun, InLoop
  <1> HIDE DEF c
  <1>5. Fits(c, runs[i], calls[i])
    BY <1>1, <1>2, <1>4 DEF Fits, Counts, InRun, InLoop
  <1>. QED
    BY <1>1, <1>2, <1>3, <1>4, <1>5, RunnerMoves DEF RunInv, RunTypes

LEMMA CreateToolCallKeeps ==
    ASSUME RunInv, NEW r \in Runner, CreateToolCall(r)
    PROVE  RunInv'
  <1>1. runner[r].pc = "tools" /\ runner[r].left > 0 /\ UNCHANGED workflowCalls
    BY DEF CreateToolCall
  <1>2. PICK i \in RunId :
          /\ i = runner[r].run /\ runs[i] \in AgentRun /\ RunRowOK(runs[i], calls[i])
          /\ calls[i] \in Seq(ToolCallStatus)
          /\ runs[i].llm > 0 => workflowCalls > 0
          /\ Fits(runner[r], runs[i], calls[i]) /\ Counts(runner[r], runs[i], calls[i])
    BY <1>1, AtWork DEF InRun, InLoop
  <1>3. Holds(r) /\ runner[r] \in Holder
    BY <1>1, AtWork DEF InRun, InLoop
  <1>4. /\ runs[i].status = "RUNNING" /\ AllDone(calls[i]) /\ Len(calls[i]) = runner[r].tool
        /\ runner[r].tool + runner[r].left <= MaxToolCalls
        /\ runner[r].tool \in Nat /\ runner[r].left \in Nat
    BY <1>1, <1>2, <1>3 DEF Fits, Counts, InRun, InLoop, Holder
  <1> DEFINE t == Append(calls[i], "REQUESTED")
  <1>5. t \in Seq(ToolCallStatus) /\ Len(t) = Len(calls[i]) + 1 /\ LastOpen(t)
    BY <1>2, <1>4, CallAppended DEF ToolCallStatus
  <1>6. calls' = [calls EXCEPT ![i] = t]
    BY <1>2 DEF CreateToolCall
  <1> HIDE DEF t
  <1>7. /\ calls'[i] = t /\ calls' \in [RunId -> Seq(ToolCallStatus)]
        /\ \A k \in RunId \ {i} : calls'[k] = calls[k]
    BY <1>5, <1>6 DEF RunInv, RunTypes
  <1>8. runs' = [runs EXCEPT ![i] = [runs[i] EXCEPT !.tools = @ + 1]]
    BY <1>2 DEF CreateToolCall
  <1>9. /\ runs' \in [RunId -> AgentRun] /\ runs'[i] = [runs[i] EXCEPT !.tools = @ + 1]
        /\ \A k \in RunId \ {i} : runs'[k] = runs[k]
    <2>1. runs[i].tools + 1 \in Nat
      BY <1>2 DEF AgentRun
    <2>2. [runs[i] EXCEPT !.tools = @ + 1] \in AgentRun
      BY <1>2, <2>1 DEF AgentRun
    <2>. QED
      BY <1>8, <2>2 DEF RunInv, RunTypes
  <1>10. runs[i].tools = Len(calls[i]) /\ Len(calls'[i]) = runs[i].tools + 1
    BY <1>2, <1>5, <1>7 DEF RunRowOK
  <1>11. OnlyRun(i) /\ LastOpen(calls'[i]) /\ Len(calls'[i]) <= MaxToolCalls
    <2>1. OnlyRun(i)
      BY <1>7, <1>9 DEF OnlyRun
    <2>2. Len(t) <= MaxToolCalls
      <3>1. Len(t) = runner[r].tool + 1
        BY <1>4, <1>5
      <3> HIDE DEF t
      <3>. QED
        BY <1>1, <1>4, <3>1, AgentLoopAssumption
    <2>. QED
      BY <1>5, <1>7, <2>1, <2>2
  <1>12. runs'[i] = [runs[i] EXCEPT !.tools = Len(calls'[i])]
    BY <1>9, <1>10
  <1>13. ASSUME NEW status \in {"FAILED", "LIMIT_EXCEEDED"}, Raise(r, status)
         PROVE  RunInv'
    BY <1>1, <1>2, <1>3, <1>4, <1>11, <1>12, <1>13, RaiseAfterCall
  <1>14. ASSUME Go(r, "requested")
         PROVE  RunInv'
    <2> DEFINE c == [runner[r] EXCEPT !.pc = "requested"]
    <2>1. /\ Become(r, c) /\ c \in Holder /\ c # Resting /\ c.pc = "requested" /\ c.run = i
          /\ c.left = runner[r].left /\ c.iteration = runner[r].iteration
          /\ c.llm = runner[r].llm /\ c.tool = runner[r].tool
      BY <1>2, <1>3, <1>14, GoBecomes DEF RunInv, InRun, InLoop
    <2> HIDE DEF c
    <2>2. /\ runs'[i].status = "RUNNING" /\ runs'[i].agent = runs[i].agent
          /\ runs'[i].iterations = runs[i].iterations /\ runs'[i].llm = runs[i].llm
          /\ runs'[i].tools = Len(calls'[i])
      BY <1>2, <1>4, <1>12 DEF AgentRun
    <2>3. RunRowOK(runs'[i], calls'[i])
      BY <1>2, <1>4, <1>11, <2>2 DEF RunRowOK
    <2>4. Fits(c, runs'[i], calls'[i])
      <3>1. /\ runs[i].iterations = runner[r].iteration /\ runs[i].llm = runner[r].llm
            /\ runner[r].iteration = runner[r].llm
        BY <1>1, <1>2 DEF Counts
      <3>2. Len(calls'[i]) = c.tool + 1
        BY <1>4, <1>5, <1>7, <2>1
      <3>. QED
        BY <1>1, <1>4, <2>1, <2>2, <3>1, <3>2 DEF Fits, Counts, InRun, InLoop
    <2>5. Active(i)
      BY <1>4 DEF Active
    <2>. QED
      BY <1>1, <1>2, <1>3, <1>11, <2>1, <2>2, <2>3, <2>4, <2>5, HolderMoves DEF RunInv, RunTypes
  <1>. QED
    BY <1>13, <1>14 DEF CreateToolCall

(* What changes the status of the last call, and ends or goes on.               *)
LEMMA LastCall ==
    ASSUME RunInv, NEW r \in Runner, runner[r].pc \in {"requested", "handling"},
           NEW e \in ToolCallStatus, SetCall(runner[r].run, e), UNCHANGED <<runs, workflowCalls>>
    PROVE  \E i \in RunId :
             /\ i = runner[r].run /\ OnlyRun(i)
             /\ runs[i] \in AgentRun /\ runs[i].status = "RUNNING"
             /\ RunRowOK(runs[i], calls[i]) /\ RunRowOK(runs'[i], calls'[i])
             /\ runs[i].llm > 0 => workflowCalls > 0
             /\ Len(calls'[i]) = Len(calls[i]) /\ LastOpen(calls'[i])
             /\ e = "COMPLETED" => AllDone(calls'[i])
             /\ Counts(runner[r], runs[i], calls[i])
             /\ runs'[i] = [runs[i] EXCEPT !.tools = Len(calls'[i])]
             /\ Len(calls'[i]) <= MaxToolCalls
  <1>1. PICK i \in RunId :
          /\ i = runner[r].run /\ runs[i] \in AgentRun /\ RunRowOK(runs[i], calls[i])
          /\ calls[i] \in Seq(ToolCallStatus)
          /\ runs[i].llm > 0 => workflowCalls > 0
          /\ Fits(runner[r], runs[i], calls[i]) /\ Counts(runner[r], runs[i], calls[i])
    BY AtWork DEF InRun, InLoop
  <1>2. runner[r] \in Holder
    BY AtWork DEF InRun, InLoop
  <1>3. runs[i].status = "RUNNING" /\ Len(calls[i]) = runner[r].tool + 1
    BY <1>1 DEF Fits, Counts, InRun, InLoop
  <1>4. Len(calls[i]) > 0
    BY <1>2, <1>3 DEF Holder
  <1>5. /\ calls' \in [RunId -> Seq(ToolCallStatus)]
        /\ \A k \in RunId \ {i} : calls'[k] = calls[k]
        /\ Len(calls'[i]) = Len(calls[i]) /\ LastOpen(calls'[i])
        /\ e = "COMPLETED" => AllDone(calls'[i])
    BY <1>1, <1>4, CallSetOfRun DEF RunInv
  <1>6. OnlyRun(i)
    BY <1>5 DEF OnlyRun, RunInv, RunTypes
  <1>7. RunRowOK(runs'[i], calls'[i])
    BY <1>1, <1>3, <1>5 DEF RunRowOK
  <1>8. runs'[i] = [runs[i] EXCEPT !.tools = Len(calls'[i])] /\ Len(calls'[i]) <= MaxToolCalls
    BY <1>1, <1>5 DEF RunRowOK, AgentRun
  <1>. QED
    BY <1>1, <1>3, <1>5, <1>6, <1>7, <1>8

LEMMA RejectToolCallKeeps ==
    ASSUME RunInv, NEW r \in Runner, RejectToolCall(r)
    PROVE  RunInv'
  <1>1. /\ runner[r].pc = "requested" /\ SetCall(runner[r].run, "REJECTED")
        /\ Raise(r, "FAILED") /\ UNCHANGED <<runs, workflowCalls>>
    BY DEF RejectToolCall
  <1>2. Holds(r)
    BY <1>1, AtWork DEF InRun, InLoop
  <1>3. "REJECTED" \in ToolCallStatus
    BY DEF ToolCallStatus
  <1>. QED
    BY <1>1, <1>2, <1>3, LastCall, RaiseAfterCall

LEMMA FailToolCallKeeps ==
    ASSUME RunInv, NEW r \in Runner, FailToolCall(r)
    PROVE  RunInv'
  <1>1. /\ runner[r].pc \in {"requested", "handling"} /\ SetCall(runner[r].run, "FAILED")
        /\ UNCHANGED <<runs, workflowCalls>>
    BY DEF FailToolCall
  <1>2. PICK status \in {"FAILED", "LIMIT_EXCEEDED"} : Raise(r, status)
    BY DEF FailToolCall
  <1>3. Holds(r)
    BY <1>1, AtWork DEF InRun, InLoop
  <1>4. "FAILED" \in ToolCallStatus
    BY DEF ToolCallStatus
  <1>. QED
    BY <1>1, <1>2, <1>3, <1>4, LastCall, RaiseAfterCall

LEMMA StartToolCallKeeps ==
    ASSUME RunInv, NEW r \in Runner, StartToolCall(r)
    PROVE  RunInv'
  <1> DEFINE c == [runner[r] EXCEPT !.pc = "handling"]
  <1>1. /\ runner[r].pc = "requested" /\ SetCall(runner[r].run, "RUNNING") /\ Go(r, "handling")
        /\ UNCHANGED <<runs, workflowCalls>>
    BY DEF StartToolCall
  <1>2. "RUNNING" \in ToolCallStatus
    BY DEF ToolCallStatus
  <1>3. PICK i \in RunId :
          /\ i = runner[r].run /\ OnlyRun(i) /\ runs[i].status = "RUNNING"
          /\ RunRowOK(runs'[i], calls'[i]) /\ (runs[i].llm > 0 => workflowCalls > 0)
          /\ Len(calls'[i]) = Len(calls[i]) /\ Counts(runner[r], runs[i], calls[i])
    BY <1>1, <1>2, LastCall
  <1>4. Holds(r) /\ runner[r] \in Holder
    BY <1>1, AtWork DEF InRun, InLoop
  <1>5. /\ Become(r, c) /\ c \in Holder /\ c # Resting /\ c.pc = "handling" /\ c.run = i
        /\ c.left = runner[r].left /\ c.iteration = runner[r].iteration
        /\ c.llm = runner[r].llm /\ c.tool = runner[r].tool
    BY <1>1, <1>3, <1>4, GoBecomes DEF RunInv, InRun, InLoop
  <1> HIDE DEF c
  <1>6. Fits(c, runs'[i], calls'[i])
    BY <1>1, <1>3, <1>5 DEF Fits, Counts, InRun, InLoop
  <1>7. Active(i) /\ runs'[i] = runs[i]
    BY <1>1, <1>3 DEF Active
  <1>. QED
    BY <1>1, <1>3, <1>4, <1>5, <1>6, <1>7, HolderMoves DEF RunInv, RunTypes

LEMMA FinishToolCallKeeps ==
    ASSUME RunInv, NEW r \in Runner, FinishToolCall(r)
    PROVE  RunInv'
  <1> DEFINE c == [runner[r] EXCEPT !.pc = "tools", !.left = @ - 1, !.tool = @ + 1]
  <1>1. /\ runner[r].pc = "handling" /\ SetCall(runner[r].run, "COMPLETED") /\ Become(r, c)
        /\ UNCHANGED <<runs, workflowCalls>>
    BY DEF FinishToolCall
  <1>2. "COMPLETED" \in ToolCallStatus
    BY DEF ToolCallStatus
  <1>3. PICK i \in RunId :
          /\ i = runner[r].run /\ OnlyRun(i) /\ runs[i].status = "RUNNING"
          /\ RunRowOK(runs'[i], calls'[i]) /\ (runs[i].llm > 0 => workflowCalls > 0)
          /\ Len(calls'[i]) = Len(calls[i]) /\ AllDone(calls'[i])
          /\ Counts(runner[r], runs[i], calls[i])
    BY <1>1, <1>2, LastCall
  <1>4. Holds(r) /\ runner[r] \in Holder
    BY <1>1, AtWork DEF InRun, InLoop
  <1>5. /\ runner[r].left > 0 /\ Len(calls[i]) = runner[r].tool + 1
        /\ runner[r].tool + runner[r].left <= MaxToolCalls
    BY <1>1, <1>3 DEF Counts
  <1>6. /\ runner[r].left \in Nat /\ runner[r].tool \in Nat
        /\ runner[r].left - 1 \in Nat /\ runner[r].tool + 1 \in Nat
    BY <1>4, <1>5 DEF Holder
  <1>7. /\ c \in Holder /\ c # Resting /\ c.pc = "tools" /\ c.run = i
        /\ c.left = runner[r].left - 1 /\ c.tool = runner[r].tool + 1
        /\ c.iteration = runner[r].iteration /\ c.llm = runner[r].llm
    BY <1>3, <1>4, <1>6 DEF Holder, Resting, InRun, InLoop
  <1> HIDE DEF c
  <1>8. c.tool + c.left <= MaxToolCalls
    <2>1. PICK n \in Nat, k \in Nat : n = runner[r].left /\ k = runner[r].tool
      BY <1>6
    <2>2. c.left = n - 1 /\ c.tool = k + 1 /\ k + n <= MaxToolCalls
      BY <1>5, <1>7, <2>1
    <2>3. (k + 1) + (n - 1) <= MaxToolCalls
      BY <2>2, AgentLoopAssumption
    <2>. QED
      BY <2>2, <2>3
  <1>9. Fits(c, runs'[i], calls'[i])
    <2>1. /\ runs[i].iterations = runner[r].iteration /\ runs[i].llm = runner[r].llm
          /\ runner[r].iteration = runner[r].llm
      BY <1>1, <1>3 DEF Counts
    <2>2. Len(calls'[i]) = c.tool
      BY <1>3, <1>5, <1>7
    <2>. QED
      BY <1>1, <1>3, <1>7, <1>8, <2>1, <2>2 DEF Fits, Counts
  <1>10. Active(i) /\ runs'[i] = runs[i]
    BY <1>1, <1>3 DEF Active
  <1>. QED
    BY <1>1, <1>3, <1>4, <1>7, <1>9, <1>10, HolderMoves DEF RunInv, RunTypes

-----------------------------------------------------------------------------
(* The end of a run.                                                         *)

LEMMA DieKeeps ==
    ASSUME RunInv, NEW r \in Runner, Die(r)
    PROVE  RunInv'
  <1>1. Become(r, Resting) /\ UNCHANGED <<runs, calls, workflowCalls>>
    BY DEF Die
  <1>. QED
    BY <1>1, FreeMoves

LEMMA CompleteRunKeeps ==
    ASSUME RunInv, NEW r \in Runner, CompleteRun(r)
    PROVE  RunInv'
  <1>1. /\ runner[r].pc = "returned" /\ UNCHANGED <<calls, workflowCalls>>
        /\ Become(r, Resting) \/ Raise(r, "FAILED")
    BY DEF CompleteRun
  <1>2. PICK i \in RunId :
          /\ i = runner[r].run /\ runs[i] \in AgentRun /\ RunRowOK(runs[i], calls[i])
          /\ runs[i].llm > 0 => workflowCalls > 0
          /\ Fits(runner[r], runs[i], calls[i]) /\ Counts(runner[r], runs[i], calls[i])
    BY <1>1, AtWork DEF InRun, InLoop
  <1>3. Holds(r)
    BY <1>1, AtWork DEF InRun, InLoop
  <1>4. runs' = [runs EXCEPT ![i] = [runs[i] EXCEPT !.status = "COMPLETED"]]
    BY <1>2 DEF CompleteRun
  <1>5. OnlyRun(i) /\ runs'[i] = [runs[i] EXCEPT !.status = "COMPLETED"]
    BY <1>1, <1>2, <1>4 DEF OnlyRun, RunInv, RunTypes, AgentRun, AgentRunStatus
  <1>6. /\ runs'[i].status = "COMPLETED" /\ runs'[i].agent = runs[i].agent
        /\ runs'[i].iterations = runs[i].iterations /\ runs'[i].llm = runs[i].llm
        /\ runs'[i].tools = runs[i].tools
    BY <1>2, <1>5 DEF AgentRun
  <1>7. RunRowOK(runs'[i], calls'[i])
    <2>1. AllDone(calls[i])
      BY <1>1, <1>2 DEF Counts
    <2>. QED
      BY <1>1, <1>2, <1>6, <2>1 DEF RunRowOK
  <1>8. ~Active(i)'
    BY <1>6 DEF Active
  <1>9. ASSUME NEW c \in Holder \cup {Resting}, Become(r, c),
               c # Resting => c.run = i /\ c.pc = "fail", c.pc # "count"
        PROVE  RunInv'
    <2>1. c # Resting => Fits(c, runs'[i], calls'[i])
      BY <1>6, <1>9 DEF Fits, InRun, InLoop
    <2>. QED
      BY <1>1, <1>2, <1>3, <1>5, <1>6, <1>7, <1>8, <1>9, <2>1, HolderMoves DEF RunInv, RunTypes
  <1>10. ASSUME Raise(r, "FAILED")
         PROVE  RunInv'
    BY <1>2, <1>3, <1>9, <1>10, RaiseBecomes DEF RunInv
  <1>. QED
    BY <1>1, <1>9, <1>10 DEF Resting

LEMMA FailRunKeeps ==
    ASSUME RunInv, NEW r \in Runner, FailRun(r)
    PROVE  RunInv'
  <1>1. runner[r].pc = "fail" /\ Become(r, Resting) /\ UNCHANGED <<calls, workflowCalls>>
    BY DEF FailRun
  <1>2. PICK i \in RunId :
          /\ i = runner[r].run /\ runs[i] \in AgentRun /\ RunRowOK(runs[i], calls[i])
          /\ runs[i].llm > 0 => workflowCalls > 0
    BY <1>1, AtWork
  <1>3. Holds(r) /\ runner[r].why \in {"FAILED", "LIMIT_EXCEEDED"}
    BY <1>1, AtWork DEF Holder
  <1>4. CASE ~Active(i)
    BY <1>1, <1>2, <1>4, FreeMoves DEF FailRun
  <1>5. CASE Active(i)
    <2>1. runs' = [runs EXCEPT ![i] = [runs[i] EXCEPT !.status = runner[r].why]]
      BY <1>2, <1>5 DEF FailRun
    <2>2. OnlyRun(i) /\ runs'[i] = [runs[i] EXCEPT !.status = runner[r].why]
      BY <1>1, <1>2, <1>3, <2>1 DEF OnlyRun, RunInv, RunTypes, AgentRun, AgentRunStatus
    <2>3. /\ runs'[i].status \in {"FAILED", "LIMIT_EXCEEDED"} /\ runs'[i].agent = runs[i].agent
          /\ runs'[i].iterations = runs[i].iterations /\ runs'[i].llm = runs[i].llm
          /\ runs'[i].tools = runs[i].tools
      BY <1>2, <1>3, <2>2 DEF AgentRun
    <2>4. RunRowOK(runs'[i], calls'[i])
      BY <1>1, <1>2, <2>3 DEF RunRowOK
    <2>. QED
      BY <1>1, <1>2, <1>3, <1>5, <2>2, <2>3, <2>4, HolderMoves DEF RunInv, RunTypes, Resting
  <1>. QED
    BY <1>4, <1>5

-----------------------------------------------------------------------------
(* Every step keeps the invariant.                                            *)
LEMMA AgentStepKeeps == RunInv /\ [AgentNext]_agentVars => RunInv'
  <1>1. ASSUME RunInv, NEW r \in Runner, RunnerStep(r)
        PROVE  RunInv'
    BY <1>1, FindActiveKeeps, CreateRunKeeps, StartRunKeeps, BeginIterationKeeps,
       ReadWorkflowKeeps, ReserveCallKeeps, RecordLLMCallKeeps, FinalTurnKeeps, ToolTurnKeeps,
       ProposeKeeps, InterruptKeeps, EndBatchKeeps, CreateToolCallKeeps, RejectToolCallKeeps,
       StartToolCallKeeps, FinishToolCallKeeps, FailToolCallKeeps, CompleteRunKeeps,
       FailRunKeeps, DieKeeps DEF RunnerStep
  <1>2. ASSUME RunInv, UNCHANGED agentVars
        PROVE  RunInv'
    BY <1>2 DEF agentVars, RunInv, RunTypes, HeldOnce, OneActive, RowsInv, HoldersInv, Holds, Active
  <1>. QED
    BY <1>1, <1>2 DEF AgentNext

LEMMA AgentInvariant == AgentSpec => []RunInv
  BY AgentInitInv, AgentStepKeeps, PTL DEF AgentSpec

-----------------------------------------------------------------------------
(* The types of the rows, the calls and the coroutines.                        *)
THEOREM AgentTypes == AgentSpec => []RunTypes
  BY AgentInvariant, PTL DEF RunInv

(* No race, cancellation or crash lets a specialist have two active runs, a       *)
(* coroutine work on a run that is another's or not RUNNING, or a row disagree    *)
(* with its tool calls (AgentRunService, ToolExecutor._execute).                 *)
THEOREM RunsAreAudited == AgentSpec => []RunsAudited
  <1>1. RunInv => RunsAudited
    <2> SUFFICES ASSUME RunInv PROVE RunsAudited
      OBVIOUS
    <2>1. ASSUME NEW r \in Runner, runner[r].pc \in InRun
          PROVE  /\ runs[runner[r].run].status = "RUNNING"
                 /\ \A q \in Runner \ {r} : runner[q].pc \notin {"idle", "found"}
                                            => runner[q].run # runner[r].run
      <3>1. Holds(r) /\ Fits(runner[r], runs[runner[r].run], calls[runner[r].run])
        BY <2>1 DEF RunInv, HoldersInv, Holds, InRun, InLoop
      <3>. QED
        BY <2>1, <3>1 DEF Fits, RunInv, HeldOnce, Holds
    <2>2. ASSUME NEW i \in RunId
          PROVE  /\ runs[i].tools = Len(calls[i])
                 /\ \A k \in 1..Len(calls[i]) :
                      calls[i][k] # "COMPLETED"
                      => k = Len(calls[i]) /\ runs[i].status # "COMPLETED"
      BY DEF RunInv, RowsInv, RunRowOK, LastOpen, AllDone
    <2>. QED
      BY <2>1, <2>2 DEF RunsAudited, RunInv, OneActive, InRun
  <1>. QED
    BY <1>1, AgentInvariant, PTL

(* Neither a run nor its workflow goes beyond its budget, although the counter      *)
(* of the workflow is read before it is locked (BudgetTracker,                    *)
(* WorkflowService.record_llm_call).                                            *)
THEOREM BudgetsAreKept == AgentSpec => []BudgetsHold
  <1>1. RunInv => BudgetsHold
    BY DEF RunInv, RowsInv, RunRowOK, BudgetsHold
  <1>. QED
    BY <1>1, AgentInvariant, PTL

(* Nobody touches a run that has ended, nor its tool calls                       *)
(* (AgentRunService.fail_run).                                                 *)
THEOREM EndedRunsAreFinal == AgentSpec => EndedRunsStand
  <1> DEFINE Stands == \A i \in RunId : Ended(i) => runs'[i] = runs[i] /\ calls'[i] = calls[i]
  <1>1. ASSUME RunInv, NEW r \in Runner, RunnerStep(r)
        PROVE  Stands
    <2> DEFINE j == runner[r].run
    <2>1. CASE FindActive(r) \/ ReadWorkflow(r) \/ ReserveCall(r) \/ FinalTurn(r) \/ ToolTurn(r)
               \/ ProposeAction(r) \/ Interrupt(r) \/ EndBatch(r) \/ Die(r)
      <3>1. UNCHANGED <<runs, calls>>
        BY <2>1 DEF FindActive, ReadWorkflow, ReserveCall, FinalTurn, ToolTurn, ProposeAction,
                    Interrupt, EndBatch, Die
      <3>. QED
        BY <3>1
    <2>2. CASE CreateRun(r)
      BY <1>1, <2>2 DEF CreateRun, Ended, RunInv, RunTypes
    <2>3. CASE StartRun(r) \/ BeginIteration(r) \/ RecordLLMCall(r) \/ CompleteRun(r)
               \/ CreateToolCall(r) \/ RejectToolCall(r) \/ StartToolCall(r)
               \/ FinishToolCall(r) \/ FailToolCall(r)
      <3>1. runner[r].pc \in InRun \cup {"created"}
        BY <2>3 DEF StartRun, BeginIteration, RecordLLMCall, CompleteRun, CreateToolCall,
                    RejectToolCall, StartToolCall, FinishToolCall, FailToolCall, InRun, InLoop
      <3>2. j \in RunId /\ ~Ended(j)
        <4>1. Holds(r)
          BY <1>1, <3>1, AtWork
        <4>2. Fits(runner[r], runs[j], calls[j])
          BY <1>1, <4>1 DEF RunInv, HoldersInv
        <4>. QED
          BY <1>1, <3>1, <4>1, <4>2, HolderTyped DEF RunInv, Fits, Ended
      <3>3. \A i \in RunId \ {j} : runs'[i] = runs[i] /\ calls'[i] = calls[i]
        BY <1>1, <2>3, <3>2
           DEF StartRun, BeginIteration, RecordLLMCall, CompleteRun, CreateToolCall,
               RejectToolCall, StartToolCall, FinishToolCall, FailToolCall, SetCall,
               RunInv, RunTypes
      <3>. QED
        BY <3>2, <3>3
    <2>4. CASE FailRun(r)
      BY <1>1, <2>4 DEF FailRun, Ended, Active, RunInv, RunTypes
    <2>. QED
      BY <1>1, <2>1, <2>2, <2>3, <2>4 DEF RunnerStep
  <1>2. RunInv /\ [AgentNext]_agentVars => [Stands]_agentVars
    BY <1>1 DEF AgentNext
  <1>. QED
    BY <1>2, AgentInvariant, PTL DEF AgentSpec, EndedRunsStand

-----------------------------------------------------------------------------
(* Actions.  Beside the types (TypeInv) stand inductive invariants that use   *)
(* them: ExecutionInv (who executes an action, and how often it took effect), *)
(* RequestInv (what a request tells of its execution), GuardInv (in which     *)
(* states executions were reserved), MemoryIsTrue with RememberInv (who may   *)
(* write a memory), and ApprovalInv with HeldInv (what humans decided, and    *)
(* what an executor that still holds an older row may believe of it).         *)

RowOK(r) == r \in RequestRow /\ (r.status = "ABSENT" <=> r.version = 0)

(* What a caller is about to insert was made of a rule.                      *)
NewProposal(held) == \E rule \in Rule : held = Proposal(rule)

CallersOK ==
    /\ callers \in [Caller -> Call]
    /\ \A c \in Caller : callers[c].action = NoAction <=> At(c, "idle")
    /\ \A c \in Caller : At(c, "proposing") => NewProposal(callers[c].held)

RequestsOK == requests \in [Action -> RequestRow] /\ \A a \in Action : RowOK(requests[a])

-----------------------------------------------------------------------------
(* Types of the values the actions build.                                   *)

LEMMA ConstantsTyped ==
    /\ NoRequest \in RequestRow
    /\ RowOK(NoRequest)
    /\ Idle \in Call
    /\ NoAction \notin Action
  BY ActionAssumption
     DEF NoRequest, RequestRow, RequestStatus, Decision, Level, Idle, Call, Pc, RowOK

(* What a call finds when it is at work.                                     *)
LEMMA Working ==
    ASSUME CallersOK, NEW c \in Caller, ~At(c, "idle")
    PROVE  callers[c].action \in Action /\ callers[c].held \in RequestRow
  BY DEF CallersOK, Call, At

LEMMA ReturnTyped ==
    ASSUME CallersOK, NEW c \in Caller, Return(c)
    PROVE  CallersOK'
  BY ConstantsTyped DEF CallersOK, Return, At, Idle

LEMMA CallTyped ==
    ASSUME CallersOK, NEW c \in Caller, NEW pc \in Pc \ {"idle"}, NEW a \in Action,
           NEW held \in RequestRow, pc = "proposing" => NewProposal(held), Calls(c, pc, a, held)
    PROVE  CallersOK'
  <1> DEFINE call == [pc |-> pc, action |-> a, held |-> held]
  <1>1. call \in Call /\ call.pc = pc /\ call.action = a /\ call.held = held /\ a # NoAction
    BY ConstantsTyped DEF Call
  <1>2. callers' = [callers EXCEPT ![c] = call]
    BY DEF Calls
  <1> HIDE DEF call
  <1>. QED
    BY <1>1, <1>2 DEF CallersOK, At

LEMMA GotoTyped ==
    ASSUME CallersOK, NEW c \in Caller, ~At(c, "idle"), NEW pc \in Pc \ {"idle", "proposing"},
           Goto(c, pc)
    PROVE  CallersOK'
  <1>1. callers[c].action \in Action
    BY DEF CallersOK, Call, At
  <1>2. Calls(c, pc, callers[c].action, NoRequest)
    BY DEF Goto
  <1>. QED
    BY <1>1, <1>2, ConstantsTyped, CallTyped

LEMMA KeepTyped ==
    ASSUME CallersOK, NEW c \in Caller, ~At(c, "idle"), NEW pc \in Pc \ {"idle", "proposing"},
           Keep(c, pc)
    PROVE  CallersOK'
  <1> DEFINE call == [callers[c] EXCEPT !.pc = pc]
  <1>1. callers[c] \in Call /\ callers[c].action # NoAction
    BY DEF CallersOK, At
  <1>2. call \in Call /\ call.pc = pc /\ call.action = callers[c].action
    BY <1>1 DEF Call
  <1>3. callers' = [callers EXCEPT ![c] = call]
    BY Zenon DEF Keep
  <1> HIDE DEF call
  <1>. QED
    BY <1>1, <1>2, <1>3 DEF CallersOK, At

LEMMA RowWritten ==
    ASSUME RequestsOK, NEW a \in Action, NEW r, RowOK(r), requests' = [requests EXCEPT ![a] = r]
    PROVE  RequestsOK'
  BY DEF RequestsOK, RowOK

(* A status and a version written over a row leave it a row.                 *)
LEMMA RowRewritten ==
    ASSUME NEW r \in RequestRow, NEW status \in RequestStatus \ {"ABSENT"},
           NEW version \in Nat \ {0}
    PROVE  RowOK([r EXCEPT !.status = status, !.version = version])
  BY DEF RowOK, RequestRow

LEMMA EvaluatedRule ==
    ASSUME NEW a \in Action, NEW rule \in FreshPolicy(a)
    PROVE  rule \in Rule
  <1>1. PICK release \in Release : rule = Evaluate(a, release)
    BY DEF FreshPolicy
  <1>2. release[a] \in Rule
    BY <1>1, ActionAssumption
  <1>3. [decision |-> "FORBIDDEN", role |-> 0] \in Rule
    BY DEF Rule, Decision, Level
  <1>. QED
    BY <1>1, <1>2, <1>3 DEF Evaluate

(* The request a proposal makes of an evaluated rule.                        *)
LEMMA ProposalTyped ==
    ASSUME NEW rule \in Rule
    PROVE  /\ Proposal(rule) \in RequestRow
           /\ RowOK(Proposal(rule))
           /\ Proposal(rule).policy = rule.decision
           /\ Proposal(rule).status \in {"PROPOSED", "PENDING_APPROVAL", "REJECTED"}
           /\ Proposal(rule).status = "PENDING_APPROVAL" <=> rule.decision = "APPROVAL_REQUIRED"
           /\ Proposal(rule).status = "PROPOSED" <=> rule.decision = "SAFE"
           /\ rule.decision = "APPROVAL_REQUIRED" => Proposal(rule).deadline = 1
           /\ Proposal(rule).approved = 0
           /\ ~Proposal(rule).rejected
  <1> DEFINE st == CASE rule.decision = "SAFE" -> "PROPOSED"
                     [] rule.decision = "APPROVAL_REQUIRED" -> "PENDING_APPROVAL"
                     [] rule.decision = "FORBIDDEN" -> "REJECTED"
             dl == IF rule.decision = "APPROVAL_REQUIRED" THEN 1 ELSE 0
  <1>1. rule.decision \in Decision /\ rule.role \in Level
    BY DEF Rule
  <1>2. /\ st \in {"PROPOSED", "PENDING_APPROVAL", "REJECTED"}
        /\ st = "PENDING_APPROVAL" <=> rule.decision = "APPROVAL_REQUIRED"
        /\ st = "PROPOSED" <=> rule.decision = "SAFE"
        /\ dl \in Nat
        /\ rule.decision = "APPROVAL_REQUIRED" => dl = 1
    BY <1>1 DEF Decision
  <1>3. Proposal(rule) = [NoRequest EXCEPT !.version = 1, !.policy = rule.decision,
                                           !.role = rule.role, !.status = st, !.deadline = dl]
    BY Zenon DEF Proposal
  <1> HIDE DEF st, dl
  <1>4. Proposal(rule) = [status |-> st, version |-> 1, policy |-> rule.decision,
                          role |-> rule.role, approved |-> 0, rejected |-> FALSE,
                          deadline |-> dl]
    BY <1>3 DEF NoRequest
  <1>. QED
    BY <1>1, <1>2, <1>4 DEF RequestRow, RequestStatus, Level, RowOK

-----------------------------------------------------------------------------
(* Type correctness.                                                        *)

TypeInv ==
    /\ campaign \in [status : Status, version : Nat]
    /\ workflow \in Status
    /\ RequestsOK
    /\ executions \in [Action -> ExecutionRow]
    /\ memories \in [Action -> SUBSET {"ACTION_COMPLETED", "ACTION_FAILED"}]
    /\ elapsed \in [Action -> Nat]
    /\ CallersOK
    /\ effects \in [Action -> Nat]

LEMMA TypeInvTypes == TypeInv => TypeOK
  BY DEF TypeInv, TypeOK, CallersOK, RequestsOK, RowOK

LEMMA InitTyped == Init => TypeInv
  <1> SUFFICES ASSUME Init PROVE TypeInv
    OBVIOUS
  <1>1. PICK s \in Status : campaign = [status |-> s, version |-> 1] /\ workflow = s
    BY DEF Init
  <1>2. campaign \in [status : Status, version : Nat]
    BY <1>1
  <1>3. RequestsOK
    BY ConstantsTyped DEF Init, RequestsOK
  <1>4. NoExecution \in ExecutionRow
    BY <1>1, <1>2 DEF NoExecution, ExecutionRow, ExecutionStatus, Guard, CurrentGuard
  <1>5. CallersOK
    BY ConstantsTyped DEF Init, CallersOK, At, Idle
  <1>. QED
    BY <1>1, <1>2, <1>3, <1>4, <1>5 DEF Init, TypeInv

(* The steps of workflow, campaign and clock.                                *)
LEMMA ScopeTyped ==
    ASSUME TypeInv, ScopeStep
    PROVE  TypeInv'
  <1>1. /\ campaign' \in [status : Status, version : Nat]
        /\ workflow' \in Status
    <2>0. /\ campaign \in [status : Status, version : Nat]
          /\ workflow \in Status
          /\ \A s \in Status : Moves[s] \subseteq Status
      BY DEF Status, Moves, TypeInv
    <2>1. \A s \in Status : MoveCampaign(s) => campaign' \in [status : Status, version : Nat]
      BY <2>0 DEF MoveCampaign
    <2>2. CASE WorkflowMoves
      BY <2>0, <2>1, <2>2 DEF WorkflowMoves
    <2>3. CASE CampaignMovesOn
      BY <2>0, <2>1, <2>3 DEF CampaignMovesOn
    <2>4. CASE CampaignUpdated
      BY <2>0, <2>4 DEF CampaignUpdated
    <2>. QED
      BY <2>2, <2>3, <2>4 DEF ScopeStep
  <1>2. UNCHANGED <<rows, elapsed, callers, effects>>
    BY DEF ScopeStep, WorkflowMoves, CampaignMovesOn, CampaignUpdated
  <1>. QED
    BY <1>1, <1>2 DEF TypeInv, rows, RequestsOK, CallersOK, At

(* The ways in which a request is rewritten.                                 *)
LEMMA StatusWritten ==
    ASSUME RequestsOK, NEW a \in Action, NEW status \in RequestStatus \ {"ABSENT"},
           NEW version \in Nat \ {0},
           requests' = [requests EXCEPT ![a].status = status, ![a].version = version]
    PROVE  RequestsOK'
  <1> DEFINE r == [requests[a] EXCEPT !.status = status, !.version = version]
  <1>1. RowOK(r)
    BY RowRewritten DEF RequestsOK
  <1>2. requests' = [requests EXCEPT ![a] = r]
    BY DEF RequestsOK
  <1> HIDE DEF r
  <1>. QED
    BY <1>1, <1>2, RowWritten

LEMMA NextVersion ==
    ASSUME NEW r \in RequestRow
    PROVE  r.version + 1 \in Nat \ {0}
  BY DEF RequestRow

(* A human's decision written over a row leaves it a row.                    *)
LEMMA DecisionRewritten ==
    ASSUME NEW r \in RequestRow, NEW role \in Level
    PROVE  /\ RowOK([r EXCEPT !.status = "APPROVED", !.approved = role, !.version = @ + 1])
           /\ RowOK([r EXCEPT !.status = "REJECTED", !.rejected = TRUE, !.version = @ + 1])
  <1> DEFINE v == r.version + 1
  <1>1. v \in Nat \ {0}
    BY NextVersion
  <1>2. /\ [r EXCEPT !.status = "APPROVED", !.approved = role, !.version = @ + 1]
              = [r EXCEPT !.status = "APPROVED", !.approved = role, !.version = v]
        /\ [r EXCEPT !.status = "REJECTED", !.rejected = TRUE, !.version = @ + 1]
              = [r EXCEPT !.status = "REJECTED", !.rejected = TRUE, !.version = v]
    BY Zenon
  <1> HIDE DEF v
  <1>3. /\ RowOK([r EXCEPT !.status = "APPROVED", !.approved = role, !.version = v])
        /\ RowOK([r EXCEPT !.status = "REJECTED", !.rejected = TRUE, !.version = v])
    BY <1>1 DEF RequestRow, RequestStatus, RowOK
  <1>. QED
    BY <1>2, <1>3

LEMMA OverwriteTyped ==
    ASSUME RequestsOK, CallersOK, NEW c \in Caller, ~At(c, "idle"),
           NEW status \in RequestStatus \ {"ABSENT"}, Overwrite(c, status)
    PROVE  RequestsOK'
  BY Working, NextVersion, StatusWritten DEF Overwrite

LEMMA ExpiredTyped ==
    ASSUME RequestsOK, CallersOK, NEW c \in Caller, ~At(c, "idle"), Expired(c)
    PROVE  RequestsOK'
  <1> DEFINE a == callers[c].action
  <1>1. a \in Action /\ requests[a] \in RequestRow
    BY Working DEF RequestsOK
  <1>2. CASE requests' = [requests EXCEPT ![a].status = "EXPIRED",
                                          ![a].version = requests[a].version + 1]
    BY <1>1, <1>2, NextVersion, StatusWritten DEF RequestStatus
  <1>3. CASE UNCHANGED requests
    BY <1>3 DEF RequestsOK
  <1>. QED
    BY <1>1, <1>2, <1>3 DEF Expired, RequestsOK

(* The steps of a proposal.                                                  *)
LEMMA ProposeTyped ==
    ASSUME TypeInv, NEW c \in Caller, NEW a \in Action, Propose(c, a)
    PROVE  TypeInv'
  <1>1. PICK rule \in FreshPolicy(a) : Calls(c, "proposing", a, Proposal(rule))
    BY DEF Propose
  <1>2. rule \in Rule /\ Proposal(rule) \in RequestRow /\ NewProposal(Proposal(rule))
    BY EvaluatedRule, ProposalTyped DEF NewProposal
  <1>3. CallersOK'
    BY <1>1, <1>2, CallTyped DEF TypeInv, Pc
  <1>. QED
    BY <1>3 DEF Propose, TypeInv, scope, rows, RequestsOK

LEMMA CreateProposalTyped ==
    ASSUME TypeInv, NEW c \in Caller, CreateProposal(c)
    PROVE  TypeInv'
  <1> DEFINE a == callers[c].action
             held == callers[c].held
  <1>1. At(c, "proposing") /\ ~At(c, "idle") /\ CallersOK /\ RequestsOK
    BY DEF CreateProposal, At, TypeInv
  <1>2. a \in Action /\ RowOK(held)
    BY <1>1, Working, ProposalTyped DEF CallersOK, NewProposal
  <1>3. RequestsOK'
    <2>1. CASE requests' = [requests EXCEPT ![a] = held]
      BY <1>1, <1>2, <2>1, RowWritten
    <2>2. CASE UNCHANGED requests
      BY <1>1, <2>2 DEF RequestsOK
    <2>. QED
      BY <2>1, <2>2 DEF CreateProposal
  <1>4. CallersOK'
    BY <1>1, ReturnTyped, KeepTyped DEF CreateProposal, Pc
  <1>. QED
    BY <1>3, <1>4 DEF CreateProposal, TypeInv, scope

(* The steps of a decision.                                                  *)
LEMMA BeginDecisionTyped ==
    ASSUME TypeInv, NEW c \in Caller, NEW a \in Action, BeginDecision(c, a)
    PROVE  TypeInv'
  <1>1. requests[a] \in RequestRow /\ CallersOK
    BY DEF TypeInv, RequestsOK
  <1>2. \E pc \in {"rejecting", "expiring", "approving"} : Calls(c, pc, a, requests[a])
    BY DEF BeginDecision
  <1>3. CallersOK'
    BY <1>1, <1>2, CallTyped DEF Pc
  <1>. QED
    BY <1>3 DEF BeginDecision, TypeInv, scope, rows, RequestsOK

LEMMA ApproveTyped ==
    ASSUME TypeInv, NEW c \in Caller, Approve(c)
    PROVE  TypeInv'
  <1> DEFINE a == callers[c].action
  <1>1. At(c, "approving") /\ ~At(c, "idle") /\ CallersOK /\ RequestsOK
    BY DEF Approve, At, TypeInv
  <1>2. a \in Action /\ requests[a] \in RequestRow
    BY <1>1, Working DEF RequestsOK
  <1>3. RequestsOK'
    <2>1. ASSUME NEW role \in HumanRole,
                 requests' = [requests EXCEPT ![a].status = "APPROVED", ![a].approved = role,
                                              ![a].version = @ + 1]
          PROVE  RequestsOK'
      <3> DEFINE r == [requests[a] EXCEPT !.status = "APPROVED", !.approved = role,
                                          !.version = @ + 1]
      <3>1. role \in Level
        BY ActionAssumption
      <3>2. RowOK(r)
        BY <1>2, <3>1, DecisionRewritten
      <3>3. requests' = [requests EXCEPT ![a] = r]
        BY <1>1, <1>2, <2>1 DEF RequestsOK
      <3> HIDE DEF r
      <3>. QED
        BY <1>1, <1>2, <3>2, <3>3, RowWritten
    <2>2. CASE UNCHANGED requests
      BY <1>1, <2>2 DEF RequestsOK
    <2>. QED
      BY <2>1, <2>2 DEF Approve
  <1>4. CallersOK'
    BY <1>1, ReturnTyped DEF Approve
  <1>. QED
    BY <1>3, <1>4 DEF Approve, TypeInv, scope

LEMMA RejectTyped ==
    ASSUME TypeInv, NEW c \in Caller, Reject(c)
    PROVE  TypeInv'
  <1> DEFINE a == callers[c].action
             r == [requests[a] EXCEPT !.status = "REJECTED", !.rejected = TRUE, !.version = @ + 1]
  <1>1. At(c, "rejecting") /\ ~At(c, "idle") /\ CallersOK /\ RequestsOK
    BY DEF Reject, At, TypeInv
  <1>2. a \in Action /\ requests[a] \in RequestRow
    BY <1>1, Working DEF RequestsOK
  <1>3. RowOK(r)
    <2>1. 0 \in Level
      BY DEF Level
    <2>. QED
      BY <1>2, <2>1, DecisionRewritten
  <1>4. requests' = [requests EXCEPT ![a] = r] \/ UNCHANGED requests
    BY <1>1, <1>2 DEF Reject, RequestsOK
  <1> HIDE DEF r
  <1>5. RequestsOK'
    BY <1>1, <1>2, <1>3, <1>4, RowWritten DEF RequestsOK
  <1>6. CallersOK'
    BY <1>1, ReturnTyped DEF Reject
  <1>. QED
    BY <1>5, <1>6 DEF Reject, TypeInv, scope

LEMMA ExpireTyped ==
    ASSUME TypeInv, NEW c \in Caller, Expire(c)
    PROVE  TypeInv'
  <1>1. ~At(c, "idle") /\ CallersOK /\ RequestsOK
    BY DEF Expire, At, TypeInv
  <1>2. RequestsOK' /\ CallersOK'
    BY <1>1, ExpiredTyped, ReturnTyped DEF Expire
  <1>. QED
    BY <1>2 DEF Expire, TypeInv, scope

(* The steps of a reservation.                                               *)
LEMMA BeginExecuteTyped ==
    ASSUME TypeInv, NEW c \in Caller, NEW a \in Action, BeginExecute(c, a)
    PROVE  TypeInv'
  <1>1. requests[a] \in RequestRow /\ CallersOK
    BY DEF TypeInv, RequestsOK
  <1>2. CallersOK'
    BY <1>1, CallTyped DEF Pc, BeginExecute
  <1>. QED
    BY <1>2 DEF BeginExecute, TypeInv, scope, rows, RequestsOK

(* A call that ends leaving only the request changed, if anything.           *)
LEMMA ReturningTyped ==
    ASSUME TypeInv, NEW c \in Caller, Return(c), RequestsOK',
           UNCHANGED <<scope, executions, memories, elapsed, effects>>
    PROVE  TypeInv'
  BY ReturnTyped DEF TypeInv, scope

LEMMA RefusalTyped ==
    ASSUME TypeInv, NEW c \in Caller, Refuse(c) \/ Dies(c)
    PROVE  TypeInv'
  BY ReturningTyped DEF Refuse, Dies, rows, TypeInv, RequestsOK

LEMMA DenialTyped ==
    ASSUME TypeInv, NEW c \in Caller, Deny(c) \/ FindExpired(c)
    PROVE  TypeInv'
  <1>1. ~At(c, "idle") /\ CallersOK /\ RequestsOK
    BY DEF Deny, FindExpired, At, TypeInv
  <1>2. CASE Deny(c)
    <2>1. RequestsOK'
      BY <1>1, <1>2, OverwriteTyped DEF Deny, RequestStatus
    <2>. QED
      BY <1>2, <2>1, ReturningTyped DEF Deny
  <1>3. CASE FindExpired(c)
    BY <1>1, <1>3, ExpiredTyped, ReturningTyped DEF FindExpired
  <1>. QED
    BY <1>2, <1>3

LEMMA AskApprovalTyped ==
    ASSUME TypeInv, NEW c \in Caller, AskApproval(c)
    PROVE  TypeInv'
  <1> DEFINE a == callers[c].action
             version == callers[c].held.version + 1
             deadline == requests[a].deadline + 1
             r == [requests[a] EXCEPT !.status = "PENDING_APPROVAL", !.version = version,
                                      !.deadline = deadline]
  <1>1. ~At(c, "idle") /\ CallersOK /\ RequestsOK
    BY DEF AskApproval, At, TypeInv
  <1>2. a \in Action /\ requests[a] \in RequestRow
    BY <1>1, Working DEF RequestsOK
  <1>3. version \in Nat \ {0} /\ deadline \in Nat
    BY <1>1, <1>2, Working, NextVersion DEF RequestRow
  <1>4. requests' = [requests EXCEPT ![a] = r]
    BY <1>1, <1>2 DEF AskApproval, RequestsOK
  <1> HIDE DEF version, deadline
  <1>5. RowOK(r)
    BY <1>2, <1>3 DEF RequestRow, RequestStatus, RowOK
  <1> HIDE DEF r
  <1>6. RequestsOK'
    BY <1>1, <1>2, <1>4, <1>5, RowWritten
  <1>. QED
    BY <1>6, ReturningTyped DEF AskApproval

LEMMA ReserveTyped ==
    ASSUME TypeInv, NEW c \in Caller, Reserve(c)
    PROVE  TypeInv'
  <1> DEFINE a == callers[c].action
             held == callers[c].held
             version == held.version + 1
             next == [held EXCEPT !.status = "EXECUTING", !.version = version]
  <1>1. ~At(c, "idle") /\ CallersOK /\ RequestsOK
    BY DEF Reserve, At, TypeInv
  <1>2. a \in Action /\ held \in RequestRow
    BY <1>1, Working
  <1>3. version \in Nat \ {0}
    BY <1>2, NextVersion
  <1>4. Calls(c, "handling", a, next)
    BY DEF Reserve
  <1> HIDE DEF version
  <1>5. next \in RequestRow
    BY <1>2, <1>3 DEF RequestRow, RequestStatus
  <1>6. CallersOK'
    BY <1>1, <1>2, <1>4, <1>5, CallTyped DEF Pc
  <1>7. RequestsOK'
    BY <1>1, OverwriteTyped DEF Reserve, RequestStatus
  <1>8. executions' \in [Action -> ExecutionRow]
    <2>1. CurrentGuard \in Guard
      BY DEF CurrentGuard, Guard, TypeInv
    <2> DEFINE e == [executions[a] EXCEPT !.status = "RUNNING", !.guard = CurrentGuard]
    <2>2. e \in ExecutionRow
      <3>1. executions[a] \in ExecutionRow
        BY <1>2 DEF TypeInv
      <3>. QED
        BY <2>1, <3>1 DEF ExecutionRow, ExecutionStatus
    <2>3. executions' = [executions EXCEPT ![a] = e]
      BY <1>2 DEF Reserve, TypeInv
    <2> HIDE DEF e
    <2>. QED
      BY <1>2, <2>2, <2>3 DEF TypeInv
  <1>. QED
    BY <1>6, <1>7, <1>8 DEF Reserve, TypeInv, scope

(* The steps of an execution.                                                *)
LEMMA HandleTyped ==
    ASSUME TypeInv, NEW c \in Caller, Handle(c)
    PROVE  TypeInv'
  <1> DEFINE a == callers[c].action
             d == Definition[a]
  <1>1. ~At(c, "idle") /\ CallersOK
    BY DEF Handle, At, TypeInv
  <1>2. a \in Action /\ a \in DOMAIN Definition
    BY <1>1, Working, ActionAssumption
  <1>3. d.next \in Status \cup {"same"}
    BY <1>2 DEF Definition, Status, Moves
  <1>4. workflow' \in Status
    BY <1>3 DEF Handle, TypeInv
  <1>5. campaign' \in [status : Status, version : Nat]
    <2> DEFINE st == IF d.next = "same" THEN campaign.status ELSE d.next
               v == campaign.version + IF d.bumps THEN 1 ELSE 0
    <2>1. st \in Status
      BY <1>3 DEF TypeInv
    <2>2. v \in Nat
      BY DEF TypeInv
    <2>3. campaign' = [status |-> st, version |-> v]
      BY DEF Handle
    <2> HIDE DEF st, v
    <2>. QED
      BY <2>1, <2>2, <2>3
  <1>6. effects' \in [Action -> Nat]
    <2>1. effects[a] + 1 \in Nat
      BY <1>2 DEF TypeInv
    <2>2. effects' = [effects EXCEPT ![a] = effects[a] + 1]
      BY DEF Handle
    <2>. QED
      BY <1>2, <2>1, <2>2 DEF TypeInv
  <1>7. CallersOK'
    BY <1>1, KeepTyped DEF Handle, Pc
  <1>. QED
    BY <1>4, <1>5, <1>6, <1>7 DEF Handle, TypeInv, rows, RequestsOK

LEMMA StopTyped ==
    ASSUME TypeInv, NEW c \in Caller, HandlerStops(c) \/ SuccessNotStored(c) \/ MemoryFails(c)
    PROVE  TypeInv'
  <1>1. ~At(c, "idle") /\ CallersOK
    BY DEF HandlerStops, SuccessNotStored, MemoryFails, At, TypeInv
  <1>2. \E pc \in Pc \ {"idle", "proposing"} : Goto(c, pc) \/ Keep(c, pc)
    BY DEF HandlerStops, SuccessNotStored, MemoryFails, Pc
  <1>3. CallersOK'
    BY <1>1, <1>2, GotoTyped, KeepTyped
  <1>4. UNCHANGED <<scope, rows, elapsed, effects>>
    BY DEF HandlerStops, SuccessNotStored, MemoryFails
  <1>. QED
    BY <1>3, <1>4 DEF TypeInv, scope, rows, RequestsOK

(* What _finalize_* write.                                                   *)
Outcome == {<<"COMPLETED", "COMPLETED">>, <<"FAILED", "FAILED">>, <<"CANCELLED", "FAILED">>}

Finalizes(c) == FinalizeSuccess(c) \/ FinalizeFailure(c) \/ FinalizeCancelled(c)

SettlesAs(c, o) == Settle(c, o[1], o[2]) /\ (o[1] = "COMPLETED" <=> At(c, "succeeding"))

LEMMA FinalizeSettles ==
    ASSUME NEW c \in Caller, Finalizes(c)
    PROVE  /\ callers[c].pc \in {"succeeding", "failing", "cancelling"}
           /\ \E o \in Outcome : SettlesAs(c, o)
  <1>1. CASE FinalizeSuccess(c)
    <2>1. <<"COMPLETED", "COMPLETED">> \in Outcome
      BY DEF Outcome
    <2>. QED
      BY <1>1, <2>1 DEF FinalizeSuccess, SettlesAs, At
  <1>2. CASE FinalizeFailure(c)
    <2>1. <<"FAILED", "FAILED">> \in Outcome
      BY DEF Outcome
    <2>. QED
      BY <1>2, <2>1 DEF FinalizeFailure, SettlesAs, At
  <1>3. CASE FinalizeCancelled(c)
    <2>1. <<"CANCELLED", "FAILED">> \in Outcome
      BY DEF Outcome
    <2>. QED
      BY <1>3, <2>1 DEF FinalizeCancelled, SettlesAs, At
  <1>. QED
    BY <1>1, <1>2, <1>3 DEF Finalizes

LEMMA SettleTyped ==
    ASSUME TypeInv, NEW c \in Caller, Finalizes(c)
    PROVE  TypeInv'
  <1> DEFINE a == callers[c].action
  <1>0. PICK o \in Outcome : SettlesAs(c, o)
    BY FinalizeSettles
  <1>1. Settle(c, o[1], o[2])
    BY <1>0 DEF SettlesAs
  <1>2. ~At(c, "idle") /\ CallersOK /\ RequestsOK
    BY FinalizeSettles DEF At, TypeInv
  <1>3. a \in Action /\ Known(c) \in RequestRow
    BY <1>2, Working DEF Known, RequestsOK
  <1>4. RequestsOK'
    <2> DEFINE v == Known(c).version + 1
    <2>1. v \in Nat \ {0}
      BY <1>3, NextVersion
    <2>2. requests' = [requests EXCEPT ![a].status = o[2], ![a].version = v]
      BY <1>1 DEF Settle
    <2>3. o[2] \in RequestStatus \ {"ABSENT"}
      BY DEF Outcome, RequestStatus
    <2> HIDE DEF v
    <2>. QED
      BY <1>2, <1>3, <2>1, <2>2, <2>3, StatusWritten
  <1>5. executions' \in [Action -> ExecutionRow]
    <2>1. o[1] \in ExecutionStatus
      BY DEF Outcome, ExecutionStatus
    <2> DEFINE e == [executions[a] EXCEPT !.status = o[1], !.memory = "PENDING"]
    <2>2. e \in ExecutionRow
      <3>1. executions[a] \in ExecutionRow
        BY <1>3 DEF TypeInv
      <3>. QED
        BY <2>1, <3>1 DEF ExecutionRow
    <2>3. executions' = [executions EXCEPT ![a] = e]
      BY <1>1, <1>3 DEF Settle, TypeInv
    <2> HIDE DEF e
    <2>. QED
      BY <1>3, <2>2, <2>3 DEF TypeInv
  <1>6. CallersOK'
    BY <1>1, <1>2, GotoTyped DEF Settle, Pc
  <1>. QED
    BY <1>1, <1>4, <1>5, <1>6 DEF Settle, TypeInv, scope

(* The steps of a memory.                                                    *)
MarksMemory(c) == MarkRecorded(c) \/ MarkMemoryFailed(c)

LEMMA MemoryWritten ==
    ASSUME TypeInv, NEW a \in Action, NEW memory \in {"PENDING", "RECORDED", "FAILED"},
           executions' = [executions EXCEPT ![a].memory = memory]
    PROVE  executions' \in [Action -> ExecutionRow]
  BY DEF TypeInv, ExecutionRow

LEMMA MemoryTyped ==
    ASSUME TypeInv, NEW c \in Caller, StartMemory(c) \/ RecordEvent(c) \/ MarksMemory(c)
    PROVE  TypeInv'
  <1> DEFINE a == callers[c].action
  <1>1. ~At(c, "idle") /\ CallersOK
    BY DEF StartMemory, RecordEvent, MarksMemory, MarkRecorded, MarkMemoryFailed, At, TypeInv
  <1>2. a \in Action
    BY <1>1, Working
  <1>3. CASE StartMemory(c)
    <2>1. CallersOK'
      BY <1>1, <1>3, ReturnTyped, GotoTyped DEF StartMemory, Pc
    <2>2. executions' \in [Action -> ExecutionRow]
      BY <1>2, <1>3, MemoryWritten DEF StartMemory, TypeInv
    <2>. QED
      BY <1>3, <2>1, <2>2 DEF StartMemory, TypeInv, scope, RequestsOK
  <1>4. CASE RecordEvent(c)
    <2>1. CallersOK'
      BY <1>1, <1>4, GotoTyped DEF RecordEvent, Pc
    <2>2. memories' \in [Action -> SUBSET {"ACTION_COMPLETED", "ACTION_FAILED"}]
      BY <1>2, <1>4 DEF RecordEvent, Event, TypeInv
    <2>. QED
      BY <1>4, <2>1, <2>2 DEF RecordEvent, TypeInv, scope, RequestsOK
  <1>5. CASE MarksMemory(c)
    <2>1. PICK memory \in {"RECORDED", "FAILED"} : MarkMemory(c, memory)
      BY <1>5 DEF MarksMemory, MarkRecorded, MarkMemoryFailed
    <2>2. CallersOK'
      BY <1>1, <2>1, ReturnTyped DEF MarkMemory
    <2>3. executions' \in [Action -> ExecutionRow]
      BY <1>2, <2>1, MemoryWritten DEF MarkMemory
    <2>. QED
      BY <2>1, <2>2, <2>3 DEF MarkMemory, TypeInv, scope, RequestsOK
  <1>. QED
    BY <1>3, <1>4, <1>5

LEMMA BeginReconcileTyped ==
    ASSUME TypeInv, NEW c \in Caller, NEW a \in Action, BeginReconcile(c, a)
    PROVE  TypeInv'
  <1>1. CallersOK'
    BY ConstantsTyped, CallTyped DEF BeginReconcile, Pc, TypeInv
  <1>. QED
    BY <1>1 DEF BeginReconcile, TypeInv, scope, rows, RequestsOK

LEMMA NextTyped == TypeInv /\ [Next]_vars => TypeInv'
  <1> SUFFICES ASSUME TypeInv, [Next]_vars PROVE TypeInv'
    OBVIOUS
  <1>1. CASE ScopeStep
    BY <1>1, ScopeTyped
  <1>2. ASSUME NEW a \in Action, DeadlinePasses(a) PROVE TypeInv'
    BY <1>2 DEF DeadlinePasses, TypeInv, RequestsOK, RowOK, RequestRow, scope, rows, CallersOK, At
  <1>3. ASSUME NEW c \in Caller, CallStep(c) PROVE TypeInv'
    BY <1>3, ProposeTyped, BeginDecisionTyped, BeginExecuteTyped, BeginReconcileTyped,
       CreateProposalTyped, ApproveTyped, RejectTyped, ExpireTyped, RefusalTyped, DenialTyped,
       AskApprovalTyped, ReserveTyped, HandleTyped, StopTyped, SettleTyped, MemoryTyped, Zenon
       DEF CallStep, Finalizes, MarksMemory
  <1>4. CASE UNCHANGED vars
    BY <1>4 DEF vars, scope, rows, TypeInv, RequestsOK, CallersOK, At
  <1>. QED
    BY <1>1, <1>2, <1>3, <1>4 DEF Next

(* Type correctness: the rows, the calls and the counters keep their types in  *)
(* every behaviour of proposal, decision, execution and memory.               *)
THEOREM TypeCorrect == Spec => []TypeOK
  <1>1. Spec => []TypeInv
    BY InitTyped, NextTyped, PTL DEF Spec
  <1>. QED
    BY <1>1, TypeInvTypes, PTL

-----------------------------------------------------------------------------
(* Executions: who runs an action, how often it took effect, and where.      *)

ExecutionInv ==
    /\ \A c \in Caller, a \in Action :
          /\ Executes(c, a) => executions[a].status = "RUNNING"
          /\ Executes(c, a) /\ At(c, "handling") => effects[a] = 0
          /\ Executes(c, a) /\ At(c, "succeeding") => effects[a] = 1
    /\ \A c, d \in Caller, a \in Action : Executes(c, a) /\ Executes(d, a) => c = d
    /\ \A a \in Action :
          /\ effects[a] \in {0, 1}
          /\ executions[a].status = "ABSENT" => effects[a] = 0
          /\ executions[a].status = "COMPLETED" => effects[a] = 1

AllowedGuard(a) ==
    {executions[a].guard.campaign.status, executions[a].guard.workflow} \subseteq Definition[a].allowed

GuardInv == \A a \in Action : executions[a].status # "ABSENT" => AllowedGuard(a)

RequestInv ==
    \A a \in Action :
        /\ requests[a].status = "EXECUTING" => executions[a].status = "RUNNING"
        /\ requests[a].status = "COMPLETED" => executions[a].status = "COMPLETED"
        /\ requests[a].status = "FAILED" => executions[a].status \in {"FAILED", "CANCELLED"}

Executing == {"handling", "succeeding", "failing", "cancelling"}

Unsettling == {"PROPOSED", "PENDING_APPROVAL", "APPROVED", "REJECTED", "EXPIRED"}

(* A step that neither reserves, nor takes effect, nor settles: nobody begins  *)
(* to execute, and a request gets no status that tells of an execution.       *)
CallersQuiet ==
    \A d \in Caller, a \in Action :
        Executes(d, a)' => /\ Executes(d, a)
                           /\ callers'[d] = callers[d] \/ callers'[d].pc \in {"failing", "cancelling"}

RequestsQuiet == \A a \in Action : requests'[a].status \in Unsettling \cup {requests[a].status}

ExecutionsQuiet ==
    \A a \in Action : /\ executions'[a].status = executions[a].status
                      /\ executions'[a].guard = executions[a].guard

QuietStep == CallersQuiet /\ RequestsQuiet /\ ExecutionsQuiet /\ UNCHANGED effects

LEMMA CallQuiet ==
    ASSUME CallersOK, NEW c \in Caller, NEW call, callers' = [callers EXCEPT ![c] = call],
           \/ call.pc \notin Executing
           \/ /\ callers[c].pc \in Executing
              /\ call.action = callers[c].action
              /\ call.pc \in {"failing", "cancelling"}
    PROVE  CallersQuiet
  BY DEF CallersOK, CallersQuiet, Executes, Executing

LEMMA ReturnQuiet ==
    ASSUME CallersOK, NEW c \in Caller, Return(c)
    PROVE  CallersQuiet
  BY CallQuiet DEF Return, Idle, Executing

LEMMA CallsQuiet ==
    ASSUME CallersOK, NEW c \in Caller, NEW pc, pc \notin Executing, NEW a, NEW held,
           Calls(c, pc, a, held)
    PROVE  CallersQuiet
  BY CallQuiet DEF Calls

LEMMA GotoQuiet ==
    ASSUME CallersOK, NEW c \in Caller, NEW pc, Goto(c, pc),
           \/ pc \notin Executing
           \/ callers[c].pc \in Executing /\ pc \in {"failing", "cancelling"}
    PROVE  CallersQuiet
  BY CallQuiet DEF Goto, Calls

LEMMA KeepQuiet ==
    ASSUME CallersOK, NEW c \in Caller, NEW pc, Keep(c, pc),
           \/ pc \notin Executing
           \/ callers[c].pc \in Executing /\ pc \in {"failing", "cancelling"}
    PROVE  CallersQuiet
  <1> DEFINE call == [callers[c] EXCEPT !.pc = pc]
  <1>1. callers' = [callers EXCEPT ![c] = call]
    BY Zenon DEF Keep
  <1>2. call.pc = pc /\ call.action = callers[c].action
    BY DEF CallersOK, Call
  <1> HIDE DEF call
  <1>. QED
    BY <1>1, <1>2, CallQuiet

(* Rewriting a request with an unsettling status.                            *)
LEMMA WriteQuiet ==
    ASSUME RequestsOK, NEW a \in Action, NEW r, requests' = [requests EXCEPT ![a] = r],
           r.status \in Unsettling
    PROVE  RequestsQuiet
  BY DEF RequestsOK, RequestsQuiet

LEMMA OverwriteQuiet ==
    ASSUME RequestsOK, CallersOK, NEW c \in Caller, ~At(c, "idle"),
           NEW status \in Unsettling, Overwrite(c, status)
    PROVE  RequestsQuiet
  BY Working DEF Overwrite, RequestsOK, RowOK, RequestRow, RequestsQuiet

LEMMA ExpiredQuiet ==
    ASSUME RequestsOK, CallersOK, NEW c \in Caller, ~At(c, "idle"), Expired(c)
    PROVE  RequestsQuiet
  BY Working DEF Expired, RequestsOK, RowOK, RequestRow, RequestsQuiet, Unsettling

(* The steps of proposal and decision.                                       *)
LEMMA DecisionsQuiet ==
    ASSUME TypeInv, NEW c \in Caller,
           \/ \E a \in Action : Propose(c, a) \/ BeginDecision(c, a)
           \/ CreateProposal(c) \/ Approve(c) \/ Reject(c) \/ Expire(c)
    PROVE  QuietStep
  <1> DEFINE a == callers[c].action
  <1>0. CallersOK /\ RequestsOK
    BY DEF TypeInv
  <1>1. ASSUME NEW b \in Action, Propose(c, b) \/ BeginDecision(c, b) PROVE QuietStep
    <2>1. UNCHANGED <<scope, rows, elapsed, effects>>
      BY <1>1 DEF Propose, BeginDecision
    <2>2. CallersQuiet
      BY <1>0, <1>1, CallsQuiet DEF Propose, BeginDecision, Executing
    <2>. QED
      BY <2>1, <2>2 DEF rows, QuietStep, RequestsQuiet, ExecutionsQuiet
  <1>2. CASE CreateProposal(c)
    <2>1. At(c, "proposing") /\ ~At(c, "idle") /\ UNCHANGED <<executions, effects>>
      BY <1>2 DEF CreateProposal, At
    <2>2. a \in Action
      BY <1>0, <2>1, Working
    <2>3. callers[c].held.status \in Unsettling
      BY <1>0, <2>1, ProposalTyped DEF CallersOK, NewProposal, Unsettling
    <2>4. requests' = [requests EXCEPT ![a] = callers[c].held] \/ UNCHANGED requests
      BY <1>2 DEF CreateProposal
    <2>5. RequestsQuiet
      BY <1>0, <2>2, <2>3, <2>4, WriteQuiet DEF RequestsQuiet
    <2>6. CallersQuiet
      <3>1. PICK pc \in Pc \ Executing : Return(c) \/ Keep(c, pc)
        BY <1>2 DEF CreateProposal, Pc, Executing
      <3>. QED
        BY <1>0, <3>1, ReturnQuiet, KeepQuiet
    <2>. QED
      BY <2>1, <2>5, <2>6 DEF QuietStep, ExecutionsQuiet
  <1>3. CASE Approve(c) \/ Reject(c)
    <2>1. ~At(c, "idle") /\ Return(c) /\ UNCHANGED <<executions, effects>>
      BY <1>3 DEF Approve, Reject, At
    <2>2. a \in Action
      BY <1>0, <2>1, Working
    <2>3. ASSUME NEW role \in HumanRole,
                 requests' = [requests EXCEPT ![a].status = "APPROVED", ![a].approved = role,
                                              ![a].version = @ + 1]
          PROVE  RequestsQuiet
      BY <1>0, <2>2, <2>3 DEF RequestsOK, RequestRow, RequestsQuiet, Unsettling
    <2>4. ASSUME requests' = [requests EXCEPT ![a].status = "REJECTED", ![a].rejected = TRUE,
                                              ![a].version = @ + 1]
          PROVE  RequestsQuiet
      BY <1>0, <2>2, <2>4 DEF RequestsOK, RequestRow, RequestsQuiet, Unsettling
    <2>5. UNCHANGED requests => RequestsQuiet
      BY DEF RequestsQuiet
    <2>6. RequestsQuiet
      BY <1>3, <2>3, <2>4, <2>5 DEF Approve, Reject
    <2>. QED
      BY <1>0, <2>1, <2>6, ReturnQuiet DEF QuietStep, ExecutionsQuiet
  <1>4. CASE Expire(c)
    <2>1. ~At(c, "idle") /\ Return(c) /\ Expired(c) /\ UNCHANGED <<executions, effects>>
      BY <1>4 DEF Expire, At
    <2>. QED
      BY <1>0, <2>1, ReturnQuiet, ExpiredQuiet DEF QuietStep, ExecutionsQuiet
  <1>. QED
    BY <1>1, <1>2, <1>3, <1>4

(* The steps of the executor before a reservation.                           *)
LEMMA RefusalsQuiet ==
    ASSUME TypeInv, NEW c \in Caller,
           \/ \E a \in Action : BeginExecute(c, a)
           \/ Refuse(c) \/ Dies(c) \/ Deny(c) \/ FindExpired(c) \/ AskApproval(c)
    PROVE  QuietStep
  <1> DEFINE a == callers[c].action
  <1>0. CallersOK /\ RequestsOK
    BY DEF TypeInv
  <1>1. ASSUME NEW b \in Action, BeginExecute(c, b) PROVE QuietStep
    <2>1. UNCHANGED <<scope, rows, elapsed, effects>>
      BY <1>1 DEF BeginExecute
    <2>2. CallersQuiet
      BY <1>0, <1>1, CallsQuiet DEF BeginExecute, Executing
    <2>. QED
      BY <2>1, <2>2 DEF rows, QuietStep, RequestsQuiet, ExecutionsQuiet
  <1>2. CASE Refuse(c) \/ Dies(c)
    <2>1. Return(c) /\ UNCHANGED <<scope, rows, elapsed, effects>>
      BY <1>2 DEF Refuse, Dies
    <2>. QED
      BY <1>0, <2>1, ReturnQuiet DEF rows, QuietStep, RequestsQuiet, ExecutionsQuiet
  <1>3. CASE Deny(c)
    <2>1. ~At(c, "idle") /\ Return(c) /\ Overwrite(c, "REJECTED") /\ UNCHANGED <<executions, effects>>
      BY <1>3 DEF Deny, At
    <2>2. RequestsQuiet
      BY <1>0, <2>1, OverwriteQuiet DEF Unsettling
    <2>. QED
      BY <1>0, <2>1, <2>2, ReturnQuiet DEF QuietStep, ExecutionsQuiet
  <1>4. CASE FindExpired(c)
    <2>1. ~At(c, "idle") /\ Return(c) /\ Expired(c) /\ UNCHANGED <<executions, effects>>
      BY <1>4 DEF FindExpired, At
    <2>. QED
      BY <1>0, <2>1, ReturnQuiet, ExpiredQuiet DEF QuietStep, ExecutionsQuiet
  <1>5. CASE AskApproval(c)
    <2>1. ~At(c, "idle") /\ Return(c) /\ UNCHANGED <<executions, effects>>
      BY <1>5 DEF AskApproval, At
    <2>2. a \in Action
      BY <1>0, <2>1, Working
    <2>3. RequestsQuiet
      BY <1>0, <1>5, <2>2 DEF AskApproval, RequestsOK, RowOK, RequestRow, RequestsQuiet, Unsettling
    <2>. QED
      BY <1>0, <2>1, <2>3, ReturnQuiet DEF QuietStep, ExecutionsQuiet
  <1>. QED
    BY <1>1, <1>2, <1>3, <1>4, <1>5

(* The steps that stop an execution, and those that remember it.             *)
LEMMA AftermathQuiet ==
    ASSUME TypeInv, NEW c \in Caller,
           \/ HandlerStops(c) \/ SuccessNotStored(c) \/ MemoryFails(c)
           \/ \E a \in Action : BeginReconcile(c, a)
           \/ StartMemory(c) \/ RecordEvent(c) \/ MarksMemory(c)
    PROVE  QuietStep
  <1> DEFINE a == callers[c].action
  <1>0. CallersOK /\ RequestsOK /\ executions \in [Action -> ExecutionRow]
    BY DEF TypeInv
  <1>1. CASE HandlerStops(c) \/ SuccessNotStored(c) \/ MemoryFails(c)
    <2>1. UNCHANGED <<scope, rows, elapsed, effects>>
      BY <1>1 DEF HandlerStops, SuccessNotStored, MemoryFails
    <2>2. callers[c].pc \in Executing
          => \A pc \in {"failing", "cancelling"} : Goto(c, pc) \/ Keep(c, pc) => CallersQuiet
      BY <1>0, GotoQuiet, KeepQuiet
    <2>3. \A pc \in Pc \ Executing : Goto(c, pc) => CallersQuiet
      BY <1>0, GotoQuiet
    <2>4. At(c, "handling") \/ At(c, "succeeding") => callers[c].pc \in Executing
      BY DEF At, Executing
    <2>5. "giving_up" \in Pc \ Executing
      BY DEF Pc, Executing
    <2>6. CallersQuiet
      BY <1>1, <2>2, <2>3, <2>4, <2>5 DEF HandlerStops, SuccessNotStored, MemoryFails
    <2>. QED
      BY <2>1, <2>6 DEF rows, QuietStep, RequestsQuiet, ExecutionsQuiet
  <1>2. ASSUME NEW b \in Action, BeginReconcile(c, b) PROVE QuietStep
    <2>1. UNCHANGED <<scope, rows, elapsed, effects>>
      BY <1>2 DEF BeginReconcile
    <2>2. CallersQuiet
      BY <1>0, <1>2, CallsQuiet DEF BeginReconcile, Executing
    <2>. QED
      BY <2>1, <2>2 DEF rows, QuietStep, RequestsQuiet, ExecutionsQuiet
  <1>3. CASE StartMemory(c) \/ RecordEvent(c) \/ MarksMemory(c)
    <2>1. ~At(c, "idle") /\ UNCHANGED <<requests, effects>>
      BY <1>3 DEF StartMemory, RecordEvent, MarksMemory, MarkRecorded, MarkMemoryFailed, MarkMemory, At
    <2>2. a \in Action
      BY <1>0, <2>1, Working
    <2>3. \/ \E memory \in {"PENDING", "RECORDED", "FAILED"} :
                executions' = [executions EXCEPT ![a].memory = memory]
          \/ UNCHANGED executions
      BY <1>3 DEF StartMemory, RecordEvent, MarksMemory, MarkRecorded, MarkMemoryFailed, MarkMemory
    <2>4. ExecutionsQuiet
      BY <1>0, <2>2, <2>3 DEF ExecutionsQuiet, ExecutionRow
    <2>5. CallersQuiet
      <3>1. PICK pc \in Pc \ Executing : Return(c) \/ Goto(c, pc)
        BY <1>3 DEF StartMemory, RecordEvent, MarksMemory, MarkRecorded, MarkMemoryFailed, MarkMemory,
                    Pc, Executing
      <3>. QED
        BY <1>0, <3>1, ReturnQuiet, GotoQuiet
    <2>. QED
      BY <2>1, <2>4, <2>5 DEF QuietStep, RequestsQuiet
  <1>. QED
    BY <1>1, <1>2, <1>3

(* All other steps reserve, take effect or settle.                           *)
LEMMA MostStepsQuiet ==
    ASSUME TypeInv, [Next]_vars
    PROVE  QuietStep \/ \E c \in Caller : Reserve(c) \/ Handle(c) \/ Finalizes(c)
  <1>1. CASE ScopeStep \/ \E a \in Action : DeadlinePasses(a)
    <2>1. UNCHANGED <<rows, callers, effects>>
      BY <1>1 DEF ScopeStep, WorkflowMoves, CampaignMovesOn, CampaignUpdated, DeadlinePasses
    <2>. QED
      BY <2>1 DEF rows, QuietStep, CallersQuiet, RequestsQuiet, ExecutionsQuiet, Executes
  <1>2. CASE UNCHANGED vars
    BY <1>2 DEF vars, rows, QuietStep, CallersQuiet, RequestsQuiet, ExecutionsQuiet, Executes
  <1>3. ASSUME NEW c \in Caller, CallStep(c)
        PROVE  QuietStep \/ Reserve(c) \/ Handle(c) \/ Finalizes(c)
    BY <1>3, DecisionsQuiet, RefusalsQuiet, AftermathQuiet, Zenon DEF CallStep, Finalizes, MarksMemory
  <1>. QED
    BY <1>1, <1>2, <1>3 DEF Next

-----------------------------------------------------------------------------
(* What the other steps change.                                              *)

Reserves(c, a) ==
    /\ a \in Action /\ callers[c].action = a
    /\ executions[a].status = "ABSENT"
    /\ executions'[a].status = "RUNNING" /\ executions'[a].guard = CurrentGuard
    /\ executions'[a].memory = executions[a].memory
    /\ requests'[a].status = "EXECUTING"
    /\ \A b \in Action \ {a} : executions'[b] = executions[b] /\ requests'[b] = requests[b]
    /\ callers'[c].pc = "handling" /\ callers'[c].action = a
    /\ \A d \in Caller \ {c} : callers'[d] = callers[d]
    /\ {campaign.status, workflow} \subseteq Definition[a].allowed
    /\ UNCHANGED <<memories, effects>>

LEMMA ReserveReserves ==
    ASSUME TypeInv, NEW c \in Caller, Reserve(c)
    PROVE  \E a \in Action : Reserves(c, a)
  <1> DEFINE a == callers[c].action
             held == callers[c].held
  <1>1. ~At(c, "idle") /\ CallersOK /\ RequestsOK /\ executions \in [Action -> ExecutionRow]
    BY DEF Reserve, At, TypeInv
  <1>2. a \in Action
    BY <1>1, Working
  <1>3. /\ executions'[a].status = "RUNNING" /\ executions'[a].guard = CurrentGuard
        /\ executions'[a].memory = executions[a].memory
    BY <1>1, <1>2 DEF Reserve, ExecutionRow
  <1>4. requests'[a].status = "EXECUTING"
    BY <1>1, <1>2 DEF Reserve, Overwrite, RequestsOK, RequestRow
  <1>5. \A b \in Action \ {a} : executions'[b] = executions[b] /\ requests'[b] = requests[b]
    BY <1>1, <1>2 DEF Reserve, Overwrite, RequestsOK
  <1>6. /\ callers'[c].pc = "handling" /\ callers'[c].action = a
        /\ \A d \in Caller \ {c} : callers'[d] = callers[d]
    BY <1>1 DEF Reserve, Calls, CallersOK
  <1>7. {campaign.status, workflow} \subseteq Definition[a].allowed
    <2>1. PICK release \in Release : Evaluate(a, release).decision # "FORBIDDEN"
      BY DEF Reserve, MayRun, Admitted, FreshPolicy
    <2>. QED
      BY <2>1 DEF Evaluate
  <1>8. executions[a].status = "ABSENT" /\ UNCHANGED <<memories, effects>>
    BY DEF Reserve
  <1>. QED
    BY <1>2, <1>3, <1>4, <1>5, <1>6, <1>7, <1>8 DEF Reserves

TakesEffect(c, a) ==
    /\ a \in Action /\ callers[c].action = a /\ At(c, "handling")
    /\ executions[a].guard = CurrentGuard
    /\ effects'[a] = effects[a] + 1
    /\ \A b \in Action \ {a} : effects'[b] = effects[b]
    /\ callers'[c].pc \in {"succeeding", "failing", "cancelling"} /\ callers'[c].action = a
    /\ \A d \in Caller \ {c} : callers'[d] = callers[d]
    /\ UNCHANGED rows

LEMMA HandleTakesEffect ==
    ASSUME TypeInv, NEW c \in Caller, Handle(c)
    PROVE  \E a \in Action : TakesEffect(c, a)
  <1> DEFINE a == callers[c].action
  <1>1. At(c, "handling") /\ ~At(c, "idle") /\ CallersOK
    BY DEF Handle, At, TypeInv
  <1>2. a \in Action
    BY <1>1, Working
  <1>3. effects'[a] = effects[a] + 1 /\ \A b \in Action \ {a} : effects'[b] = effects[b]
    BY <1>2 DEF Handle, TypeInv
  <1>4. /\ callers'[c].pc \in {"succeeding", "failing", "cancelling"} /\ callers'[c].action = a
        /\ \A d \in Caller \ {c} : callers'[d] = callers[d]
    <2>1. PICK pc \in {"succeeding", "failing", "cancelling"} : Keep(c, pc)
      BY DEF Handle
    <2>. QED
      BY <1>1, <2>1 DEF Keep, CallersOK, Call
  <1>5. executions[a].guard = CurrentGuard /\ UNCHANGED rows
    BY DEF Handle
  <1>. QED
    BY <1>1, <1>2, <1>3, <1>4, <1>5 DEF TakesEffect

Settles(c, a, o) ==
    /\ a \in Action /\ callers[c].action = a
    /\ executions[a].status = "RUNNING"
    /\ executions'[a].status = o[1] /\ executions'[a].guard = executions[a].guard
    /\ executions'[a].memory = "PENDING"
    /\ requests'[a].status = o[2]
    /\ \A b \in Action \ {a} : executions'[b] = executions[b] /\ requests'[b] = requests[b]
    /\ o[1] = "COMPLETED" => At(c, "succeeding")
    /\ callers[c].pc \in Executing
    /\ callers'[c].pc = "recording" /\ callers'[c].action = a
    /\ \A d \in Caller \ {c} : callers'[d] = callers[d]
    /\ UNCHANGED <<memories, effects>>

LEMMA FinalizationSettles ==
    ASSUME TypeInv, NEW c \in Caller, Finalizes(c)
    PROVE  \E a \in Action, o \in Outcome : Settles(c, a, o)
  <1> DEFINE a == callers[c].action
  <1>0. PICK o \in Outcome : SettlesAs(c, o)
    BY FinalizeSettles
  <1>1. Settle(c, o[1], o[2])
    BY <1>0 DEF SettlesAs
  <1>2. ~At(c, "idle") /\ CallersOK /\ RequestsOK /\ executions \in [Action -> ExecutionRow]
    BY FinalizeSettles DEF At, TypeInv
  <1>3. a \in Action
    BY <1>2, Working
  <1>4. /\ executions'[a].status = o[1] /\ executions'[a].guard = executions[a].guard
        /\ executions'[a].memory = "PENDING"
    BY <1>1, <1>2, <1>3 DEF Settle, ExecutionRow
  <1>5. requests'[a].status = o[2]
    BY <1>1, <1>2, <1>3 DEF Settle, RequestsOK, RequestRow
  <1>6. \A b \in Action \ {a} : executions'[b] = executions[b] /\ requests'[b] = requests[b]
    BY <1>1, <1>2, <1>3 DEF Settle, RequestsOK
  <1>7. /\ callers'[c].pc = "recording" /\ callers'[c].action = a
        /\ \A d \in Caller \ {c} : callers'[d] = callers[d]
    BY <1>1, <1>2 DEF Settle, Goto, Calls, CallersOK
  <1>8. executions[a].status = "RUNNING" /\ UNCHANGED <<memories, effects>>
    BY <1>1 DEF Settle
  <1>9. callers[c].pc \in Executing /\ (o[1] = "COMPLETED" => At(c, "succeeding"))
    BY <1>0, FinalizeSettles DEF SettlesAs, Executing, At
  <1>. QED
    BY <1>3, <1>4, <1>5, <1>6, <1>7, <1>8, <1>9 DEF Settles

-----------------------------------------------------------------------------
(* One side effect.                                                          *)

(* Nobody executes an action that no execution is reserved for; a reservation *)
(* has one owner, who alone takes effect and settles.                        *)
LEMMA ExecutionQuiet ==
    ASSUME ExecutionInv, QuietStep
    PROVE  ExecutionInv'
  <1>1. ASSUME NEW d \in Caller, NEW b \in Action, Executes(d, b)'
        PROVE  /\ executions'[b].status = "RUNNING"
               /\ callers'[d].pc = "handling" => effects'[b] = 0
               /\ callers'[d].pc = "succeeding" => effects'[b] = 1
               /\ Executes(d, b)
    <2>1. Executes(d, b) /\ (callers'[d] = callers[d] \/ callers'[d].pc \in {"failing", "cancelling"})
      BY <1>1 DEF QuietStep, CallersQuiet
    <2>. QED
      BY <2>1 DEF ExecutionInv, QuietStep, ExecutionsQuiet, At
  <1>2. \A b \in Action : /\ effects'[b] \in {0, 1}
                          /\ executions'[b].status = "ABSENT" => effects'[b] = 0
                          /\ executions'[b].status = "COMPLETED" => effects'[b] = 1
    BY DEF ExecutionInv, QuietStep, ExecutionsQuiet
  <1>3. \A d, e \in Caller, b \in Action : Executes(d, b)' /\ Executes(e, b)' => d = e
    BY <1>1 DEF ExecutionInv
  <1>. QED
    BY <1>1, <1>2, <1>3 DEF ExecutionInv, At

LEMMA ExecutionReserved ==
    ASSUME ExecutionInv, NEW c \in Caller, NEW a \in Action, Reserves(c, a)
    PROVE  ExecutionInv'
  <1>1. effects'[a] = 0 /\ \A d \in Caller : ~Executes(d, a)
    BY DEF ExecutionInv, Reserves
  <1>2. ASSUME NEW d \in Caller, NEW b \in Action, Executes(d, b)'
        PROVE  \/ d = c /\ b = a
               \/ d # c /\ b # a /\ Executes(d, b) /\ callers'[d] = callers[d]
    <2>1. CASE d = c
      BY <1>2, <2>1 DEF Reserves, Executes
    <2>2. CASE d # c
      <3>1. callers'[d] = callers[d]
        BY <2>2 DEF Reserves
      <3>2. Executes(d, b)
        BY <1>2, <3>1 DEF Executes
      <3>. QED
        BY <1>1, <2>2, <3>1, <3>2
    <2>. QED
      BY <2>1, <2>2
  <1>3. ASSUME NEW d \in Caller, NEW b \in Action, Executes(d, b)'
        PROVE  /\ executions'[b].status = "RUNNING"
               /\ callers'[d].pc = "handling" => effects'[b] = 0
               /\ callers'[d].pc = "succeeding" => effects'[b] = 1
    BY <1>1, <1>2, <1>3 DEF ExecutionInv, Reserves, At
  <1>4. \A d, e \in Caller, b \in Action : Executes(d, b)' /\ Executes(e, b)' => d = e
    BY <1>2 DEF ExecutionInv
  <1>5. \A b \in Action : /\ effects'[b] \in {0, 1}
                          /\ executions'[b].status = "ABSENT" => effects'[b] = 0
                          /\ executions'[b].status = "COMPLETED" => effects'[b] = 1
    BY <1>1 DEF ExecutionInv, Reserves
  <1>. QED
    BY <1>3, <1>4, <1>5 DEF ExecutionInv, At

LEMMA ExecutionTakesEffect ==
    ASSUME ExecutionInv, NEW c \in Caller, NEW a \in Action, TakesEffect(c, a)
    PROVE  ExecutionInv'
  <1>1. Executes(c, a) /\ effects[a] = 0 /\ executions[a].status = "RUNNING"
    BY DEF ExecutionInv, TakesEffect, Executes, At
  <1>2. ASSUME NEW d \in Caller, NEW b \in Action, Executes(d, b)'
        PROVE  /\ Executes(d, b)
               /\ \/ d = c /\ b = a
                  \/ d # c /\ b # a /\ callers'[d] = callers[d]
    <2>1. CASE d = c
      <3>1. b = a
        BY <1>2, <2>1 DEF TakesEffect, Executes
      <3>. QED
        BY <1>1, <2>1, <3>1
    <2>2. CASE d # c
      <3>1. callers'[d] = callers[d]
        BY <2>2 DEF TakesEffect
      <3>2. Executes(d, b)
        BY <1>2, <3>1 DEF Executes
      <3>. QED
        BY <1>1, <2>2, <3>1, <3>2 DEF ExecutionInv
    <2>. QED
      BY <2>1, <2>2
  <1>3. effects'[a] = 1 /\ UNCHANGED executions
    BY <1>1 DEF TakesEffect, rows
  <1>4. ASSUME NEW d \in Caller, NEW b \in Action, Executes(d, b)'
        PROVE  /\ executions'[b].status = "RUNNING"
               /\ callers'[d].pc = "handling" => effects'[b] = 0
               /\ callers'[d].pc = "succeeding" => effects'[b] = 1
    BY <1>2, <1>3, <1>4 DEF ExecutionInv, TakesEffect, At
  <1>5. \A d, e \in Caller, b \in Action : Executes(d, b)' /\ Executes(e, b)' => d = e
    BY <1>2 DEF ExecutionInv
  <1>6. \A b \in Action : /\ effects'[b] \in {0, 1}
                          /\ executions'[b].status = "ABSENT" => effects'[b] = 0
                          /\ executions'[b].status = "COMPLETED" => effects'[b] = 1
    BY <1>1, <1>3 DEF ExecutionInv, TakesEffect
  <1>. QED
    BY <1>4, <1>5, <1>6 DEF ExecutionInv, At

LEMMA ExecutionSettled ==
    ASSUME ExecutionInv, NEW c \in Caller, NEW a \in Action, NEW o \in Outcome, Settles(c, a, o)
    PROVE  ExecutionInv'
  <1>1. Executes(c, a)
    BY DEF Settles, Executes, Executing
  <1>2. ASSUME NEW d \in Caller, NEW b \in Action, Executes(d, b)'
        PROVE  d # c /\ b # a /\ Executes(d, b) /\ callers'[d] = callers[d]
    BY <1>1, <1>2 DEF Settles, Executes, ExecutionInv
  <1>3. ASSUME NEW d \in Caller, NEW b \in Action, Executes(d, b)'
        PROVE  /\ executions'[b].status = "RUNNING"
               /\ callers'[d].pc = "handling" => effects'[b] = 0
               /\ callers'[d].pc = "succeeding" => effects'[b] = 1
    BY <1>2, <1>3 DEF ExecutionInv, Settles, At
  <1>4. \A d, e \in Caller, b \in Action : Executes(d, b)' /\ Executes(e, b)' => d = e
    BY <1>2 DEF ExecutionInv
  <1>5. o[1] # "ABSENT" /\ (o[1] = "COMPLETED" => effects[a] = 1)
    BY <1>1 DEF Outcome, Settles, ExecutionInv
  <1>6. \A b \in Action : /\ effects'[b] \in {0, 1}
                          /\ executions'[b].status = "ABSENT" => effects'[b] = 0
                          /\ executions'[b].status = "COMPLETED" => effects'[b] = 1
    BY <1>5 DEF ExecutionInv, Settles
  <1>. QED
    BY <1>3, <1>4, <1>6 DEF ExecutionInv, At

LEMMA ExecutionKept == TypeInv /\ ExecutionInv /\ [Next]_vars => ExecutionInv'
  <1> SUFFICES ASSUME TypeInv, ExecutionInv, [Next]_vars PROVE ExecutionInv'
    OBVIOUS
  <1>. QED
    BY MostStepsQuiet, ReserveReserves, HandleTakesEffect, FinalizationSettles,
       ExecutionQuiet, ExecutionReserved, ExecutionTakesEffect, ExecutionSettled

LEMMA ExecutionInit == Init => ExecutionInv
  BY DEF Init, ExecutionInv, Executes, Idle, NoExecution

LEMMA Invariants == Spec => [](TypeInv /\ ExecutionInv)
  BY InitTyped, NextTyped, ExecutionInit, ExecutionKept, PTL DEF Spec

(* One request has one side effect: although the executor trusts a status it  *)
(* read before its locks, no behaviour of duplicate, repeated, overlapping or  *)
(* dying calls runs the handler of an action to its commit twice.             *)
THEOREM OneSideEffectHolds == Spec => []OneSideEffect
  <1>1. TypeInv /\ ExecutionInv => OneSideEffect
    <2>1. ExecutionInv => \A a \in Action : /\ effects[a] <= 1
                                            /\ effects[a] = 1 => executions[a].status # "ABSENT"
      <3>1. \A n \in {0, 1} : n <= 1
        OBVIOUS
      <3>2. ExecutionInv => \A a \in Action : effects[a] \in {0, 1}
        BY DEF ExecutionInv
      <3>3. ExecutionInv => \A a \in Action : effects[a] = 1 => executions[a].status # "ABSENT"
        BY <3>2 DEF ExecutionInv
      <3>. QED
        BY <3>1, <3>2, <3>3
    <2>2. ExecutionInv => \A a \in Action, c, d \in Caller : Executes(c, a) /\ Executes(d, a) => c = d
      BY DEF ExecutionInv
    <2>. QED
      BY <2>1, <2>2 DEF OneSideEffect
  <1>. QED
    BY <1>1, Invariants, PTL

-----------------------------------------------------------------------------
(* The outcome that a request shows.                                         *)

LEMMA RequestKept == TypeInv /\ RequestInv /\ [Next]_vars => RequestInv'
  <1> SUFFICES ASSUME TypeInv, RequestInv, [Next]_vars PROVE RequestInv'
    OBVIOUS
  <1>1. CASE QuietStep
    BY <1>1 DEF QuietStep, RequestsQuiet, ExecutionsQuiet, RequestInv, Unsettling
  <1>2. ASSUME NEW c \in Caller, Reserve(c) PROVE RequestInv'
    <2>1. PICK a \in Action : Reserves(c, a)
      BY <1>2, ReserveReserves
    <2>. QED
      BY <2>1 DEF Reserves, RequestInv
  <1>3. ASSUME NEW c \in Caller, Handle(c) PROVE RequestInv'
    BY <1>3 DEF Handle, rows, RequestInv
  <1>4. ASSUME NEW c \in Caller, Finalizes(c) PROVE RequestInv'
    <2>1. PICK a \in Action, o \in Outcome : Settles(c, a, o)
      BY <1>4, FinalizationSettles
    <2>2. /\ o[2] # "EXECUTING"
          /\ o[2] = "COMPLETED" => o[1] = "COMPLETED"
          /\ o[2] = "FAILED" => o[1] \in {"FAILED", "CANCELLED"}
      BY DEF Outcome
    <2>. QED
      BY <2>1, <2>2 DEF Settles, RequestInv
  <1>. QED
    BY <1>1, <1>2, <1>3, <1>4, MostStepsQuiet

LEMMA RequestInit == Init => RequestInv
  <1>1. Init => \A a \in Action : requests[a] = NoRequest
    BY DEF Init
  <1>2. NoRequest.status = "ABSENT"
    BY DEF NoRequest
  <1>. QED
    BY <1>1, <1>2 DEF RequestInv

(* A request never claims an outcome its execution does not have, although    *)
(* overlapping calls write it from rows of different ages, and whatever is    *)
(* shown as completed did take effect.                                       *)
LEMMA OutcomeTrue == Spec => []OutcomeIsTrue
  <1>1. Spec => []RequestInv
    BY InitTyped, NextTyped, RequestInit, RequestKept, PTL DEF Spec
  <1>2. ExecutionInv /\ RequestInv => OutcomeIsTrue
    BY DEF ExecutionInv, RequestInv, OutcomeIsTrue
  <1>. QED
    BY <1>1, <1>2, Invariants, PTL

-----------------------------------------------------------------------------
(* Where an action takes effect.                                             *)

LEMMA GuardKept == TypeInv /\ GuardInv /\ [Next]_vars => GuardInv'
  <1> SUFFICES ASSUME TypeInv, GuardInv, [Next]_vars PROVE GuardInv'
    OBVIOUS
  <1>1. CASE QuietStep
    BY <1>1 DEF QuietStep, ExecutionsQuiet, GuardInv, AllowedGuard
  <1>2. ASSUME NEW c \in Caller, Reserve(c) PROVE GuardInv'
    <2>1. PICK a \in Action : Reserves(c, a)
      BY <1>2, ReserveReserves
    <2>2. AllowedGuard(a)'
      BY <2>1 DEF Reserves, AllowedGuard, CurrentGuard
    <2>3. ASSUME NEW b \in Action \ {a}, executions'[b].status # "ABSENT" PROVE AllowedGuard(b)'
      BY <2>1, <2>3 DEF Reserves, GuardInv, AllowedGuard
    <2>. QED
      BY <2>2, <2>3 DEF GuardInv
  <1>3. ASSUME NEW c \in Caller, Handle(c) PROVE GuardInv'
    BY <1>3 DEF Handle, rows, GuardInv, AllowedGuard
  <1>4. ASSUME NEW c \in Caller, Finalizes(c) PROVE GuardInv'
    <2>1. PICK a \in Action, o \in Outcome : Settles(c, a, o)
      BY <1>4, FinalizationSettles
    <2>2. ASSUME NEW b \in Action, executions'[b].status # "ABSENT" PROVE AllowedGuard(b)'
      BY <2>1, <2>2 DEF Settles, GuardInv, AllowedGuard
    <2>. QED
      BY <2>2 DEF GuardInv
  <1>. QED
    BY <1>1, <1>2, <1>3, <1>4, MostStepsQuiet

LEMMA GuardInit == Init => GuardInv
  BY DEF Init, GuardInv, NoExecution

(* An action takes effect where it is allowed.                               *)
LEMMA EffectAllowed ==
    ASSUME TypeInv, GuardInv, ExecutionInv, [Next]_vars, NEW a \in Action, effects'[a] # effects[a]
    PROVE  /\ {campaign.status, workflow} \subseteq Definition[a].allowed
           /\ campaign.version = executions[a].guard.campaign.version
  <1>1. PICK c \in Caller : Handle(c)
    <2>1. ~QuietStep
      BY DEF QuietStep
    <2>2. \A c \in Caller : Reserve(c) => FALSE
      BY DEF Reserve
    <2>3. \A c \in Caller : Finalizes(c) => FALSE
      BY FinalizationSettles DEF Settles
    <2>. QED
      BY <2>1, <2>2, <2>3, MostStepsQuiet
  <1>2. PICK b \in Action : TakesEffect(c, b)
    BY <1>1, HandleTakesEffect
  <1>3. a = b
    BY <1>2 DEF TakesEffect
  <1>4. executions[a].guard = CurrentGuard
    BY <1>2, <1>3 DEF TakesEffect
  <1>5. executions[a].status = "RUNNING"
    BY <1>2, <1>3 DEF TakesEffect, ExecutionInv, Executes, At
  <1>6. AllowedGuard(a)
    BY <1>5 DEF GuardInv
  <1>. QED
    BY <1>4, <1>6 DEF AllowedGuard, CurrentGuard

(* The gap between the policy that admits an action and the transaction of    *)
(* its handler is closed: what the handler commits, it commits in statuses     *)
(* and in a version of the campaign that the policy has seen.                 *)
THEOREM EffectsAllowed == Spec => EffectsAreAllowed
  <1>1. Spec => []GuardInv
    BY InitTyped, NextTyped, GuardInit, GuardKept, PTL DEF Spec
  <1>2. TypeInv /\ GuardInv /\ ExecutionInv /\ [Next]_vars
        => [\A a \in Action :
               effects'[a] # effects[a]
               => /\ {campaign.status, workflow} \subseteq Definition[a].allowed
                  /\ campaign.version = executions[a].guard.campaign.version]_vars
    BY EffectAllowed
  <1>. QED
    BY <1>1, <1>2, Invariants, PTL DEF Spec, EffectsAreAllowed

-----------------------------------------------------------------------------
(* The memory of an execution.                                               *)

Remembering == {"remembering", "recording", "marking", "giving_up"}

(* Who remembers, remembers what is finished; who marks, has recorded.        *)
RememberInv ==
    \A c \in Caller :
        /\ callers[c].pc \in Remembering => Terminal(callers[c].action)
        /\ callers[c].pc = "marking" => memories[callers[c].action] # {}

(* Executions stay finished and memories stay.                               *)
Lasting ==
    \A a \in Action : /\ Terminal(a) => Terminal(a)'
                      /\ memories[a] # {} => memories'[a] # {}

LEMMA CallRemembers ==
    ASSUME CallersOK, RememberInv, Lasting, NEW c \in Caller, NEW call,
           callers' = [callers EXCEPT ![c] = call],
           call.pc \in Remembering => executions'[call.action].status \in {"COMPLETED", "FAILED", "CANCELLED"},
           call.pc = "marking" => memories'[call.action] # {}
    PROVE  RememberInv'
  <1>1. ASSUME NEW d \in Caller \ {c}, callers[d].pc \in Remembering
        PROVE  /\ executions'[callers[d].action].status \in {"COMPLETED", "FAILED", "CANCELLED"}
               /\ callers[d].pc = "marking" => memories'[callers[d].action] # {}
    <2>1. callers[d].action \in Action
      BY <1>1, Working DEF Remembering, At
    <2>2. /\ Terminal(callers[d].action)
          /\ callers[d].pc = "marking" => memories[callers[d].action] # {}
      BY <1>1 DEF RememberInv
    <2>. QED
      BY <2>1, <2>2 DEF Lasting, Terminal
  <1>2. callers'[c] = call /\ \A d \in Caller \ {c} : callers'[d] = callers[d]
    BY DEF CallersOK
  <1>3. \A pc : pc = "marking" => pc \in Remembering
    BY DEF Remembering
  <1>4. ASSUME NEW d \in Caller
        PROVE  /\ callers'[d].pc \in Remembering
                  => executions'[callers'[d].action].status \in {"COMPLETED", "FAILED", "CANCELLED"}
               /\ callers'[d].pc = "marking" => memories'[callers'[d].action] # {}
    <2>1. CASE d = c
      BY <1>2, <2>1
    <2>2. CASE d # c
      BY <1>1, <1>2, <1>3, <2>2
    <2>. QED
      BY <2>1, <2>2
  <1>. QED
    BY <1>4 DEF RememberInv, Terminal

LEMMA ReturnRemembers ==
    ASSUME CallersOK, RememberInv, Lasting, NEW c \in Caller, Return(c)
    PROVE  RememberInv'
  <1>1. callers' = [callers EXCEPT ![c] = Idle] /\ Idle.pc \notin Remembering /\ Idle.pc # "marking"
    BY DEF Return, Idle, Remembering
  <1>. QED
    BY <1>1, CallRemembers

LEMMA CallsRemember ==
    ASSUME CallersOK, RememberInv, Lasting, NEW c \in Caller, NEW pc, NEW a, NEW held,
           Calls(c, pc, a, held),
           pc \in Remembering => executions'[a].status \in {"COMPLETED", "FAILED", "CANCELLED"},
           pc = "marking" => memories'[a] # {}
    PROVE  RememberInv'
  <1> DEFINE call == [pc |-> pc, action |-> a, held |-> held]
  <1>1. callers' = [callers EXCEPT ![c] = call] /\ call.pc = pc /\ call.action = a
    BY DEF Calls
  <1> HIDE DEF call
  <1>. QED
    BY <1>1, CallRemembers

LEMMA KeepRemembers ==
    ASSUME CallersOK, RememberInv, Lasting, NEW c \in Caller, NEW pc \in Pc \ Remembering, Keep(c, pc)
    PROVE  RememberInv'
  <1> DEFINE call == [callers[c] EXCEPT !.pc = pc]
  <1>1. callers' = [callers EXCEPT ![c] = call]
    BY Zenon DEF Keep
  <1>2. call.pc \notin Remembering /\ call.pc # "marking"
    BY DEF CallersOK, Call, Remembering
  <1> HIDE DEF call
  <1>. QED
    BY <1>1, <1>2, CallRemembers

(* Steps of a call that have nothing to do with memory.                      *)
Unconcerned(c) ==
    \/ \E a \in Action : Propose(c, a) \/ BeginDecision(c, a) \/ BeginExecute(c, a)
    \/ CreateProposal(c) \/ Approve(c) \/ Reject(c) \/ Expire(c)
    \/ Refuse(c) \/ Deny(c) \/ FindExpired(c) \/ AskApproval(c)
    \/ Handle(c) \/ HandlerStops(c) \/ SuccessNotStored(c) \/ Dies(c)

GoesOn(c) ==
    \/ Return(c)
    \/ \E pc \in Pc \ Remembering :
          Keep(c, pc) \/ Goto(c, pc) \/ \E a \in Action : \E held \in RequestRow : Calls(c, pc, a, held)

LEMMA UnconcernedGoesOn ==
    ASSUME TypeInv, NEW c \in Caller, Unconcerned(c)
    PROVE  UNCHANGED <<executions, memories>> /\ GoesOn(c)
  <1>0. \A pc \in {"proposing", "approving", "rejecting", "expiring", "locking", "succeeding",
                   "failing", "cancelling"} : pc \in Pc \ Remembering
    BY DEF Pc, Remembering
  <1>1. ASSUME NEW a \in Action, Propose(c, a)
        PROVE  UNCHANGED <<executions, memories>> /\ GoesOn(c)
    <2>1. PICK rule \in Rule : Calls(c, "proposing", a, Proposal(rule))
      BY <1>1, EvaluatedRule DEF Propose
    <2>. QED
      BY <1>0, <1>1, <2>1, ProposalTyped DEF Propose, rows, GoesOn, RowOK
  <1>2. ASSUME NEW a \in Action, BeginDecision(c, a) \/ BeginExecute(c, a)
        PROVE  UNCHANGED <<executions, memories>> /\ GoesOn(c)
    <2>1. requests[a] \in RequestRow
      BY DEF TypeInv, RequestsOK
    <2>2. PICK pc \in {"approving", "rejecting", "expiring", "locking"} : Calls(c, pc, a, requests[a])
      BY <1>2 DEF BeginDecision, BeginExecute
    <2>. QED
      BY <1>0, <1>2, <2>1, <2>2 DEF BeginDecision, BeginExecute, rows, GoesOn
  <1>3. CASE CreateProposal(c) \/ Approve(c) \/ Reject(c) \/ Expire(c)
    BY <1>0, <1>3 DEF CreateProposal, Approve, Reject, Expire, GoesOn
  <1>4. CASE Refuse(c) \/ Deny(c) \/ FindExpired(c) \/ AskApproval(c) \/ Dies(c)
    BY <1>4 DEF Refuse, Deny, FindExpired, AskApproval, Dies, rows, GoesOn
  <1>5. CASE Handle(c) \/ HandlerStops(c) \/ SuccessNotStored(c)
    BY <1>0, <1>5 DEF Handle, HandlerStops, SuccessNotStored, rows, GoesOn
  <1>. QED
    BY <1>1, <1>2, <1>3, <1>4, <1>5 DEF Unconcerned

LEMMA GoesOnRemembers ==
    ASSUME CallersOK, RememberInv, Lasting, NEW c \in Caller, GoesOn(c)
    PROVE  RememberInv'
  <1>0. \A pc : pc = "marking" => pc \in Remembering
    BY DEF Remembering
  <1>1. CASE Return(c)
    BY <1>1, ReturnRemembers
  <1>2. ASSUME NEW pc \in Pc \ Remembering, Keep(c, pc) PROVE RememberInv'
    BY <1>2, KeepRemembers
  <1>3. ASSUME NEW pc \in Pc \ Remembering, NEW a, NEW held, Calls(c, pc, a, held)
        PROVE  RememberInv'
    <2>1. pc \notin Remembering /\ pc # "marking"
      BY <1>0
    <2>. QED
      BY <1>3, <2>1, CallsRemember
  <1>4. ASSUME NEW pc \in Pc \ Remembering, Goto(c, pc) PROVE RememberInv'
    BY <1>3, <1>4 DEF Goto
  <1>. QED
    BY <1>1, <1>2, <1>3, <1>4 DEF GoesOn

(* A step that leaves executions and memories alone.                         *)
LEMMA RowsKeptMemory ==
    ASSUME MemoryIsTrue, UNCHANGED <<executions, memories>>
    PROVE  MemoryIsTrue' /\ Lasting
  BY DEF MemoryIsTrue, Lasting, Terminal, Event

LEMMA ReservedMemory ==
    ASSUME TypeInv, MemoryIsTrue, RememberInv, NEW c \in Caller, Reserve(c)
    PROVE  MemoryIsTrue' /\ RememberInv'
  <1>0. CallersOK
    BY DEF TypeInv
  <1>1. PICK a \in Action : Reserves(c, a)
    BY ReserveReserves
  <1>2. ~Terminal(a) /\ ~Terminal(a)' /\ memories[a] = {} /\ memories'[a] = {}
    BY <1>1 DEF Reserves, Terminal, MemoryIsTrue, TypeInv
  <1>3. executions'[a].memory = executions[a].memory /\ UNCHANGED memories
    BY <1>1 DEF Reserves
  <1>4. \A b \in Action \ {a} : executions'[b] = executions[b]
    BY <1>1 DEF Reserves
  <1>5. MemoryIsTrue'
    BY <1>2, <1>3, <1>4 DEF MemoryIsTrue, Terminal, Event
  <1>6. Lasting
    BY <1>2, <1>3, <1>4 DEF Lasting, Terminal
  <1>7. RememberInv'
    <2>1. "handling" \notin Remembering /\ "handling" # "marking"
      BY DEF Remembering
    <2>2. PICK pc \in {"handling"} : \E held : Calls(c, pc, callers[c].action, held)
      BY DEF Reserve
    <2>3. PICK held : Calls(c, pc, callers[c].action, held)
      BY <2>2
    <2>. QED
      BY <1>0, <1>6, <2>1, <2>3, CallsRemember
  <1>. QED
    BY <1>5, <1>7

LEMMA SettledMemory ==
    ASSUME TypeInv, MemoryIsTrue, RememberInv, NEW c \in Caller, Finalizes(c)
    PROVE  MemoryIsTrue' /\ RememberInv'
  <1>0. CallersOK
    BY DEF TypeInv
  <1>1. PICK a \in Action, o \in Outcome : Settles(c, a, o)
    BY FinalizationSettles
  <1>2. o[1] \in {"COMPLETED", "FAILED", "CANCELLED"}
    BY DEF Outcome
  <1>3. ~Terminal(a) /\ Terminal(a)' /\ memories[a] = {} /\ memories'[a] = {}
    BY <1>1, <1>2 DEF Settles, Terminal, MemoryIsTrue, TypeInv
  <1>4. executions'[a].memory = "PENDING" /\ UNCHANGED memories
    BY <1>1 DEF Settles
  <1>5. \A b \in Action \ {a} : executions'[b] = executions[b]
    BY <1>1 DEF Settles
  <1>6. MemoryIsTrue'
    BY <1>3, <1>4, <1>5 DEF MemoryIsTrue, Terminal, Event
  <1>7. Lasting
    BY <1>3, <1>4, <1>5 DEF Lasting, Terminal
  <1>8. RememberInv'
    <2>1. PICK pc \in {"recording"} : Goto(c, pc)
      BY <1>1, FinalizeSettles DEF SettlesAs, Settle
    <2>2. pc # "marking"
      OBVIOUS
    <2>3. executions'[callers[c].action].status \in {"COMPLETED", "FAILED", "CANCELLED"}
      BY <1>1, <1>2 DEF Settles
    <2>. QED
      BY <1>0, <1>7, <2>1, <2>2, <2>3, CallsRemember DEF Goto
  <1>. QED
    BY <1>6, <1>8

(* The transactions of a memory mark it or add the one event to it.           *)
LEMMA MarkedMemory ==
    ASSUME TypeInv, MemoryIsTrue, NEW a \in Action, Terminal(a),
           NEW memory \in {"PENDING", "RECORDED", "FAILED"},
           executions' = [executions EXCEPT ![a].memory = memory],
           memory = "RECORDED" => memories[a] # {}, UNCHANGED memories
    PROVE  MemoryIsTrue' /\ Lasting
  <1>1. /\ executions'[a].memory = memory /\ executions'[a].status = executions[a].status
        /\ \A b \in Action \ {a} : executions'[b] = executions[b]
    BY DEF TypeInv, ExecutionRow
  <1>. QED
    BY <1>1 DEF MemoryIsTrue, Lasting, Terminal, Event

LEMMA RememberedMemory ==
    ASSUME TypeInv, MemoryIsTrue, RememberInv, NEW c \in Caller,
           \/ \E a \in Action : BeginReconcile(c, a)
           \/ StartMemory(c) \/ RecordEvent(c) \/ MarksMemory(c) \/ MemoryFails(c)
    PROVE  MemoryIsTrue' /\ RememberInv'
  <1> DEFINE a == callers[c].action
  <1>0. CallersOK
    BY DEF TypeInv
  <1>1. ASSUME NEW b \in Action, BeginReconcile(c, b) PROVE MemoryIsTrue' /\ RememberInv'
    <2>1. MemoryIsTrue' /\ Lasting
      BY <1>1, RowsKeptMemory DEF BeginReconcile, rows
    <2>2. executions'[b].status \in {"COMPLETED", "FAILED", "CANCELLED"}
      BY <1>1 DEF BeginReconcile, rows, Terminal
    <2>3. PICK pc \in {"remembering"} : Calls(c, pc, b, NoRequest)
      BY <1>1 DEF BeginReconcile
    <2>4. pc # "marking"
      OBVIOUS
    <2>. QED
      BY <1>0, <2>1, <2>2, <2>3, <2>4, CallsRemember
  <1>2. ASSUME callers[c].pc \in Remembering, MemoryIsTrue', Lasting,
               NEW pc, Goto(c, pc), pc = "marking" => memories'[a] # {}
        PROVE  MemoryIsTrue' /\ RememberInv'
    <2>1. a \in Action /\ Terminal(a)
      BY <1>0, <1>2, Working DEF RememberInv, Remembering, At
    <2>2. executions'[a].status \in {"COMPLETED", "FAILED", "CANCELLED"}
      BY <1>2, <2>1 DEF Lasting, Terminal
    <2>. QED
      BY <1>0, <1>2, <2>2, CallsRemember DEF Goto
  <1>3. callers[c].pc \in Remembering => a \in Action /\ Terminal(a)
    BY <1>0, Working DEF RememberInv, Remembering, At
  <1>4. CASE MemoryFails(c)
    <2>1. callers[c].pc \in Remembering /\ UNCHANGED <<executions, memories>>
      BY <1>4 DEF MemoryFails, rows, Remembering, At
    <2>2. PICK pc \in {"giving_up"} : Goto(c, pc)
      BY <1>4 DEF MemoryFails
    <2>3. pc # "marking"
      OBVIOUS
    <2>. QED
      BY <1>2, <2>1, <2>2, <2>3, RowsKeptMemory
  <1>5. CASE StartMemory(c)
    <2>1. callers[c].pc \in Remembering /\ UNCHANGED memories
      BY <1>5 DEF StartMemory, Remembering, At
    <2>2. \/ executions' = [executions EXCEPT ![a].memory = "PENDING"]
          \/ UNCHANGED executions
      BY <1>5 DEF StartMemory
    <2>3. MemoryIsTrue' /\ Lasting
      BY <1>3, <2>1, <2>2, RowsKeptMemory, MarkedMemory
    <2>4. CASE Return(c)
      BY <1>0, <2>3, <2>4, ReturnRemembers
    <2>5. ASSUME NEW pc \in {"recording"}, Goto(c, pc) PROVE MemoryIsTrue' /\ RememberInv'
      <3>1. pc # "marking"
        OBVIOUS
      <3>. QED
        BY <1>2, <2>1, <2>3, <2>5, <3>1
    <2>. QED
      BY <1>5, <2>4, <2>5 DEF StartMemory
  <1>6. CASE RecordEvent(c)
    <2>1. callers[c].pc \in Remembering /\ UNCHANGED executions
      BY <1>6 DEF RecordEvent, Remembering, At
    <2>2. memories' = [memories EXCEPT ![a] = @ \cup {Event(a)}]
      BY <1>6 DEF RecordEvent
    <2>3. /\ memories'[a] = memories[a] \cup {Event(a)}
          /\ \A b \in Action \ {a} : memories'[b] = memories[b]
      BY <1>3, <2>1, <2>2 DEF TypeInv
    <2>4. \A b \in Action : Event(b)' = Event(b) /\ (Terminal(b)' <=> Terminal(b))
      BY <2>1 DEF Event, Terminal
    <2>5. MemoryIsTrue' /\ Lasting
      BY <1>3, <2>1, <2>3, <2>4 DEF MemoryIsTrue, Lasting
    <2>6. PICK pc \in {"marking"} : Goto(c, pc)
      BY <1>6 DEF RecordEvent
    <2>7. memories'[a] # {}
      BY <2>3
    <2>. QED
      BY <1>2, <2>1, <2>5, <2>6, <2>7
  <1>7. CASE MarksMemory(c)
    <2>1. callers[c].pc \in Remembering
      BY <1>7 DEF MarksMemory, MarkRecorded, MarkMemoryFailed, Remembering, At
    <2>2. PICK memory \in {"RECORDED", "FAILED"} :
             MarkMemory(c, memory) /\ (memory = "RECORDED" => callers[c].pc = "marking")
      BY <1>7 DEF MarksMemory, MarkRecorded, MarkMemoryFailed, At
    <2>3. memory = "RECORDED" => memories[a] # {}
      BY <2>2 DEF RememberInv
    <2>4. MemoryIsTrue' /\ Lasting
      BY <1>3, <2>1, <2>2, <2>3, MarkedMemory DEF MarkMemory
    <2>. QED
      BY <1>0, <2>2, <2>4, ReturnRemembers DEF MarkMemory
  <1>. QED
    BY <1>1, <1>4, <1>5, <1>6, <1>7

LEMMA MemoryKept ==
    TypeInv /\ MemoryIsTrue /\ RememberInv /\ [Next]_vars => MemoryIsTrue' /\ RememberInv'
  <1> SUFFICES ASSUME TypeInv, MemoryIsTrue, RememberInv, [Next]_vars
               PROVE  MemoryIsTrue' /\ RememberInv'
    OBVIOUS
  <1>1. CASE ScopeStep \/ (\E a \in Action : DeadlinePasses(a)) \/ UNCHANGED vars
    <2>1. UNCHANGED <<rows, callers>>
      BY <1>1 DEF ScopeStep, WorkflowMoves, CampaignMovesOn, CampaignUpdated, DeadlinePasses, vars
    <2>. QED
      BY <2>1, RowsKeptMemory DEF rows, RememberInv, Terminal
  <1>2. ASSUME NEW c \in Caller, Unconcerned(c) PROVE MemoryIsTrue' /\ RememberInv'
    <2>1. CallersOK /\ UNCHANGED <<executions, memories>> /\ GoesOn(c)
      BY <1>2, UnconcernedGoesOn DEF TypeInv
    <2>. QED
      BY <2>1, RowsKeptMemory, GoesOnRemembers
  <1>3. ASSUME NEW c \in Caller, CallStep(c) PROVE MemoryIsTrue' /\ RememberInv'
    BY <1>2, <1>3, ReservedMemory, SettledMemory, RememberedMemory, Zenon
       DEF CallStep, Unconcerned, Finalizes, MarksMemory
  <1>. QED
    BY <1>1, <1>3 DEF Next

LEMMA MemoryInit == Init => MemoryIsTrue /\ RememberInv
  <1>1. Init => \A a \in Action : executions[a] = NoExecution /\ memories[a] = {}
    BY DEF Init
  <1>2. NoExecution.status = "ABSENT" /\ NoExecution.memory = "NOT_REQUIRED"
    BY DEF NoExecution
  <1>3. Init => \A c \in Caller : callers[c].pc = "idle"
    BY DEF Init, Idle
  <1>4. "idle" \notin Remembering /\ "idle" # "marking"
    BY DEF Remembering
  <1>. QED
    BY <1>1, <1>2, <1>3, <1>4 DEF MemoryIsTrue, RememberInv, Terminal

(* However calls and reconciliations that write the memory of an execution     *)
(* overlap, fail and repeat, it holds no event but the true one, and holds it  *)
(* when it is marked as recorded.                                            *)
LEMMA MemoryTrue == Spec => []MemoryIsTrue
  <1>1. Spec => [](MemoryIsTrue /\ RememberInv)
    BY InitTyped, NextTyped, MemoryInit, MemoryKept, PTL DEF Spec
  <1>. QED
    BY <1>1, PTL

(* Requests, executions and the memory of an action tell one story, the true   *)
(* one, for any number of overlapping calls and reconciliations.               *)
THEOREM RecordsTrue == Spec => []RecordsAreTrue
  <1>1. OutcomeIsTrue /\ MemoryIsTrue => RecordsAreTrue
    BY DEF RecordsAreTrue
  <1>. QED
    BY <1>1, OutcomeTrue, MemoryTrue, PTL

-----------------------------------------------------------------------------
(* What humans decided, and what an executor may still hold of it.           *)

Approval(row) ==
    row.policy = "APPROVAL_REQUIRED"
    => /\ row.deadline = 1
       /\ row.status \notin {"ABSENT", "PROPOSED"}
       /\ row.status = "PENDING_APPROVAL" => row.approved = 0 /\ ~row.rejected
       /\ row.status = "APPROVED" => row.approved > 0
       /\ ~(row.approved > 0 /\ row.rejected)
       /\ row.approved > 0 => row.approved >= row.role

ApprovalInv == \A a \in Action : Approval(requests[a])

(* The held status may be out of date, but an approval is not taken back.     *)
HeldInv ==
    \A c \in Caller :
        callers[c].pc = "locking"
        => /\ requests[callers[c].action].status # "ABSENT"
           /\ requests[callers[c].action].policy = "APPROVAL_REQUIRED"
              => /\ callers[c].held.status # "PROPOSED"
                 /\ callers[c].held.deadline = 1
                 /\ callers[c].held.status = "APPROVED" => requests[callers[c].action].approved > 0

(* How a row may follow another.                                             *)
Follows(row, next) ==
    row.status # "ABSENT"
    => /\ next.status # "ABSENT"
       /\ next.policy = row.policy
       /\ row.approved > 0 => next.approved > 0

ApprovalStep ==
    \A a \in Action : Approval(requests'[a]) /\ Follows(requests[a], requests'[a])

LEMMA SameApproval ==
    ASSUME ApprovalInv, UNCHANGED requests
    PROVE  ApprovalStep
  BY DEF ApprovalInv, ApprovalStep, Follows

LEMMA RowApproval ==
    ASSUME RequestsOK, ApprovalInv, NEW a \in Action, NEW row,
           requests' = [requests EXCEPT ![a] = row],
           Approval(row), Follows(requests[a], row)
    PROVE  ApprovalStep
  BY DEF RequestsOK, ApprovalInv, ApprovalStep, Follows

(* A row that goes on to a status without a decision.                        *)
LEMMA StatusApproval ==
    ASSUME RequestsOK, ApprovalInv, NEW a \in Action,
           NEW status \in {"REJECTED", "EXPIRED", "EXECUTING", "COMPLETED", "FAILED"}, NEW version,
           requests' = [requests EXCEPT ![a].status = status, ![a].version = version]
    PROVE  ApprovalStep
  <1> DEFINE row == [requests[a] EXCEPT !.status = status, !.version = version]
  <1>1. /\ row.status = status /\ row.policy = requests[a].policy /\ row.role = requests[a].role
        /\ row.approved = requests[a].approved /\ row.rejected = requests[a].rejected
        /\ row.deadline = requests[a].deadline
    BY DEF RequestsOK, RequestRow
  <1>2. requests' = [requests EXCEPT ![a] = row]
    BY DEF RequestsOK
  <1> HIDE DEF row
  <1>3. Approval(row) /\ Follows(requests[a], row)
    BY <1>1 DEF ApprovalInv, Approval, Follows
  <1>. QED
    BY <1>2, <1>3, RowApproval

LEMMA ProposalApproval ==
    ASSUME TypeInv, ApprovalInv, NEW c \in Caller, CreateProposal(c)
    PROVE  ApprovalStep
  <1> DEFINE a == callers[c].action
             held == callers[c].held
  <1>1. At(c, "proposing") /\ ~At(c, "idle") /\ CallersOK /\ RequestsOK
    BY DEF CreateProposal, At, TypeInv
  <1>2. a \in Action
    BY <1>1, Working
  <1>3. CASE UNCHANGED requests
    BY <1>3, SameApproval
  <1>4. CASE requests[a].status = "ABSENT" /\ requests' = [requests EXCEPT ![a] = held]
    <2>1. PICK rule \in Rule : held = Proposal(rule)
      BY <1>1 DEF CallersOK, NewProposal
    <2>2. Approval(Proposal(rule))
      BY ProposalTyped DEF Approval
    <2>3. Follows(requests[a], held)
      BY <1>4 DEF Follows
    <2>. QED
      BY <1>1, <1>2, <1>4, <2>1, <2>2, <2>3, RowApproval
  <1>. QED
    BY <1>3, <1>4 DEF CreateProposal

LEMMA ApproveApproval ==
    ASSUME TypeInv, ApprovalInv, NEW c \in Caller, Approve(c)
    PROVE  ApprovalStep
  <1> DEFINE a == callers[c].action
  <1>1. ~At(c, "idle") /\ CallersOK /\ RequestsOK
    BY DEF Approve, At, TypeInv
  <1>2. a \in Action
    BY <1>1, Working
  <1>3. ASSUME NEW role \in HumanRole, role >= MinimumRole(a), Unchanged(c, {"PENDING_APPROVAL"}),
               requests' = [requests EXCEPT ![a].status = "APPROVED", ![a].approved = role,
                                            ![a].version = @ + 1]
        PROVE  ApprovalStep
    <2> DEFINE version == requests[a].version + 1
               row == [requests[a] EXCEPT !.status = "APPROVED", !.approved = role, !.version = version]
    <2>1. /\ row.status = "APPROVED" /\ row.policy = requests[a].policy /\ row.role = requests[a].role
          /\ row.approved = role /\ row.rejected = requests[a].rejected
          /\ row.deadline = requests[a].deadline
      BY <1>1, <1>2 DEF RequestsOK, RequestRow
    <2>2. requests' = [requests EXCEPT ![a] = row]
      BY <1>1, <1>2, <1>3 DEF RequestsOK
    <2>3. role \in 1..3 /\ requests[a].role \in 0..3
      BY <1>1, <1>2, ActionAssumption DEF Level, RequestsOK, RequestRow
    <2>4. role > 0 /\ role >= requests[a].role
      BY <1>3, <2>3 DEF MinimumRole, RoleLevel
    <2>5. requests[a].status = "PENDING_APPROVAL"
      BY <1>3 DEF Unchanged
    <2> HIDE DEF row
    <2>6. Approval(row) /\ Follows(requests[a], row)
      BY <1>2, <2>1, <2>4, <2>5 DEF ApprovalInv, Approval, Follows
    <2>. QED
      BY <1>1, <1>2, <2>2, <2>6, RowApproval
  <1>. QED
    BY <1>3, SameApproval DEF Approve

LEMMA RejectApproval ==
    ASSUME TypeInv, ApprovalInv, NEW c \in Caller, Reject(c)
    PROVE  ApprovalStep
  <1> DEFINE a == callers[c].action
  <1>1. ~At(c, "idle") /\ CallersOK /\ RequestsOK
    BY DEF Reject, At, TypeInv
  <1>2. a \in Action
    BY <1>1, Working
  <1>3. ASSUME Unchanged(c, {"PROPOSED", "PENDING_APPROVAL"}),
               requests' = [requests EXCEPT ![a].status = "REJECTED", ![a].rejected = TRUE,
                                            ![a].version = @ + 1]
        PROVE  ApprovalStep
    <2> DEFINE version == requests[a].version + 1
               row == [requests[a] EXCEPT !.status = "REJECTED", !.rejected = TRUE, !.version = version]
    <2>1. /\ row.status = "REJECTED" /\ row.policy = requests[a].policy /\ row.role = requests[a].role
          /\ row.approved = requests[a].approved /\ row.deadline = requests[a].deadline
      BY <1>1, <1>2 DEF RequestsOK, RequestRow
    <2>2. requests' = [requests EXCEPT ![a] = row]
      BY <1>1, <1>2, <1>3 DEF RequestsOK
    <2>3. requests[a].status \in {"PROPOSED", "PENDING_APPROVAL"}
      BY <1>3 DEF Unchanged
    <2> HIDE DEF row
    <2>4. requests[a].policy = "APPROVAL_REQUIRED" => requests[a].approved = 0
      BY <1>2, <2>3 DEF ApprovalInv, Approval
    <2>5. Approval(row) /\ Follows(requests[a], row)
      BY <1>2, <2>1, <2>4 DEF ApprovalInv, Approval, Follows
    <2>. QED
      BY <1>1, <1>2, <2>2, <2>5, RowApproval
  <1>. QED
    BY <1>3, SameApproval DEF Reject

(* An executor asks for approval only of a request proposed without.          *)
LEMMA AskApprovalApproval ==
    ASSUME TypeInv, ApprovalInv, HeldInv, NEW c \in Caller, AskApproval(c)
    PROVE  ApprovalStep
  <1> DEFINE a == callers[c].action
             version == callers[c].held.version + 1
             deadline == requests[a].deadline + 1
             row == [requests[a] EXCEPT !.status = "PENDING_APPROVAL", !.version = version,
                                        !.deadline = deadline]
  <1>1. At(c, "locking") /\ ~At(c, "idle") /\ CallersOK /\ RequestsOK
    BY DEF AskApproval, At, TypeInv
  <1>2. a \in Action
    BY <1>1, Working
  <1>3. requests[a].policy # "APPROVAL_REQUIRED"
    BY <1>1 DEF AskApproval, MustAsk, HeldInv, At
  <1>4. /\ row.status = "PENDING_APPROVAL" /\ row.policy = requests[a].policy
        /\ row.approved = requests[a].approved
    BY <1>1, <1>2 DEF RequestsOK, RequestRow
  <1>5. requests' = [requests EXCEPT ![a] = row]
    BY <1>1, <1>2 DEF RequestsOK, AskApproval
  <1> HIDE DEF row
  <1>6. Approval(row) /\ Follows(requests[a], row)
    BY <1>3, <1>4 DEF Approval, Follows
  <1>. QED
    BY <1>1, <1>2, <1>5, <1>6, RowApproval

(* Refusals, expirations, reservations and outcomes decide nothing.           *)
LEMMA OverwriteApproval ==
    ASSUME TypeInv, ApprovalInv, NEW c \in Caller, Deny(c) \/ Reserve(c)
    PROVE  ApprovalStep
  <1>1. ~At(c, "idle") /\ CallersOK /\ RequestsOK
    BY DEF Deny, Reserve, At, TypeInv
  <1>2. PICK status \in {"REJECTED", "EXECUTING"} : Overwrite(c, status)
    BY DEF Deny, Reserve
  <1>. QED
    BY <1>1, <1>2, Working, StatusApproval DEF Overwrite

LEMMA ExpiredApproval ==
    ASSUME TypeInv, ApprovalInv, NEW c \in Caller, Expire(c) \/ FindExpired(c)
    PROVE  ApprovalStep
  <1> DEFINE a == callers[c].action
             version == requests[a].version + 1
  <1>1. ~At(c, "idle") /\ CallersOK /\ RequestsOK /\ Expired(c)
    BY DEF Expire, FindExpired, At, TypeInv
  <1>2. a \in Action
    BY <1>1, Working
  <1>3. CASE UNCHANGED requests
    BY <1>3, SameApproval
  <1>4. CASE requests' = [requests EXCEPT ![a].status = "EXPIRED", ![a].version = @ + 1]
    <2>1. PICK status \in {"EXPIRED"} :
             requests' = [requests EXCEPT ![a].status = status, ![a].version = version]
      BY <1>1, <1>2, <1>4 DEF RequestsOK, RequestRow
    <2> HIDE DEF version
    <2>. QED
      BY <1>1, <1>2, <2>1, StatusApproval
  <1>. QED
    BY <1>1, <1>3, <1>4 DEF Expired

LEMMA OutcomeApproval ==
    ASSUME TypeInv, ApprovalInv, NEW c \in Caller, Finalizes(c)
    PROVE  ApprovalStep
  <1>1. PICK o \in Outcome : SettlesAs(c, o)
    BY FinalizeSettles
  <1>2. ~At(c, "idle") /\ CallersOK /\ RequestsOK
    BY FinalizeSettles DEF At, TypeInv
  <1>3. callers[c].action \in Action /\ o[2] \in {"COMPLETED", "FAILED"}
    BY <1>2, Working DEF Outcome
  <1>. QED
    BY <1>1, <1>2, <1>3, StatusApproval DEF SettlesAs, Settle

(* What the calls hold.                                                      *)
LEMMA CallHolds ==
    ASSUME TypeInv, HeldInv, ApprovalStep, NEW c \in Caller, NEW call,
           callers' = [callers EXCEPT ![c] = call],
           call.pc = "locking"
           => /\ requests'[call.action].status # "ABSENT"
              /\ requests'[call.action].policy = "APPROVAL_REQUIRED"
                 => /\ call.held.status # "PROPOSED"
                    /\ call.held.deadline = 1
                    /\ call.held.status = "APPROVED" => requests'[call.action].approved > 0
    PROVE  HeldInv'
  <1>1. ASSUME NEW d \in Caller \ {c}, callers[d].pc = "locking"
        PROVE  /\ requests'[callers[d].action].status # "ABSENT"
               /\ requests'[callers[d].action].policy = "APPROVAL_REQUIRED"
                  => /\ callers[d].held.status # "PROPOSED"
                     /\ callers[d].held.deadline = 1
                     /\ callers[d].held.status = "APPROVED" => requests'[callers[d].action].approved > 0
    <2>1. callers[d].action \in Action
      BY <1>1, Working DEF At, TypeInv
    <2>2. Follows(requests[callers[d].action], requests'[callers[d].action])
      BY <2>1 DEF ApprovalStep
    <2>. QED
      BY <1>1, <2>2 DEF HeldInv, Follows
  <1>2. callers'[c] = call /\ \A d \in Caller \ {c} : callers'[d] = callers[d]
    BY DEF TypeInv, CallersOK
  <1>. QED
    BY <1>1, <1>2 DEF HeldInv

LEMMA BeginExecuteHolds ==
    ASSUME TypeInv, ApprovalInv, HeldInv, NEW c \in Caller, NEW a \in Action, BeginExecute(c, a)
    PROVE  ApprovalStep /\ HeldInv'
  <1> DEFINE call == [pc |-> "locking", action |-> a, held |-> requests[a]]
  <1>1. ApprovalStep /\ UNCHANGED requests
    BY SameApproval DEF BeginExecute, rows
  <1>2. callers' = [callers EXCEPT ![c] = call] /\ call.action = a /\ call.held = requests[a]
    BY DEF BeginExecute, Calls
  <1>3. requests[a].status # "ABSENT"
    BY DEF BeginExecute
  <1> HIDE DEF call
  <1>4. HeldInv'
    BY <1>1, <1>2, <1>3, CallHolds DEF ApprovalInv, Approval
  <1>. QED
    BY <1>1, <1>4

LEMMA CreateProposalHolds ==
    ASSUME TypeInv, ApprovalInv, HeldInv, NEW c \in Caller, CreateProposal(c)
    PROVE  ApprovalStep /\ HeldInv'
  <1> DEFINE a == callers[c].action
             held == callers[c].held
  <1>1. At(c, "proposing") /\ ~At(c, "idle") /\ CallersOK /\ RequestsOK /\ ApprovalStep
    BY ProposalApproval DEF CreateProposal, At, TypeInv
  <1>2. a \in Action /\ held \in RequestRow
    BY <1>1, Working
  <1>3. CASE Return(c)
    <2>1. callers' = [callers EXCEPT ![c] = Idle] /\ Idle.pc # "locking"
      BY <1>3 DEF Return, Idle
    <2>. QED
      BY <1>1, <2>1, CallHolds
  <1>4. CASE /\ requests' = [requests EXCEPT ![a] = held]
             /\ held.status = "PROPOSED"
             /\ Keep(c, "locking")
    <2> DEFINE call == [callers[c] EXCEPT !.pc = "locking"]
    <2>1. callers' = [callers EXCEPT ![c] = call] /\ call.action = a /\ call.held = held
      BY <1>1, <1>4 DEF Keep, CallersOK, Call
    <2>2. requests'[a] = held
      BY <1>1, <1>2, <1>4 DEF RequestsOK
    <2>3. held.policy # "APPROVAL_REQUIRED"
      <3>1. PICK rule \in Rule : held = Proposal(rule)
        BY <1>1 DEF CallersOK, NewProposal
      <3>2. Proposal(rule).policy = rule.decision
            /\ (Proposal(rule).status = "PROPOSED" <=> rule.decision = "SAFE")
        BY ProposalTyped
      <3>. QED
        BY <1>4, <3>1, <3>2
    <2> HIDE DEF call
    <2>4. HeldInv'
      BY <1>1, <1>4, <2>1, <2>2, <2>3, CallHolds
    <2>. QED
      BY <1>1, <2>4
  <1>. QED
    BY <1>1, <1>3, <1>4 DEF CreateProposal

(* No other step brings a call to the reservation.                           *)
Leaves(c) ==
    \/ Return(c)
    \/ \E pc \in Pc \ {"locking"} :
          Keep(c, pc) \/ Goto(c, pc) \/ \E a, held : Calls(c, pc, a, held)

LEMMA LeavesHolds ==
    ASSUME TypeInv, HeldInv, ApprovalStep, NEW c \in Caller, Leaves(c)
    PROVE  HeldInv'
  <1>1. ASSUME NEW call, callers' = [callers EXCEPT ![c] = call], call.pc # "locking"
        PROVE  HeldInv'
    BY <1>1, CallHolds
  <1>2. CASE Return(c)
    <2>1. callers' = [callers EXCEPT ![c] = Idle] /\ Idle.pc # "locking"
      BY <1>2 DEF Return, Idle
    <2>. QED
      BY <1>1, <2>1
  <1>3. ASSUME NEW pc \in Pc \ {"locking"}, Keep(c, pc) PROVE HeldInv'
    <2> DEFINE call == [callers[c] EXCEPT !.pc = pc]
    <2>1. callers' = [callers EXCEPT ![c] = call] /\ call.pc = pc
      BY <1>3 DEF Keep, TypeInv, CallersOK, Call
    <2> HIDE DEF call
    <2>. QED
      BY <1>1, <2>1
  <1>4. ASSUME NEW pc \in Pc \ {"locking"}, NEW a, NEW held, Calls(c, pc, a, held) PROVE HeldInv'
    <2> DEFINE call == [pc |-> pc, action |-> a, held |-> held]
    <2>1. callers' = [callers EXCEPT ![c] = call] /\ call.pc = pc
      BY <1>4 DEF Calls
    <2> HIDE DEF call
    <2>. QED
      BY <1>1, <2>1
  <1>5. ASSUME NEW pc \in Pc \ {"locking"}, Goto(c, pc) PROVE HeldInv'
    BY <1>4, <1>5 DEF Goto
  <1>. QED
    BY <1>2, <1>3, <1>4, <1>5 DEF Leaves

LEMMA BystandersHold ==
    ASSUME TypeInv, ApprovalInv, HeldInv, NEW c \in Caller,
           \/ \E a \in Action : Propose(c, a) \/ BeginDecision(c, a) \/ BeginReconcile(c, a)
           \/ Refuse(c) \/ Handle(c) \/ HandlerStops(c) \/ SuccessNotStored(c) \/ Dies(c)
           \/ StartMemory(c) \/ RecordEvent(c) \/ MarksMemory(c) \/ MemoryFails(c)
    PROVE  ApprovalStep /\ HeldInv'
  <1>. SUFFICES UNCHANGED requests /\ Leaves(c)
    BY SameApproval, LeavesHolds
  <1>0. \A pc \in {"proposing", "approving", "rejecting", "expiring", "succeeding", "failing", "cancelling",
                   "remembering", "recording", "marking", "giving_up"} : pc \in Pc \ {"locking"}
    BY DEF Pc
  <1>1. ASSUME NEW a \in Action, Propose(c, a) \/ BeginDecision(c, a) \/ BeginReconcile(c, a)
        PROVE  UNCHANGED requests /\ Leaves(c)
    <2>1. PICK pc \in {"proposing", "approving", "rejecting", "expiring", "remembering"} :
             \E held : Calls(c, pc, a, held)
      BY <1>1 DEF Propose, BeginDecision, BeginReconcile
    <2>. QED
      BY <1>0, <1>1, <2>1 DEF Propose, BeginDecision, BeginReconcile, rows, Leaves
  <1>2. CASE Refuse(c) \/ Dies(c)
    BY <1>2 DEF Refuse, Dies, rows, Leaves
  <1>3. CASE Handle(c) \/ HandlerStops(c) \/ SuccessNotStored(c)
    BY <1>0, <1>3 DEF Handle, HandlerStops, SuccessNotStored, rows, Leaves
  <1>4. CASE StartMemory(c) \/ RecordEvent(c) \/ MarksMemory(c) \/ MemoryFails(c)
    BY <1>0, <1>4 DEF StartMemory, RecordEvent, MarksMemory, MarkRecorded, MarkMemoryFailed,
                     MarkMemory, MemoryFails, rows, Leaves
  <1>. QED
    BY <1>1, <1>2, <1>3, <1>4

LEMMA WritersHold ==
    ASSUME TypeInv, ApprovalInv, HeldInv, NEW c \in Caller,
           \/ Approve(c) \/ Reject(c) \/ Expire(c)
           \/ Deny(c) \/ FindExpired(c) \/ AskApproval(c) \/ Reserve(c) \/ Finalizes(c)
    PROVE  ApprovalStep /\ HeldInv'
  <1>0. \A pc \in {"handling", "recording"} : pc \in Pc \ {"locking"}
    BY DEF Pc
  <1>1. ApprovalStep
    BY ApproveApproval, RejectApproval, AskApprovalApproval, OverwriteApproval, ExpiredApproval,
       OutcomeApproval, Zenon
  <1>. SUFFICES Leaves(c)
    BY <1>1, LeavesHolds
  <1>2. CASE Approve(c) \/ Reject(c) \/ Expire(c) \/ Deny(c) \/ FindExpired(c) \/ AskApproval(c)
    BY <1>2 DEF Approve, Reject, Expire, Deny, FindExpired, AskApproval, Leaves
  <1>3. CASE Reserve(c)
    <2>1. PICK pc \in {"handling"} : \E a, held : Calls(c, pc, a, held)
      BY <1>3 DEF Reserve
    <2>. QED
      BY <1>0, <2>1 DEF Leaves
  <1>4. CASE Finalizes(c)
    <2>1. PICK pc \in {"recording"} : Goto(c, pc)
      BY <1>4, FinalizeSettles DEF SettlesAs, Settle
    <2>. QED
      BY <1>0, <2>1 DEF Leaves
  <1>. QED
    BY <1>2, <1>3, <1>4

LEMMA ApprovalKept ==
    ASSUME TypeInv, ApprovalInv, HeldInv, [Next]_vars
    PROVE  ApprovalStep /\ HeldInv'
  <1>1. CASE ScopeStep \/ (\E a \in Action : DeadlinePasses(a)) \/ UNCHANGED vars
    <2>1. UNCHANGED <<requests, callers>>
      BY <1>1 DEF ScopeStep, WorkflowMoves, CampaignMovesOn, CampaignUpdated, DeadlinePasses,
                  rows, vars
    <2>. QED
      BY <2>1, SameApproval DEF HeldInv
  <1>2. ASSUME NEW c \in Caller, CallStep(c) PROVE ApprovalStep /\ HeldInv'
    BY <1>2, BeginExecuteHolds, CreateProposalHolds, BystandersHold, WritersHold, Zenon
       DEF CallStep, Finalizes, MarksMemory
  <1>. QED
    BY <1>1, <1>2 DEF Next

LEMMA ApprovalInit == Init => ApprovalInv /\ HeldInv
  <1>1. Init => (\A a \in Action : requests[a] = NoRequest) /\ \A c \in Caller : callers[c].pc = "idle"
    BY DEF Init, Idle
  <1>2. NoRequest.policy # "APPROVAL_REQUIRED"
    BY DEF NoRequest
  <1>. QED
    BY <1>1, <1>2 DEF ApprovalInv, Approval, HeldInv

LEMMA Approvals == Spec => [](TypeInv /\ ApprovalInv /\ HeldInv)
  <1>1. TypeInv /\ ApprovalInv /\ HeldInv /\ [Next]_vars => ApprovalInv' /\ HeldInv'
    BY ApprovalKept DEF ApprovalStep, ApprovalInv
  <1>. QED
    BY <1>1, InitTyped, NextTyped, ApprovalInit, PTL DEF Spec

(* Only one human is heard: of approval, rejection and expiration that are     *)
(* decided at the same time, the version read by each lets one of them in.    *)
THEOREM OneDecisionHolds == Spec => []OneDecision
  <1>1. ApprovalInv => OneDecision
    BY DEF ApprovalInv, Approval, OneDecision
  <1>. QED
    BY <1>1, Approvals, PTL

LEMMA StartApproved ==
    ASSUME TypeInv, ApprovalInv, HeldInv, [Next]_vars, NEW a \in Action,
           executions[a].status = "ABSENT", executions'[a].status = "RUNNING",
           requests[a].policy = "APPROVAL_REQUIRED"
    PROVE  /\ requests[a].approved > 0
           /\ requests[a].approved >= requests[a].role
           /\ ~requests[a].rejected
           /\ elapsed[a] < requests[a].deadline
  <1>1. PICK c \in Caller : Reserve(c)
    <2>1. ~QuietStep
      BY DEF QuietStep, ExecutionsQuiet
    <2>2. \A c \in Caller : Handle(c) => FALSE
      BY DEF Handle, rows
    <2>3. \A c \in Caller : Finalizes(c) => FALSE
      BY FinalizationSettles DEF Settles
    <2>. QED
      BY <2>1, <2>2, <2>3, MostStepsQuiet
  <1>2. callers[c].action = a
    <2>1. PICK b \in Action : Reserves(c, b)
      BY <1>1, ReserveReserves
    <2>. QED
      BY <2>1 DEF Reserves
  <1>3. PICK rule \in FreshPolicy(a) : MayRun(a, callers[c].held, rule)
    BY <1>1, <1>2 DEF Reserve
  <1>4. callers[c].held.status \in {"PROPOSED", "APPROVED"} /\ ~Late(a, callers[c].held)
    BY <1>3 DEF MayRun, Admitted, Executable
  <1>5. requests[a].approved > 0 /\ callers[c].held.deadline = 1
    BY <1>1, <1>2, <1>4 DEF Reserve, HeldInv, At
  <1>6. elapsed[a] \in Nat /\ requests[a].deadline = 1
    BY DEF TypeInv, ApprovalInv, Approval
  <1>7. elapsed[a] < 1
    BY <1>4, <1>5, <1>6 DEF Late
  <1>. QED
    BY <1>5, <1>6, <1>7 DEF ApprovalInv, Approval

(* An action proposed for approval starts only with the approval of a human   *)
(* and in time, whatever older status of it the executor still holds.         *)
THEOREM RunsApproved == Spec => RunsOnlyApproved
  <1>1. TypeInv /\ ApprovalInv /\ HeldInv /\ [Next]_vars
        => [\A a \in Action :
               /\ executions[a].status = "ABSENT"
               /\ executions'[a].status = "RUNNING"
               /\ requests[a].policy = "APPROVAL_REQUIRED"
               => /\ requests[a].approved > 0
                  /\ requests[a].approved >= requests[a].role
                  /\ ~requests[a].rejected
                  /\ elapsed[a] < requests[a].deadline]_vars
    BY StartApproved
  <1>. QED
    BY <1>1, Approvals, PTL DEF Spec, RunsOnlyApproved
=============================================================================
