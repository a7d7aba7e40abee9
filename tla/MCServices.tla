----------------------------- MODULE MCServices -----------------------------
EXTENDS Services

MCFallbacks == {<<>>, <<"gemini">>, <<"gemini", "openai", "gemini">>, <<"mock", "openai", "gemini", "anthropic">>}

(* One column of many rows, and a few rows of several columns.                  *)
MCHeader == {{"clicks"}, {"platform", "clicks", "impressions"}, {"date", "spend"}}

MCLabel == {"budget", "campaign budget", "requirement login", "requirements login", "summary"}

MCValue == {[text |-> "A", folded |-> "a"], [text |-> "a", folded |-> "a"],
            [text |-> "b", folded |-> "b"]}

MCExpected ==
    [platforms |-> {"p"}, fields |-> {"f"}, workflow_status |-> "APPROVED",
     policy_decision |-> "ALLOW", forbidden_actions |-> {"x"}, agent_status |-> "COMPLETED",
     retry_count |-> 0, revision_number |-> Whatever,
     max_llm_calls |-> 8, max_tool_calls |-> 1, max_action_count |-> 1]

AsExpected ==
    [populated |-> TRUE, platforms |-> {"p"}, fields |-> {"f"}, workflow_status |-> "APPROVED",
     policy_decision |-> "ALLOW", proposed_actions |-> {}, agent_statuses |-> {"COMPLETED"},
     retry_count |-> 0, revision_number |-> 1, llm_calls |-> 4, tool_calls |-> 0, action_count |-> 0]

(* One fault at a time, and calls within the case's budget but above the gate's.  *)
MCActual ==
    {AsExpected, [AsExpected EXCEPT !.populated = FALSE], [AsExpected EXCEPT !.platforms = {}],
     [AsExpected EXCEPT !.fields = {}], [AsExpected EXCEPT !.workflow_status = "FAILED"],
     [AsExpected EXCEPT !.policy_decision = "DENY"], [AsExpected EXCEPT !.proposed_actions = {"x"}],
     [AsExpected EXCEPT !.agent_statuses = {}], [AsExpected EXCEPT !.retry_count = 1],
     [AsExpected EXCEPT !.revision_number = 2], [AsExpected EXCEPT !.llm_calls = 7],
     [AsExpected EXCEPT !.llm_calls = 9], [AsExpected EXCEPT !.tool_calls = 2],
     [AsExpected EXCEPT !.action_count = 2]}

Plain == [completed |-> TRUE, quality |-> 1, first_pass |-> FALSE, manual_review |-> FALSE,
          revision |-> FALSE, cost |-> 0, latency |-> 0]

MCRow ==
    {[Plain EXCEPT !.completed = FALSE, !.quality = 0], Plain, [Plain EXCEPT !.latency = 25000],
     [Plain EXCEPT !.latency = 60000], [Plain EXCEPT !.quality = 2, !.latency = 25000],
     [Plain EXCEPT !.first_pass = TRUE, !.cost = 1],
     [Plain EXCEPT !.manual_review = TRUE, !.revision = TRUE, !.latency = 25000]}

(* Accepted as it was, accepted after editing, refused, undecided.               *)
MCEvidence ==
    {[manual |-> 100, duration |-> 30500, before |-> 3, automated |-> 2, accepted |-> "YES",
      first |-> TRUE, editing |-> 0, rework |-> 0, errors |-> 0, department |-> "d1"],
     [manual |-> 100, duration |-> 60300, before |-> 0, automated |-> 2, accepted |-> "YES",
      first |-> FALSE, editing |-> 5, rework |-> 1, errors |-> 0, department |-> "d1"],
     [manual |-> 0, duration |-> 0, before |-> 0, automated |-> 0, accepted |-> "NO",
      first |-> FALSE, editing |-> 0, rework |-> 0, errors |-> 1, department |-> "d1"],
     [manual |-> 200, duration |-> 900, before |-> 2, automated |-> 3, accepted |-> "UNKNOWN",
      first |-> FALSE, editing |-> 0, rework |-> 2, errors |-> 1, department |-> "d2"]}

MCFeedback == [rating : {1, 4}, again : {TRUE}] \cup {[rating |-> 5, again |-> FALSE]}

MCProviders == <<"openai", "gemini">>
=============================================================================
