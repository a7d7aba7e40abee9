\* Two coroutines on one workflow, two specialists.
\* Rows left active by a coroutine that died keep the others out for ever.
CONSTANTS
    Runner = {r1, r2}
    Agent = {a1, a2}
    MaxIterations = 2
    MaxLLMCalls = 2
    MaxToolCalls = 2
    MaxProposals = 1
    MaxWorkflowCalls = 3
    RunLimit = 2
SPECIFICATION AgentSpec
INVARIANTS
    RunsAudited
    BudgetsHold
PROPERTIES
    EndedRunsStand
SYMMETRY Symmetry
CHECK_DEADLOCK FALSE
