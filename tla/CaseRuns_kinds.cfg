\* One run of each kind under two workers and its operators.
\* A DEAD_LETTER at the bound on attempts is left alone for ever.
CONSTANTS
    Job = {j1}
    UnknownTypeJob = {}
    MediaJob = {}
    Worker = {w1, w2}
    NoWorker = NoWorker
    MaxAttempts = 1
    BatchSize = 1
    AttemptLimit = 2
    Slots = 2
    RequestLimit = 2
SPECIFICATION CaseSpec
INVARIANTS
    ResultsAreComplete
    EvaluationRunsAlone
SYMMETRY Symmetry
CHECK_DEADLOCK FALSE
