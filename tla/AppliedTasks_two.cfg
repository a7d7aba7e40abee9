\* One task under two workers and the operator's retries.
\* A DEAD_LETTER at the bound on attempts is left alone for ever.
CONSTANTS
    Job = {j1}
    UnknownTypeJob = {}
    MediaJob = {}
    RequestLimit = 2
    Worker = {w1, w2}
    NoWorker = NoWorker
    MaxAttempts = 1
    BatchSize = 1
    AttemptLimit = 2
SPECIFICATION AppliedSpec
INVARIANTS
    CompletionIsAnnounced
SYMMETRY Symmetry
CHECK_DEADLOCK FALSE
