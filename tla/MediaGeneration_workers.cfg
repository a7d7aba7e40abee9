\* An asset passed between two workers, reviewed, cancelled and retried.
CONSTANTS
    Job = {j1}
    UnknownTypeJob = {}
    MediaJob = {j1}
    Worker = {w1, w2}
    NoWorker = NoWorker
    MaxAttempts = 2
    BatchSize = 1
    AttemptLimit = 2
SPECIFICATION MediaSpec
SYMMETRY Symmetry
INVARIANTS
    
    OutputIsRecorded
    MediaAttemptsAudit
PROPERTIES
    StaleCannotSucceed
