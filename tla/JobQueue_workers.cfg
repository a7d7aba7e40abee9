\* One job passed between two workers, beside a row of unknown type.
CONSTANTS
    Job = {j1, j2}
    UnknownTypeJob = {j2}
    MediaJob = {}
    Worker = {w1, w2}
    NoWorker = NoWorker
    MaxAttempts = 2
    BatchSize = 1
    AttemptLimit = 3
SPECIFICATION Spec
SYMMETRY Symmetry
INVARIANTS
    RowsAudited
    CurrentAttemptOwned
PROPERTIES
    AttemptsKeepTheirWorker
    ImplementsLifecycle
    
