\* Progress of one job under two workers that may crash.
CONSTANTS
    Job = {j1}
    UnknownTypeJob = {}
    MediaJob = {j1}
    Worker = {w1, w2}
    NoWorker = NoWorker
    MaxAttempts = 2
    BatchSize = 1
    AttemptLimit = 2
SPECIFICATION FairSpec
PROPERTIES
    JobsSettle
