\* One action under two concurrent callers and three releases of the registry.
CONSTANTS
    Action = {"mark_for_manual_review"}
    Caller = {c1, c2}
    NoAction = NoAction
    Release <- AllReleases
    HumanRole = {1, 3}
    MaxVersion = 2
    MaxDeadline = 2
SPECIFICATION Spec
SYMMETRY Symmetry
INVARIANTS
    OneSideEffect
    OneDecision
    RecordsAreTrue
PROPERTIES
    EffectsAreAllowed
    RunsOnlyApproved
