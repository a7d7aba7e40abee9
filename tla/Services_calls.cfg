\* A call ends; the alerts' life goes on.
SPECIFICATION ServicesSpec

CONSTANTS
    Provider = {"mock", "openai", "gemini", "anthropic"}
    SdkProvider = {"openai"}
    Fallbacks <- MCFallbacks
    MaxCost = 1
    MaxAttempts = 3
    BaseDelay = 2
    MaxDelay = 3
    Header <- MCHeader
    Number = {0, 1, 7}
    Name = {web, app}
    Missing = Missing
    NotANumber = NotANumber
    Unknown = unknown
    MaxCsvRows = 6
    CellLimit = 9
    Label <- MCLabel
    Value <- MCValue
    MaxSignals = 1
    MaxLines = 3
    Actual <- MCActual
    Expected <- MCExpected
    Whatever = Whatever
    Row <- MCRow
    Evidence <- MCEvidence
    Feedback <- MCFeedback
    Providers <- MCProviders
    MaxCases = 3
    Condition = {c1, c2}
    Reconciler = {r1, r2}
    Operator = {o1}
    Limit = 1
    LastHour = 1
    Manager = {m1, m2, m3}
    VersionLimit = 2
    ActivationLimit = 4

INVARIANT CallsAreRouted
INVARIANT ReportAddsUp
INVARIANT ConflictsAreReported
INVARIANT VerdictsAreFair
INVARIANT OnlyApprovedRuns

PROPERTY ResolvedComesBackOpen
PROPERTY ActivationsSerialize

CHECK_DEADLOCK FALSE
