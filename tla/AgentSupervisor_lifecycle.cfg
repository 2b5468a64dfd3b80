\* A root and one child; every event, one retry.
CONSTANTS
    top = top
    one = one
    two = two
    Task = {top, one}
    Root = top
    NoTask = NoTask
    NoWorker = NoWorker
    NoRequest = NoRequest
    Requests = {q}
    MaxDirectChildren = 1
    MaxAttempts = 2
    MaxRetried = 1
    WorkerReports = {"Delivered", "DeliveredInvalid", "Completed", "BudgetExhausted",
                     "Paused", "RecoveryConflict"}
    WatchdogKinds = {"WatchdogBudgetExhausted"}
SPECIFICATION Spec
INVARIANTS
    EvidenceMatchesOutcome
PROPERTIES
    TerminalOutcomeIsFinal
    PassReportsEveryChange
CHECK_DEADLOCK FALSE
