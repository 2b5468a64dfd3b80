\* An application root and one child; one retry, a death of the daemon and one more
\* while the child is being recovered.
CONSTANTS
    top = top
    one = one
    Task = {top, one}
    Root = top
    NoTask = NoTask
    NoWorker = NoWorker
    NoRow = NoRow
    NoRequest = NoRequest
    Requests = {}
    MaxDirectChildren = 1
    MaxAttempts = 2
    MaxRetried = 1
    MaxCrashes = 2
    MaxHalf = 1
    Reopened = {one}
    WorkerReports = {"Completed", "Paused"}
    WatchdogKinds = {"WatchdogTimedOut"}
SPECIFICATION RuntimeSpec
INVARIANTS
    RowFollowsMemory
    LeasesFollowWorkers
    RecoverableKeepsWorkspace
PROPERTIES
    OutcomeIsDurable
CHECK_DEADLOCK FALSE
