\* Progress of a posted event under the daemon's reconciliation tick; a delivery of
\* the root, or one of a task that waits for a permission, aborts the pass.
CONSTANTS
    top = top
    one = one
    two = two
    Task = {top, one}
    Root = top
    NoTask = NoTask
    NoWorker = NoWorker
    NoRequest = NoRequest
    Requests = {q}
    MaxDirectChildren = 1
    MaxAttempts = 2
    MaxRetried = 1
    WorkerReports = {"Delivered", "Paused"}
    WatchdogKinds = {}
SPECIFICATION FairSpec
PROPERTY PostedEventTakesEffect
CHECK_DEADLOCK FALSE
