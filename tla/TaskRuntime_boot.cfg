\* A daemon dies while a child works for a root whose client has left.
CONSTANTS
    top = top
    one = one
    Task = {top, one}
    Root = top
    NoTask = NoTask
    NoWorker = NoWorker
    NoRow = NoRow
    NoRequest = NoRequest
    Requests = {}
    MaxDirectChildren = 1
    MaxAttempts = 1
    MaxRetried = 0
    MaxCrashes = 1
    MaxHalf = 1
    Reopened = {}
    WorkerReports = {"Completed"}
    WatchdogKinds = {}
SPECIFICATION RuntimeSpec
INVARIANTS
    BootSucceeds
CHECK_DEADLOCK FALSE
