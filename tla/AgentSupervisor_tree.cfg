\* Three tasks, a chain or two siblings, one retry.
CONSTANTS
    top = top
    one = one
    two = two
    Task = {top, one, two}
    Root = top
    NoTask = NoTask
    NoWorker = NoWorker
    NoRequest = NoRequest
    Requests = {}
    MaxDirectChildren = 2
    MaxAttempts = 2
    MaxRetried = 1
    WorkerReports = {"Completed"}
    WatchdogKinds = {}
SPECIFICATION Spec
SYMMETRY SpawnedSymmetry
INVARIANTS
    TypeOK
    TreeShape
    LiveUnderSettledWasRevived
    WorkerServesActiveAttempt
    NoUnattendedWorker
PROPERTIES
    SettlingStopsTheSubtree
    RecoveryKeepsTheSubtree
CHECK_DEADLOCK FALSE
