\* Three gates share one regular permit and its reserve; x may have mail.
CONSTANTS
    llm = llm
    coordination = coordination
    A = A
    x = x
    y = y
    z = z
    l1 = l1
    l2 = l2
    Regular = llm
    Coordination = coordination
    PlainKey = {}
    Capacity <- OneOfEach
    LeaseId = {l1, l2}
    NoLease = NoLease
    NoOne = NoOne
    Cursor <- OldCursor
    NoRequest = NoRequest
    Request <- TurnRequests
    Ask <- TurnAsk
    Task = {x, y, z}
    Parent = {x}
    RootSession = {A}
    Boosts = {0}
    Coordinator = {x}
    WritesFail = TRUE
SPECIFICATION TSpec
SYMMETRY Alike
INVARIANTS
    TurnsAreBacked
    OneRequestPerTask
    NoSleeperForgotten
CHECK_DEADLOCK FALSE
