\* Two pools with loans, a request of two units, an exclusive one and a deadline.
CONSTANTS
    llm = llm
    coordination = coordination
    A = A
    B = B
    p = p
    q = q
    l1 = l1
    l2 = l2
    l3 = l3
    Regular = llm
    Coordination = coordination
    PlainKey = {}
    Capacity <- PoolCapacity
    LeaseId = {l1, l2, l3}
    NoLease = NoLease
    NoOne = NoOne
    Cursor <- NoCursor
    Request = {"a1", "a2", "b1", "c1", "c2"}
    Ask <- PoolAsk
    Task = {"a1", "a2", "b1", "b2"}
    Parent = {p, q}
    RootSession = {A, B}
    Boosts = {0}
SPECIFICATION Spec
SYMMETRY Leases3
INVARIANTS
    InUseCountsLeases
    CombinedCapacity
    ExclusiveIsAlone
PROPERTIES
    BorrowingYields
    RootsTakeTurns
CHECK_DEADLOCK FALSE
