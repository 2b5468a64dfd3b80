\* Two roots saturate the regular permit and borrow the reserve; B also asks for it.
CONSTANTS
    llm = llm
    coordination = coordination
    A = A
    B = B
    p = p
    q = q
    l1 = l1
    l2 = l2
    l3 = l3
    Regular = llm
    Coordination = coordination
    PlainKey = {}
    Capacity <- OneOfEach
    LeaseId = {l1, l2}
    NoLease = NoLease
    NoOne = NoOne
    Cursor <- NoCursor
    Request = {"a1", "b1", "c1"}
    Ask <- LeafAsk
    Task = {"a1", "a2", "b1", "b2"}
    Parent = {p, q}
    RootSession = {A, B}
    Boosts = {0, 10}
SPECIFICATION FairSpec
PROPERTIES
    NobodyStarves
CHECK_DEADLOCK FALSE
