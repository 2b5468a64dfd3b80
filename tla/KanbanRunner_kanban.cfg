\* Two cards, one of them a merge card, two slots.
CONSTANTS
    feature = feature
    fix = fix
    Card = {feature, fix}
    MergeKind = {fix}
    Spoken = {"queued", "awaiting_merge"}
    Outcomes = {"done", "awaiting_merge"}
    Limit = 2
    MaxSessions = 2
    MaxRequests = 1
    MaxFaults = 1
    None = None
SPECIFICATION FairKanbanSpec
INVARIANTS
    OneMergeAtATime
    GateIsNamed
    ThreadServesItsCard
PROPERTIES
    SlotFollowsSession
    GateComesBack
CHECK_DEADLOCK FALSE
