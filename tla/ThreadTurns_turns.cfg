\* Two turns of one conversation, and in them any two of twelve mishaps.
CONSTANTS
    Interjections = {1, 2}
    MaxThinks = 2
    MaxConfirms = 2
    MaxTurns = 2
    Commands <- MCCommands
    InboxRoom = 1
    InterruptRoom = 1
    DecisionRoom = 1
    Mishaps <- MCMishaps
    MaxMishaps = 2
SPECIFICATION FairThreadSpec
INVARIANTS
    RequestsArePaired
    InterjectionsSettle
    
    AllowedByItsOwnAnswer
PROPERTIES
    InterruptEndsTurn
CHECK_DEADLOCK FALSE
