\* The desktop and a phone, one turn beside the main loop, queues of one frame.
CONSTANTS
    desktop = desktop
    phone = phone
    turn = turn
    mainLoop = mainLoop
    chat = chat
    everyone = everyone
    Client = {desktop, phone}
    Local = desktop
    Driver = {turn}
    Loop = mainLoop
    Thread = {chat}
    Everyone = everyone
    QueueCap = 1
    InboundCap = 1
    MaxFrames = 2
    MaxAsks = 3
SPECIFICATION FairHubSpec
PROPERTIES
    FeedIsKept
    RemovedIsDisconnected
    RequestsAreTaken
CHECK_DEADLOCK FALSE
