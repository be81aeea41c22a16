SPECIFICATION FairSpec
CONSTANTS
    c1 = c1
    c2 = c2
    Clients <- OneBot
    PollLimit = 1
    Capacity = 1
    Window = 1
    MaxRows = 2
    MaxStarts = 2
PROPERTIES
    MessageArrives
    DrainEnds
CHECK_DEADLOCK FALSE
