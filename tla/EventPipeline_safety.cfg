SPECIFICATION Spec
CONSTANTS
    c1 = c1
    c2 = c2
    Clients <- TwoBots
    PollLimit = 2
    Capacity = 1
    Window = 1
    MaxRows = 2
    MaxStarts = 2
SYMMETRY Symmetry
INVARIANTS
    TypeOK
    SessionInOrder
    InOrderOnce
    NoSilentGap
    NoHistoryReplay
    StopsAtBadRow
PROPERTY
    ImplementsFeed
CHECK_DEADLOCK FALSE
