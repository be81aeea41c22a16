SPECIFICATION FairSpec
CONSTANTS
    MaxActions = 3
    MaxParts = 2
INVARIANTS
    TypeOK
    StartedInOrder
    StartedUnlessDeclined
PROPERTY
    AcceptedIsWorkedOff
CHECK_DEADLOCK FALSE
