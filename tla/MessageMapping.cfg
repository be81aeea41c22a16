SPECIFICATION FairSpec
CONSTANTS
    Tasks <- MCTasks
    NumMessages = 3
    PoolSize = 1
    MaxDeleted = 1
    StackDepth = 3
    Users <- MCUsers
    Self = "me"
    Inputs <- MCInputs
INVARIANTS
    TypeOK
    RecursesOnlyInCircles
    FailsForAReason
    PreviousIsRight
PROPERTY
    MappingEnds
CHECK_DEADLOCK FALSE
