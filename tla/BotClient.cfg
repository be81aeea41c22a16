SPECIFICATION FairSpec
CONSTANTS
    Callers <- TwoCallers
    NumRoutes = 2
    MaxChannels = 3
INVARIANTS
    TypeOK
    LeaksOnlyByOverlap
    HandlersAreIsolated
PROPERTIES
    CloseEndsRun
    Resubscribes
CHECK_DEADLOCK FALSE
