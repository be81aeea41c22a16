SPECIFICATION Spec
CONSTANTS
    WorkUser = 10
    Unset = Unset
    Nobody = Nobody
    AbortOnPanic = TRUE
INVARIANTS
    DataOfConfiguredUser
CHECK_DEADLOCK FALSE
