SPECIFICATION Spec
CONSTANTS
    WorkUser = 10
    Unset = Unset
    Nobody = Nobody
    AbortOnPanic = TRUE
INVARIANTS
    TypeOK
    ServesIffItCan
CHECK_DEADLOCK FALSE
