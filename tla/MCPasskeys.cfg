SPECIFICATION Spec
CONSTANTS
    MaxCeremonies = 2
    MaxVisits = 3
INVARIANTS
    TypeOK
    MovesOnWhenVerified
    PressIsServed
PROPERTIES
    CeremoniesEnd
CHECK_DEADLOCK FALSE
