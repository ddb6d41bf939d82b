SPECIFICATION Spec
CONSTANTS
    MaxCeremonies = 2
    MaxVisits = 2
INVARIANTS
    PendingNameMarksSignup
CHECK_DEADLOCK FALSE
