SPECIFICATION Spec
CONSTANTS
    Keys = {k1, k2}
    NoKey = NoKey
    SaveDelay = 1
    AclWait = 2
    MaxAsync = 1
    MaxRuns = 2
SYMMETRY MCSymmetry
INVARIANTS
    TypeOK
    RecordIsTheBoard
PROPERTIES
    RebootKeepsAccess
CHECK_DEADLOCK FALSE
