SPECIFICATION Spec
CONSTANTS
    Tries = 2
    Interval = 2
    PerTry = 1
    MaxRequests = 2
    MaxNow = 2
    MaxWall = 2
CHECK_DEADLOCK FALSE
INVARIANTS TypeOK SendsRunInOrder FreshSendsAreNotReplays SendsArePaced
PROPERTY RequestsEnd
