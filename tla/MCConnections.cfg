SPECIFICATION Spec
CONSTANTS
    MaxOwed = 2
    MaxQueue = 3
    MaxTries = 2
    MaxConnects = 2
INVARIANTS
    TypeOK
    OnlyTheRightRepeater
    ChoiceLocked
    PortReleased
PROPERTIES
    KeepsTheContract
    RequestsSettle
CHECK_DEADLOCK FALSE
