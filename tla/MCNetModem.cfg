SPECIFICATION ModemSpec

CONSTANTS
    Members = {m1}
    Runs = {k1, k2}
    NoRun = NoRun
    Room = 1
    TxQueue = 1
    ManualAck = FALSE
    Announcing = {k2}

CHECK_DEADLOCK FALSE

INVARIANTS ModemTypeOK AcknowledgementsAddUp
PROPERTY EveryoneIsAcknowledged
