CONSTANTS
    MaxBytes = 3
    MaxChunk = 2
    Builds = {"reload", "reuse"}
SPECIFICATION Spec
INVARIANTS
    TypeOK
    FifoOrder
    BackPressure
    RxWakeup
    TxWakeup
PROPERTIES
    InputOrder
