CONSTANTS
    MaxBytes = 2
    MaxChunk = 2
    Builds = {"reload"}
    MaxSend = 3
    Rearms = {TRUE, FALSE}
SPECIFICATION IrqFairSpec
CHECK_DEADLOCK FALSE
PROPERTIES
    HandlerReadIsNew
    HandlerWriteIsPaced
    InputServed
    TxDrains
