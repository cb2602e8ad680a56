CONSTANTS
    MaxBytes = 1
    MaxChunk = 1
    Builds = {"reload", "reuse"}
    MaxSend = 1
    Rearms = {FALSE}
SPECIFICATION IrqFairSpec
CHECK_DEADLOCK FALSE
PROPERTIES
    RxServed
