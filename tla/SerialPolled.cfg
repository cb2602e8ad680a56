CONSTANTS
    MaxBytes = 3
    MaxChunk = 2
    Builds = {"reload", "reuse"}
SPECIFICATION PolledFairSpec
INVARIANTS
    OneRxToken
    OneTxToken
    ReadableIsTrue
PROPERTIES
    EachReadIsNew
    InputSpec
    TxBecomesWritable
