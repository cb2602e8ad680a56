CONSTANT Requests <- AllCalls
SPECIFICATION FairSpec
CHECK_DEADLOCK FALSE
INVARIANTS
    TransferExact
PROPERTIES
    CallEnds
