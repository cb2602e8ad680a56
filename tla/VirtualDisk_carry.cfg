CONSTANT Requests <- CrossingCalls
SPECIFICATION Spec
CHECK_DEADLOCK FALSE
INVARIANTS
    CarryReachesHigh
