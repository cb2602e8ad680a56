CONSTANT
    HighSizes = {0, 256, 13056}
SPECIFICATION FairSpec
CHECK_DEADLOCK FALSE
INVARIANTS
    A20Mapped
    WindowMapped
    RequestsAreLegal
    StopsInOrder
PROPERTIES
    ExitIsReached
