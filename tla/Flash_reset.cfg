CONSTANTS
    Offsets = {1365, 682}
    Commands = {170, 85, 144, 240}
    MayFail = FALSE
SPECIFICATION Spec
CHECK_DEADLOCK FALSE
PROPERTIES
    ResetMakesReadable
