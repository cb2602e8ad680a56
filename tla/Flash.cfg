CONSTANTS
    Offsets = {1365, 682, 66901, 7}
    Commands = {170, 85, 128, 160, 144, 48, 16, 240}
    MayFail = TRUE
SPECIFICATION Spec
CHECK_DEADLOCK FALSE
INVARIANTS
    IdentifierVisible
PROPERTIES
    ChangesOnlyWhenArmed
    EraseIsWhole
