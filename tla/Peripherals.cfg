CONSTANTS
    Radix = 3
    Hundred = 2
    Delays = {5, 40}
    Bytes = {1, 2}
    Divisors = {7}
    Windows <- MCWindows
    Addresses <- MCAddresses
    Memories <- MCMemories
    Accesses <- MCAccesses
    Builds = {"debug", "release"}
    Selections = {1, 3, 5, 11, 14, 255, 50}
    Values = {0, 200}
    Hours = {11, 12, 23}
    Sixtieths = {59}
SPECIFICATION Spec
INVARIANTS
    LatchedReadIsWhole
    NullCountHonest
    NeverAhead
    WindowIsExact
    StaysSelected
    MemoryIsRepeated
    DispatchExact
    AccessesAreAnswered
    AlarmReadsAsClock
PROPERTIES
    LoadIsWhole
    Survives
CHECK_DEADLOCK FALSE
