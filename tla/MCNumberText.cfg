CONSTANTS
    Decimals = 3
    Length = 6
    Inputs <- EveryNumber
SPECIFICATION Spec
CHECK_DEADLOCK FALSE
INVARIANTS
    WithinBuffer
    ShowsTheNumber
