CONSTANTS
    Callers = {p, q}
    MaxCalls = 3
    MaxLost = 1
    MaxInits = 2
SPECIFICATION RegsSpec
SYMMETRY Symmetry
INVARIANTS
    FieldsAsAsked
    WindowWhole
    PathBeforePixels
CHECK_DEADLOCK FALSE
