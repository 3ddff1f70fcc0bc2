SPECIFICATION Spec
CONSTANTS
    Callers = {ui, launch}
    Foreign = {custom}
    Official = {}
    Native = native
    Ours = ours
    None = none
    Unparsable = unparsable
    MaxCalls = 3
    MaxEvents = 2
SYMMETRY Symmetry
INVARIANTS
    TypeOK
    Recoverable
    NotForgotten
PROPERTIES
    GivenBack
    OneClobberHealed
CHECK_DEADLOCK FALSE
