SPECIFICATION Spec
CONSTANTS
    Call = {c1, c2, c3, c4}
    NilCall = {c4}
    MaxSize = 2
    None = None
PROPERTIES
    Answered
    ImplementsFifo
CHECK_DEADLOCK FALSE
