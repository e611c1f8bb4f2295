SPECIFICATION Spec
CONSTANTS
    a = a
    b = b
    m = m
    Unset = Unset
    Address = {a, b}
    Module = m
    Existing = {a}
    Funds = 1
    Slot = {0, 1}
    MaxPrecompileCalls = 2
    MaxDepth = 4
    MaxOps = 7
INVARIANTS
    CoinsConserved
    PrecompileSeesTheEVM
    DirtiesExact
PROPERTIES
    RevertRestores
    CommitWritesTheView
CHECK_DEADLOCK FALSE
