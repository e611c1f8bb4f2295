SPECIFICATION Spec
CONSTANTS
    u1 = u1
    u2 = u2
    m = m
    e = e
    User = {u1, u2}
    Module = m
    Escrow = e
    Amount = {1, 2}
    Funds = 2
    Fees = {0, 1}
    MaxPackets = 2
    MaxDepth = 2
    MaxStranded = 2
INVARIANTS
    Backed
    NoTokenStranded
    FailedRefundsKept
CHECK_DEADLOCK FALSE
SYMMETRY Symmetry
