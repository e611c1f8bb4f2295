SPECIFICATION Spec
CONSTANTS
    a = a
    p1 = p1
    b = b
    t1 = t1
    t2 = t2
    t3 = t3
    t4 = t4
    Tx = {}
    Signer = {a}
    sequence <- MCSequence
    first <- MCFirst
    EVMAddress = {}
    Refusable = {}
    MaxTx = 2
    Builder = {p1}
    StartHeight = {0, 1}
    MaxHeight = 2
    MaxFaults = 1
    MayClose = TRUE
    CosmosPool = CosmosPool
    EVMPool = EVMPool
    Free = Free
CHECK_DEADLOCK FALSE
INVARIANTS
    NoPanic
PROPERTIES
    TriggersAnswered
    BuilderServed
    ShutdownEnds
    BuilderGetsItsHeight
