SPECIFICATION Spec
CONSTANTS
    a = a
    p1 = p1
    b = b
    t1 = t1
    t2 = t2
    t3 = t3
    t4 = t4
    Tx = {t1, t2, t3}
    Signer = {a, b}
    sequence <- MCSequence
    first <- MCFirst
    EVMAddress = {a, b}
    Refusable = {t1}
    MaxTx = 2
    Builder = {}
    StartHeight = {0}
    MaxHeight = 2
    MaxFaults = 1
    MayClose = FALSE
    CosmosPool = CosmosPool
    EVMPool = EVMPool
    Free = Free
CHECK_DEADLOCK FALSE
INVARIANTS
    SnapshotExecutable
    ReservationsExact
    ReapListMatchesPool
