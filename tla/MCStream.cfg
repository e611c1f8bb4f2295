SPECIFICATION Spec
CONSTANTS
    s1 = s1
    f1 = f1
    Subscriber = {s1}
    Filter = {f1}
    segmentSize = 2
    maxSegments = 1
    MaxItems = 7
    MaxBatch = 3
CHECK_DEADLOCK FALSE
INVARIANTS
    KeepsTheLastItems
PROPERTIES
    DeliveredOnceInOrder
    MissedItemsDelivered
