SPECIFICATION FairSpec
CONSTANTS
    Producers = {p1, p2}
    Consumers = {c1, c2}
    Capacity = 2
    None = None
    MaxItems = 5
INVARIANTS
    TypeOK
    InOrderWithinCapacity
PROPERTIES
    EnqueueReturns
    EveryItemReceived
