SPECIFICATION FairSpec
CONSTANTS
    m1 = m1
    m2 = m2
    c1 = c1
    c2 = c2
    w1 = w1
    Messages <- MCMessages
    Claimers <- MCClaimers
    Watchers <- MCWatchers
    Workloads <- MCWorkloads
    MaxAttempts = 2
    MaxChunks = 1
INVARIANTS
    TypeOK
    StreamOfThisDelivery
    OnePlace
PROPERTIES
    WatchReturns
    ImplementsAtLeastOnce
