SPECIFICATION Spec
CONSTANTS
    Producers = {p1, p2}
    Consumers = {c1, c2}
    Priorities = {0, 1}
    None = None
    MaxItems = 4
    MaxCrashes = 1
    MaxFaults = 1
INVARIANTS
    ReplayRebuilds
    OkMeansKept
    
