SPECIFICATION Spec
CONSTANTS
    Producers = {p1, p2}
    Consumers = {c1}
    Priorities = {0}
    None = None
    MaxItems = 2
    MaxCrashes = 1
    MaxFaults = 0
INVARIANTS
    OkSurvivesCrash
