SPECIFICATION Spec
CONSTANTS
    Producers = {p1}
    Consumers = {c1, c2}
    Capacity = None
    None = None
    MaxItems = 2
INVARIANTS
    CoalescedWakeupNotLost
