SPECIFICATION FairSpec
CONSTANTS
    c1 = c1  c2 = c2  k = k  v1 = v1  v2 = v2
    Callers = {c1, c2}
    Keys = {k}
    Values = {v1, v2}
    Nodes = {1, 2, 3}
    Handle = 1
    failure_threshold = 2
    half_open_success_threshold = 2
    open_duration = 1
    ttl = 2
    MaxTerm = 2
    MaxLog = 10
    Workloads <- MCWorkloads
INVARIANTS TypeOK CooldownHonoured AppliedMatchesCommitted SnapshotMatchesCommitted StableMembersStay
PROPERTIES FallbackIsRecentCommit Settles
