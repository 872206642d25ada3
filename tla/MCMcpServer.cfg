SPECIFICATION Spec
CONSTANTS
    t1 = t1
    t2 = t2
    t3 = t3
    ten_a = ten_a
    ten_b = ten_b
    stdio = stdio
    q1 = q1
    q2 = q2
    bad = bad
    k1 = k1
    k2 = k2
    j1 = j1
    e1 = e1
    e2 = e2
    e3 = e3
    junk = junk
    w1 = w1
    Tasks <- MCTasks
    Tenants = {ten_a, ten_b}
    Stdio = stdio
    Queues = {q1, q2}
    BadName = bad
    Keys <- MCKeys
    Jwt <- MCJwt
    Embeddings <- MCEmbeddings
    Malformed = {junk}
    Score <- MCScore
    SIMILARITY_THRESHOLD = 95
    DEDUP_TTL = 2
    MAX_ATTEMPTS = 2
    Hour = 3
    Minute = 2
    Workers = {w1}
    channel_capacity = 1
    MaxAge = 3
    MaxDemand = 4
    Workloads <- MCWorkloads
INVARIANTS
    TypeOK
    BudgetHeld
    RequestsHeld
    PendingOvershootBounded
    TenantIsolation
    RevokedStaysRevoked
PROPERTIES
    CollapsesOntoRecent
CHECK_DEADLOCK FALSE
