SPECIFICATION Spec
SYMMETRY Symmetry
CONSTANTS
    Ids = {m1, m2}
    Keys = {k1}
    Tasks = {t1, t2, t3}
    Verdicts = {v1}
    None = None
    MaxAttempts = 2
    Workloads <- MCWorkloads
INVARIANTS
    TypeOK
    OneHome
    SomeHome
    KeysNameMessages
    NoSilentLoss
    FinishedStaysGone
    MemoryMatchesWal
    TokensNameDeliveries
    DeadLettersExhausted
    CheckpointSurvives
PROPERTIES
    LeaseRespected
