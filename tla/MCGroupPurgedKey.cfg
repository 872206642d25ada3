SPECIFICATION Spec
SYMMETRY Symmetry
CONSTANTS
    Ids = {m1}
    Keys = {k1}
    Tasks = {t1, t2}
    Verdicts = {}
    None = None
    MaxAttempts = 1
    Workloads <- PurgedKey
INVARIANTS
    PurgedKeyReleased
