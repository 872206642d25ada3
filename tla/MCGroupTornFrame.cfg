SPECIFICATION Spec
SYMMETRY Symmetry
CONSTANTS
    Ids = {m1, m2}
    Keys = {k1}
    Tasks = {t1, t2}
    Verdicts = {}
    None = None
    MaxAttempts = 1
    Workloads <- TornFrame
INVARIANTS
    OkSurvivesReopen
