SPECIFICATION Spec
CONSTANTS
    None = None
    Missing = Missing
    Torn = Torn
    t1 = t1
    t2 = t2
    t3 = t3
    Tasks = {t1, t2, t3}
    Scenarios <- FirstForeground
    MaxAgents = 2
    MaxPairs = 3
INVARIANTS
    ForegroundServes
CHECK_DEADLOCK FALSE
