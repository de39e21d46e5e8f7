SPECIFICATION FairSpec
CONSTANTS
    None = None
    Missing = Missing
    Torn = Torn
    t1 = t1
    t2 = t2
    t3 = t3
    Tasks = {t1, t2, t3}
    Scenarios <- Mixed
    MaxAgents = 2
    MaxPairs = 3
PROPERTIES
    ServiceResolves
CHECK_DEADLOCK FALSE
