SPECIFICATION FairSpec
CONSTANTS
    None = None
    Sockets = {s1, s2}
    Requests = {r1}
    Reports = {well, ill}
    MaxMisses = 3
PROPERTIES
    StaysUp
CHECK_DEADLOCK FALSE
