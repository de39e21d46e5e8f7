SPECIFICATION FairSpec
CONSTANTS
    None = None
    Sockets = {s1, s2, s3}
    Requests = {r1, r2}
    Reports = {well, ill}
    MaxMisses = 3
INVARIANTS
    OnlyCurrentSocketLives
    NeverStranded
    LoginInv
PROPERTIES
    AgentComesBack
CHECK_DEADLOCK FALSE
