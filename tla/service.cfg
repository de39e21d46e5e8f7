SPECIFICATION FairSpec
CONSTANTS
    None = None
    Empty = Empty
    Mixed = Mixed
    c1 = c1
    c2 = c2
    c3 = c3
    Commands = {c1, c2, c3}
    Scenarios <- Commanded
    MaxPids = 4
    MaxChanges = 5
INVARIANTS
    NeverBoth
    RunsLatest
PROPERTIES
    FilesDrift
    OutageIsAnnounced
CHECK_DEADLOCK FALSE
