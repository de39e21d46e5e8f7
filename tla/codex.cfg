SPECIFICATION FairSpec
CONSTANTS
    t1 = t1
    t2 = t2
    t3 = t3
    s1 = s1
    d1 = d1
    c1 = c1
    Boot = boot
    Calls = {c1}
    Turns = {t1, t2, t3}
    Stops = {s1}
    Decisions = {d1}
    Scenarios <- MCScenarios
    About <- MCAbout
    Thread <- MCThread
    Processes = {p1, p2}
    Threshold = 2
    MaxLines = 1
    None = None
CONSTRAINT ThreadsTakeTurns
INVARIANTS
    WaitersAreOnCurrent
    HonestHealth
    ApprovalsOpen
    TurnsAreNotMixed
PROPERTIES
    ImplementsService
    RequestsAreAnswered
CHECK_DEADLOCK FALSE
