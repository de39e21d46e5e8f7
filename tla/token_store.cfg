SPECIFICATION FairSpec
CONSTANTS
    None = None
    Calls = {c1, c2, c3}
INVARIANTS
    OneActivePair
    RefreshUsedOnce
    ResetRevokesAll
PROPERTIES
    DeadTokensStay
    AcceptedWhileActive
    CallsEnd
CHECK_DEADLOCK FALSE
