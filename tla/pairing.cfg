SPECIFICATION FairSpec
CONSTANTS
    None = None
    p1 = p1
    a1 = a1
    a2 = a2
    Codes = {p1, p2}
    Claims = {c1, c2}
    Agents = {a1, a2}
    Mobiles = {m1, m2}
    CodeAgent <- OfAgent
INVARIANTS
    OneClaimantPerCode
    CodeBindsOnce
    LockHasOwner
    OneDefaultPerMobile
PROPERTIES
    LockedCodeIsFreed
CHECK_DEADLOCK FALSE
