SPECIFICATION ServerSpec
CONSTANTS
    None = None
    a1 = a1
    k1 = k1
    keyless = keyless
    read = read
    Agents = {a1}
    Mobiles = {m1, m2}
    Sockets = {s1, s2, s3, s4}
    AgentSockets = {s1, s4}
    Bindings <- MCBindings
    Requests = {r1, r2, keyless, read}
    Keys = {k1}
    RequestType <- Starts
    RequestAgent <- ToA1
    IdempotencyKey <- SameKey
CONSTRAINT Focus
SYMMETRY Symmetry
INVARIANTS
    AtMostOneReply
    AtMostOncePerKey
CHECK_DEADLOCK FALSE
