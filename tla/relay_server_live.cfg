SPECIFICATION FairServerSpec
CONSTANTS
    None = None
    a1 = a1
    k1 = k1
    Agents = {a1}
    Mobiles = {m1}
    Sockets = {s1, s2}
    Bindings <- MCBindings
    Requests = {r1}
    Keys = {k1}
    RequestType <- Starts
    RequestAgent <- ToA1
    IdempotencyKey <- SameKey
INVARIANTS
    OneLiveSocketPerDevice
    ConnectedAgentNotOffline
PROPERTIES
    ControlSurvivesReconnect
    VanishedPeerIsDropped
    ClosingSocketIsForgotten
    RequestSettles
    ForwardedRequestAnswered
CHECK_DEADLOCK FALSE
