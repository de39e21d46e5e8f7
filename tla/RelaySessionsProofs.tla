------------------------ MODULE RelaySessionsProofs ------------------------
(***************************************************************************)
(* Proofs about the relay's connection plane, for any number of devices,   *)
(* sockets and bindings.  The safety invariants are proved together: they  *)
(* become inductive once two facts about sockets that have no session yet  *)
(* are added (NoEarlySession).                                             *)
(***************************************************************************)
EXTENDS RelaySessions, TLAPS

\* A socket that has not been accepted has nothing, and one whose auth message is still being
\* checked has no session: authentication, once per connection, is the only writer of sessions.
NoEarlySession ==
    \A s \in Sockets :
        /\ readyState[s] = "unused" => authenticating[s] = None /\ socketSessions[s] = None
        /\ authenticating[s] # None => socketSessions[s] = None

SessionInv ==
    /\ TypeOK
    /\ NoEarlySession
    /\ OneLiveSocketPerDevice
    /\ RegisteredHasSession
    /\ HeartbeatCoversSessions
    /\ ConnectedAgentNotOffline

\* Every invariant holds in the initial state, where no socket is open.
LEMMA SessionInvInit == Init => SessionInv
<1> USE DevicesAssumption
<1> SUFFICES ASSUME Init PROVE SessionInv
    OBVIOUS
<1>1. TypeOK
    BY DEF Init, TypeOK, ReadyStates, Presences, Devices
<1>2. NoEarlySession /\ OneLiveSocketPerDevice /\ RegisteredHasSession
    BY DEF Init, NoEarlySession, OneLiveSocketPerDevice, RegisteredHasSession
<1>3. HeartbeatCoversSessions
    BY DEF Init, HeartbeatCoversSessions
<1>4. ConnectedAgentNotOffline
    BY DEF Init, ConnectedAgentNotOffline, IsConnected, Devices
<1> QED BY <1>1, <1>2, <1>3, <1>4 DEF SessionInv

\* Type correctness of every step.
LEMMA TypeOKStep == ASSUME TypeOK, [Next]_sessionVars PROVE TypeOK'
<1> USE DevicesAssumption DEF TypeOK, Devices, ReadyStates, Presences
<1>1. ASSUME NEW s \in Sockets, SocketStep(s) PROVE TypeOK'
  <2>1. CASE Connect(s) \/ PeerVanishes(s) \/ PeerStartsClose(s)
    BY <2>1 DEF Connect, PeerVanishes, PeerStartsClose
  <2>2. CASE \E d \in Devices : AuthReceived(s, d)
    BY <2>2 DEF AuthReceived
  <2>3. CASE AuthRejected(s) \/ AuthFails(s)
    BY <2>3 DEF AuthRejected, AuthFails, Closing
  <2>4. CASE AuthAccepted(s)
    BY <2>4 DEF AuthAccepted, Closing
  <2>5. CASE PingReceived(s) \/ HeartbeatTimeout(s)
    BY <2>5 DEF PingReceived, HeartbeatTimeout, Closing
  <2>6. CASE \E status \in {"online", "degraded"} : HealthReported(s, status)
    BY <2>6 DEF HealthReported
  <2>7. CASE \E a \in Agents : TakeoverReceived(s, a)
    BY <2>7 DEF TakeoverReceived
  <2>8. CASE \E m \in Mobiles, a \in Agents : TakeoverGranted(s, m, a) \/ TakeoverFails(s, m, a)
    BY <2>8 DEF TakeoverGranted, TakeoverFails
  <2> QED BY <1>1, <2>1, <2>2, <2>3, <2>4, <2>5, <2>6, <2>7, <2>8 DEF SocketStep
<1>2. ASSUME NEW d \in Devices, DeviceInvalidated(d) PROVE TypeOK'
    BY <1>2 DEF DeviceInvalidated, Closing
<1>3. ASSUME NEW a \in Agents, PresenceSynced(a) PROVE TypeOK'
    BY <1>3 DEF PresenceSynced, AuthoritativePresence
<1>4. ASSUME NEW s \in Sockets, SocketClosed(s) PROVE TypeOK'
    BY <1>4 DEF SocketClosed
<1>5. CASE UNCHANGED sessionVars
    BY <1>5 DEF sessionVars
<1> QED BY <1>1, <1>2, <1>3, <1>4, <1>5 DEF Next, SessionStep

\* The invariants other than TypeOK are preserved by a step that touches no session, registry
\* entry or authentication, only closes sockets, and closes every socket it takes a timer from.
LEMMA QuietStep ==
    ASSUME SessionInv, TypeOK',
           UNCHANGED <<socketSessions, deviceSockets>>,
           \A s \in Sockets : readyState'[s] = "open" => readyState[s] = "open",
           \A s \in Sockets : readyState'[s] = "unused" => readyState[s] = "unused",
           \A s \in Sockets : authenticating'[s] = authenticating[s] \/ authenticating'[s] = None
               \/ (socketSessions[s] = None /\ readyState'[s] # "unused"),
           \A s \in Sockets : readyState'[s] = "open" /\ s \in heartbeats => s \in heartbeats',
           \A s \in heartbeats' : s \in heartbeats \/ socketSessions[s] # None,
           \A a \in Agents : IsConnected(a) /\ agentPresence[a] \in {"online", "degraded"}
               => agentPresence'[a] \in {"online", "degraded"}
    PROVE  SessionInv'
<1> USE DevicesAssumption
<1>1. NoEarlySession'
    BY DEF SessionInv, NoEarlySession, TypeOK
<1>2. OneLiveSocketPerDevice' /\ RegisteredHasSession'
    BY DEF SessionInv, OneLiveSocketPerDevice, RegisteredHasSession, TypeOK
<1>3. HeartbeatCoversSessions'
    BY DEF SessionInv, HeartbeatCoversSessions, TypeOK
<1>4. ConnectedAgentNotOffline'
    BY DEF SessionInv, ConnectedAgentNotOffline, IsConnected, TypeOK, Devices
<1> QED BY <1>1, <1>2, <1>3, <1>4 DEF SessionInv

\* A login keeps the invariants: the socket it displaces stops being open in the same step.
LEMMA AuthAcceptedStep ==
    ASSUME SessionInv, TypeOK', NEW s \in Sockets, AuthAccepted(s)
    PROVE  SessionInv'
<1> USE DevicesAssumption DEF TypeOK, Devices
<1> DEFINE d == authenticating[s]
<1>1. d \in Devices /\ d # None /\ socketSessions[s] = None
    BY DEF AuthAccepted, SessionInv, NoEarlySession
<1>2. readyState[s] # "unused"
    BY <1>1 DEF SessionInv, NoEarlySession
<1>3. \A t \in Sockets : /\ readyState'[t] = "open" => readyState[t] = "open"
                         /\ readyState'[t] = "unused" => readyState[t] = "unused"
                         /\ t # s => socketSessions'[t] = socketSessions[t]
                         /\ t # s => authenticating'[t] = authenticating[t]
    BY DEF AuthAccepted, Closing, SessionInv
<1>4. socketSessions'[s] = d /\ deviceSockets'[d] = s /\ authenticating'[s] = None
    BY <1>1 DEF AuthAccepted, SessionInv
<1>5. \A e \in Devices : e # d => deviceSockets'[e] = deviceSockets[e]
    BY DEF AuthAccepted, SessionInv
<1>6. deviceSockets[d] # None => deviceSockets[d] \in Sockets /\ readyState'[deviceSockets[d]] # "open"
    BY <1>1 DEF AuthAccepted, Closing, SessionInv
<1>7. RegisteredHasSession'
    BY <1>1, <1>3, <1>4, <1>5 DEF SessionInv, RegisteredHasSession
<1>8. OneLiveSocketPerDevice'
    BY <1>1, <1>3, <1>4, <1>5, <1>6 DEF SessionInv, OneLiveSocketPerDevice
<1>9. HeartbeatCoversSessions'
    BY <1>1, <1>3, <1>4 DEF SessionInv, HeartbeatCoversSessions, AuthAccepted
<1>10. ConnectedAgentNotOffline'
  <2> SUFFICES ASSUME NEW a \in Agents, IsConnected(a)' PROVE agentPresence'[a] \in {"online", "degraded"}
    BY DEF ConnectedAgentNotOffline
  <2>1. CASE a = d
    BY <2>1 DEF AuthAccepted, SessionInv
  <2>2. CASE a # d
    BY <2>2, <1>3, <1>5 DEF AuthAccepted, SessionInv, ConnectedAgentNotOffline, IsConnected, Devices
  <2> QED BY <2>1, <2>2
<1>11. NoEarlySession'
    BY <1>1, <1>2, <1>3, <1>4 DEF SessionInv, NoEarlySession
<1> QED BY <1>7, <1>8, <1>9, <1>10, <1>11 DEF SessionInv

\* The close event keeps the invariants: it removes exactly what its own socket had.
LEMMA SocketClosedStep ==
    ASSUME SessionInv, TypeOK', NEW s \in Sockets, SocketClosed(s)
    PROVE  SessionInv'
<1> USE DevicesAssumption DEF TypeOK, Devices
<1>1. /\ socketSessions'[s] = None
      /\ readyState'[s] = "closed"
      /\ heartbeats' = heartbeats \ {s}
      /\ authenticating' = authenticating
      /\ \A t \in Sockets \ {s} : /\ socketSessions'[t] = socketSessions[t]
                                  /\ readyState'[t] = readyState[t]
    BY DEF SocketClosed, SessionInv
<1>2. \A e \in Devices : IF deviceSockets[e] = s THEN deviceSockets'[e] = None
                                                 ELSE deviceSockets'[e] = deviceSockets[e]
    BY DEF SocketClosed, SessionInv, RegisteredHasSession
<1>3. NoEarlySession'
    BY <1>1 DEF SessionInv, NoEarlySession, SocketClosed
<1>4. RegisteredHasSession' /\ OneLiveSocketPerDevice'
    BY <1>1, <1>2 DEF SessionInv, RegisteredHasSession, OneLiveSocketPerDevice
<1>5. HeartbeatCoversSessions'
    BY <1>1 DEF SessionInv, HeartbeatCoversSessions
<1>6. ConnectedAgentNotOffline'
  <2> SUFFICES ASSUME NEW a \in Agents, IsConnected(a)' PROVE agentPresence'[a] \in {"online", "degraded"}
    BY DEF ConnectedAgentNotOffline
  <2>1. IsConnected(a) /\ deviceSockets[a] # s
    BY <1>1, <1>2 DEF IsConnected, SessionInv
  <2>2. agentPresence'[a] = agentPresence[a]
    BY <2>1 DEF SocketClosed, SessionInv
  <2> QED BY <2>1, <2>2 DEF SessionInv, ConnectedAgentNotOffline
<1> QED BY <1>3, <1>4, <1>5, <1>6 DEF SessionInv

\* Every step of the connection plane keeps every invariant.
LEMMA SessionInvStep == ASSUME SessionInv, [Next]_sessionVars PROVE SessionInv'
<1> USE DevicesAssumption
<1>1. TypeOK'
    BY TypeOKStep DEF SessionInv
<1> USE <1>1 DEF TypeOK
<1>2. ASSUME NEW s \in Sockets, SocketStep(s) PROVE SessionInv'
  <2>1. CASE Connect(s)
    \* The new socket is open but has no session, so nothing is asked of it yet.
    <3>1. socketSessions[s] = None /\ s \notin heartbeats
      BY <2>1 DEF Connect, SessionInv, NoEarlySession, HeartbeatCoversSessions
    <3>2. \A a \in Agents : deviceSockets[a] # s
      BY <3>1 DEF SessionInv, RegisteredHasSession, Devices
    <3>3. NoEarlySession' /\ OneLiveSocketPerDevice' /\ RegisteredHasSession'
      BY <2>1, <3>1 DEF Connect, SessionInv, NoEarlySession, OneLiveSocketPerDevice, RegisteredHasSession
    <3>4. HeartbeatCoversSessions' /\ ConnectedAgentNotOffline'
      BY <2>1, <3>1, <3>2 DEF Connect, SessionInv, HeartbeatCoversSessions,
                              ConnectedAgentNotOffline, IsConnected, Devices
    <3> QED BY <3>3, <3>4 DEF SessionInv
  <2>2. CASE PeerVanishes(s) \/ PeerStartsClose(s) \/ \E d \in Devices : AuthReceived(s, d)
    BY <2>2, QuietStep DEF PeerVanishes, PeerStartsClose, AuthReceived, SessionInv
  <2>3. CASE AuthRejected(s) \/ AuthFails(s)
    BY <2>3, QuietStep DEF AuthRejected, AuthFails, Closing, SessionInv
  <2>4. CASE AuthAccepted(s)
    BY <2>4, AuthAcceptedStep
  <2>5. CASE PingReceived(s) \/ HeartbeatTimeout(s)
    BY <2>5, QuietStep DEF PingReceived, HeartbeatTimeout, Closing, SessionInv
  <2>6. CASE \E status \in {"online", "degraded"} : HealthReported(s, status)
    BY <2>6, QuietStep DEF HealthReported, SessionInv
  <2>7. CASE \/ \E a \in Agents : TakeoverReceived(s, a)
             \/ \E m \in Mobiles, a \in Agents : TakeoverGranted(s, m, a) \/ TakeoverFails(s, m, a)
    BY <2>7, QuietStep DEF TakeoverReceived, TakeoverGranted, TakeoverFails, SessionInv
  <2> QED BY <1>2, <2>1, <2>2, <2>3, <2>4, <2>5, <2>6, <2>7 DEF SocketStep
<1>3. ASSUME NEW d \in Devices, DeviceInvalidated(d) PROVE SessionInv'
    BY <1>3, QuietStep DEF DeviceInvalidated, Closing, SessionInv
<1>4. ASSUME NEW a \in Agents, PresenceSynced(a) PROVE SessionInv'
    BY <1>4, QuietStep DEF PresenceSynced, AuthoritativePresence, SessionInv
<1>5. ASSUME NEW s \in Sockets, SocketClosed(s) PROVE SessionInv'
    BY <1>5, SocketClosedStep
<1>6. CASE UNCHANGED sessionVars
    BY <1>6, QuietStep DEF sessionVars, SessionInv
<1> QED BY <1>2, <1>3, <1>4, <1>5, <1>6 DEF Next, SessionStep

\* The connection plane's invariants hold in every reachable state, for any numbers of agents,
\* mobiles, sockets and bindings.
THEOREM SessionSafety == Spec => []SessionInv
<1>1. SessionInv /\ [Next]_sessionVars => SessionInv'
    BY SessionInvStep
<1> QED BY SessionInvInit, <1>1, PTL DEF Spec

\* At most one open socket is authenticated as a device, and it is the one the relay routes by.
THEOREM OneSocketSpeaksForDevice == Spec => []OneLiveSocketPerDevice
<1>1. SessionInv => OneLiveSocketPerDevice
    BY DEF SessionInv
<1> QED BY SessionSafety, <1>1, PTL

\* An agent whose socket is open is never presented as offline.
THEOREM ConnectedAgentPresence == Spec => []ConnectedAgentNotOffline
<1>1. SessionInv => ConnectedAgentNotOffline
    BY DEF SessionInv
<1> QED BY SessionSafety, <1>1, PTL

\* Control is lost only to a takeover or with the controlling mobile's current socket: an action
\* property, for which the close event is the only step to look at.
THEOREM ControlStability == Spec => ControlSurvivesReconnect
<1> DEFINE Kept == \A a \in Agents, m \in Mobiles :
               agentControllers[a] = m /\ agentControllers'[a] = None
                   => deviceSockets[m] # None /\ deviceSockets'[m] = None
<1>1. SessionInv /\ [Next]_sessionVars => [Kept]_sessionVars
  <2> USE DevicesAssumption DEF TypeOK
  <2> SUFFICES ASSUME SessionInv, Next PROVE Kept
    BY DEF sessionVars
  <2>1. ASSUME NEW s \in Sockets, SocketClosed(s) PROVE Kept
    BY <2>1 DEF SocketClosed, SessionInv, Devices
  <2>2. ASSUME NEW s \in Sockets, SocketStep(s) PROVE Kept
    <3>1. ASSUME NEW m \in Mobiles, NEW a \in Agents, TakeoverGranted(s, m, a) PROVE Kept
      BY <3>1 DEF TakeoverGranted, SessionInv
    <3>2. CASE UNCHANGED agentControllers
      BY <3>2 
    <3> QED BY <2>2, <3>1, <3>2 DEF SocketStep, Connect, PeerVanishes, PeerStartsClose, AuthReceived,
                AuthRejected, AuthFails, AuthAccepted, PingReceived, HeartbeatTimeout,
                HealthReported, TakeoverReceived, TakeoverFails
  <2>3. CASE \/ \E d \in Devices : DeviceInvalidated(d)
             \/ \E a \in Agents : PresenceSynced(a)
    BY <2>3 DEF DeviceInvalidated, PresenceSynced
  <2> QED BY <2>1, <2>2, <2>3 DEF Next, SessionStep
<1>2. []SessionInv /\ [][Next]_sessionVars => [][Kept]_sessionVars
    BY <1>1, PTL
<1> QED BY SessionSafety, <1>2, PTL DEF Spec, ControlSurvivesReconnect
=============================================================================
