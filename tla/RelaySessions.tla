--------------------------- MODULE RelaySessions ---------------------------
(***************************************************************************)
(* The connection plane of the relay server (runtime-apps/relay-server,    *)
(* src/server.ts): which WebSocket speaks for which device, the heartbeat  *)
(* timers, who controls an agent, and the presence the relay believes each *)
(* agent to have.                                                          *)
(*                                                                         *)
(* The server is one Node.js process.  A handler runs without interruption *)
(* up to its next await, so an action is the code between two awaits, and  *)
(* a handler that is waiting is a value of authenticating or takeovers     *)
(* that later steps may find any other state around.  The messages sent to *)
(* mobiles and agents change no state of the server and are left out here. *)
(*                                                                         *)
(* agentSockets and mobileSockets are one map, deviceSockets: the ids of   *)
(* agents and mobiles are disjoint.                                        *)
(***************************************************************************)
EXTENDS FiniteSets

CONSTANTS
    Agents,     \* device ids of desktop agents
    Mobiles,    \* device ids of phones
    Sockets,    \* every WebSocket the server ever accepts
    Bindings,   \* active bindings, pairs <<agent, mobile>>; no operation removes one
    None        \* "no entry": an id that is neither a device nor a socket

ASSUME DevicesAssumption ==
    /\ Agents \cap Mobiles = {}
    /\ None \notin Agents \cup Mobiles \cup Sockets
    /\ Bindings \subseteq Agents \X Mobiles

Devices == Agents \cup Mobiles

VARIABLES
    readyState,       \* the ws readyState of each socket
    silent,           \* sockets whose peer has vanished without closing
    authenticating,   \* device whose auth message awaits validateDeviceAuth
    socketSessions,   \* device a socket is authenticated as
    deviceSockets,    \* current socket of a device
    heartbeats,       \* sockets with an armed heartbeat timeout
    agentControllers, \* mobile that holds control of an agent
    agentPresence,    \* agentPresenceById
    takeovers         \* control_takeover_req handlers awaiting their binding

sessionVars == <<readyState, silent, authenticating, socketSessions, deviceSockets,
                 heartbeats, agentControllers, agentPresence, takeovers>>

ReadyStates == {"unused", "open", "closing", "closed"}
Presences == {"unknown", "online", "degraded", "offline"}

TypeOK ==
    /\ readyState \in [Sockets -> ReadyStates]
    /\ silent \subseteq Sockets
    /\ authenticating \in [Sockets -> Devices \cup {None}]
    /\ socketSessions \in [Sockets -> Devices \cup {None}]
    /\ deviceSockets \in [Devices -> Sockets \cup {None}]
    /\ heartbeats \subseteq Sockets
    /\ agentControllers \in [Agents -> Mobiles \cup {None}]
    /\ agentPresence \in [Agents -> Presences]
    /\ takeovers \subseteq Sockets \X Mobiles \X Agents

Init ==
    /\ readyState = [s \in Sockets |-> "unused"]
    /\ silent = {}
    /\ authenticating = [s \in Sockets |-> None]
    /\ socketSessions = [s \in Sockets |-> None]
    /\ deviceSockets = [d \in Devices |-> None]
    /\ heartbeats = {}
    /\ agentControllers = [a \in Agents |-> None]
    /\ agentPresence = [a \in Agents |-> "unknown"]
    /\ takeovers = {}

(***************************************************************************)
(* Helpers.                                                                *)
(***************************************************************************)
\* socket.close(): starts the closing handshake, a no-op on a socket already closing or closed.
Closing(states, s) == [states EXCEPT ![s] = IF @ = "open" THEN "closing" ELSE @]

\* The ws library hands messages over until the close event, also after close() was called here.
Receives(s) == readyState[s] \in {"open", "closing"} /\ s \notin silent

IsConnected(d) == deviceSockets[d] # None /\ readyState[deviceSockets[d]] = "open"

\* resolveAuthoritativeAgentPresence: the socket decides, degraded survives while it is open.
AuthoritativePresence(a) ==
    IF IsConnected(a)
    THEN IF agentPresence[a] = "degraded" THEN "degraded" ELSE "online"
    ELSE "offline"

(***************************************************************************)
(* The transport: sockets open, their peers disappear or start to close.   *)
(***************************************************************************)
Connect(s) ==
    /\ readyState[s] = "unused"
    /\ readyState' = [readyState EXCEPT ![s] = "open"]
    /\ UNCHANGED <<silent, authenticating, socketSessions, deviceSockets, heartbeats,
                   agentControllers, agentPresence, takeovers>>

\* The peer crashes or loses its network: no close frame and no further message arrive.
PeerVanishes(s) ==
    /\ Receives(s)
    /\ silent' = silent \cup {s}
    /\ UNCHANGED <<readyState, authenticating, socketSessions, deviceSockets, heartbeats,
                   agentControllers, agentPresence, takeovers>>

PeerStartsClose(s) ==
    /\ readyState[s] = "open"
    /\ s \notin silent
    /\ readyState' = [readyState EXCEPT ![s] = "closing"]
    /\ UNCHANGED <<silent, authenticating, socketSessions, deviceSockets, heartbeats,
                   agentControllers, agentPresence, takeovers>>

(***************************************************************************)
(* Authentication.  A client sends one auth message per connection; the    *)
(* handler awaits validateDeviceAuth and continues whatever has become of  *)
(* the socket in the meantime.                                             *)
(***************************************************************************)
AuthReceived(s, d) ==
    /\ readyState[s] = "open"
    /\ s \notin silent
    /\ socketSessions[s] = None
    /\ authenticating[s] = None
    /\ authenticating' = [authenticating EXCEPT ![s] = d]
    /\ UNCHANGED <<readyState, silent, socketSessions, deviceSockets, heartbeats,
                   agentControllers, agentPresence, takeovers>>

AuthRejected(s) ==
    /\ authenticating[s] # None
    /\ authenticating' = [authenticating EXCEPT ![s] = None]
    /\ readyState' = Closing(readyState, s)
    /\ UNCHANGED <<silent, socketSessions, deviceSockets, heartbeats,
                   agentControllers, agentPresence, takeovers>>

\* The database throws: the catch-all answers internalError and leaves the socket open.
AuthFails(s) ==
    /\ authenticating[s] # None
    /\ authenticating' = [authenticating EXCEPT ![s] = None]
    /\ UNCHANGED <<readyState, silent, socketSessions, deviceSockets, heartbeats,
                   agentControllers, agentPresence, takeovers>>

\* Mutant of AuthAccepted: the displaced socket is left open.
AuthAcceptedKeepsPrevious(s) ==
    LET d == authenticating[s]
    IN  /\ d # None
        /\ authenticating' = [authenticating EXCEPT ![s] = None]
        /\ socketSessions' = [socketSessions EXCEPT ![s] = d]
        /\ heartbeats' = heartbeats \cup {s}
        /\ deviceSockets' = [deviceSockets EXCEPT ![d] = s]
        /\ agentPresence' = [a \in Agents |-> IF a = d THEN "online" ELSE agentPresence[a]]
        /\ UNCHANGED <<readyState, silent, agentControllers, takeovers>>

\* The session is installed, the timer armed, and the socket that spoke for the device closed.
AuthAccepted(s) ==
    LET d == authenticating[s]
        previous == deviceSockets[d]
    IN  /\ d # None
        /\ authenticating' = [authenticating EXCEPT ![s] = None]
        /\ socketSessions' = [socketSessions EXCEPT ![s] = d]
        /\ heartbeats' = heartbeats \cup {s}
        /\ deviceSockets' = [deviceSockets EXCEPT ![d] = s]
        /\ readyState' = IF previous = None THEN readyState ELSE Closing(readyState, previous)
        /\ agentPresence' = IF d \in Agents
                            THEN [agentPresence EXCEPT ![d] = "online"]
                            ELSE agentPresence
        /\ UNCHANGED <<silent, agentControllers, takeovers>>

(***************************************************************************)
(* Heartbeats: every ping re-arms the timeout of its socket.               *)
(***************************************************************************)
PingReceived(s) ==
    /\ Receives(s)
    /\ socketSessions[s] # None
    /\ heartbeats' = heartbeats \cup {s}
    /\ UNCHANGED <<readyState, silent, authenticating, socketSessions, deviceSockets,
                   agentControllers, agentPresence, takeovers>>

\* Mutant of HeartbeatTimeout: the timer is cleared but the socket is not closed.
HeartbeatTimeoutWithoutClose(s) ==
    /\ s \in heartbeats
    /\ heartbeats' = heartbeats \ {s}
    /\ UNCHANGED <<readyState, silent, authenticating, socketSessions, deviceSockets,
                   agentControllers, agentPresence, takeovers>>

HeartbeatTimeout(s) ==
    /\ s \in heartbeats
    /\ heartbeats' = heartbeats \ {s}
    /\ readyState' = Closing(readyState, s)
    /\ UNCHANGED <<silent, authenticating, socketSessions, deviceSockets,
                   agentControllers, agentPresence, takeovers>>

\* POST /v1/dev/reset-device-auth, once the tokens of d are revoked.
DeviceInvalidated(d) ==
    /\ deviceSockets[d] # None
    /\ heartbeats' = heartbeats \ {deviceSockets[d]}
    /\ readyState' = Closing(readyState, deviceSockets[d])
    /\ UNCHANGED <<silent, authenticating, socketSessions, deviceSockets,
                   agentControllers, agentPresence, takeovers>>

(***************************************************************************)
(* The close event.  Only the current socket of a device takes the entry   *)
(* of the device, its presence or its controls away with it.               *)
(***************************************************************************)
\* Mutants of SocketClosed: the device's entry is kept, or the close of any of the device's
\* sockets marks the agent offline, or releases the mobile's controls.
ClosedWith(s, registered, offline, released) ==
    /\ readyState[s] \in {"open", "closing"}
    /\ readyState' = [readyState EXCEPT ![s] = "closed"]
    /\ heartbeats' = heartbeats \ {s}
    /\ socketSessions' = [socketSessions EXCEPT ![s] = None]
    /\ deviceSockets' = [d \in Devices |-> IF d \in registered THEN None ELSE deviceSockets[d]]
    /\ agentPresence' = [a \in Agents |-> IF a \in offline THEN "offline" ELSE agentPresence[a]]
    /\ agentControllers' = [a \in Agents |-> IF agentControllers[a] \in released
                                            THEN None ELSE agentControllers[a]]
    /\ UNCHANGED <<silent, authenticating, takeovers>>

CurrentDevice(s) == {d \in Devices : deviceSockets[d] = s}

SocketClosedKeepsEntry(s) == ClosedWith(s, {}, CurrentDevice(s), CurrentDevice(s))
SocketClosedAlwaysOffline(s) == ClosedWith(s, CurrentDevice(s), {socketSessions[s]}, CurrentDevice(s))
SocketClosedAlwaysReleases(s) ==
    ClosedWith(s, CurrentDevice(s), CurrentDevice(s), {socketSessions[s]})

SocketClosed(s) ==
    LET d == socketSessions[s]
        isCurrent == d # None /\ deviceSockets[d] = s
    IN  /\ readyState[s] \in {"open", "closing"}
        /\ readyState' = [readyState EXCEPT ![s] = "closed"]
        /\ heartbeats' = heartbeats \ {s}
        /\ socketSessions' = [socketSessions EXCEPT ![s] = None]
        /\ deviceSockets' = IF isCurrent THEN [deviceSockets EXCEPT ![d] = None] ELSE deviceSockets
        /\ agentPresence' = IF isCurrent /\ d \in Agents
                            THEN [agentPresence EXCEPT ![d] = "offline"]
                            ELSE agentPresence
        /\ agentControllers' = IF isCurrent /\ d \in Mobiles
                               THEN [a \in Agents |-> IF agentControllers[a] = d
                                                      THEN None ELSE agentControllers[a]]
                               ELSE agentControllers
        /\ UNCHANGED <<silent, authenticating, takeovers>>

(***************************************************************************)
(* Presence.                                                               *)
(***************************************************************************)
\* agent_health_report, on any socket with a session of an agent.
HealthReported(s, status) ==
    /\ Receives(s)
    /\ socketSessions[s] \in Agents
    /\ status \in {"online", "degraded"}
    /\ agentPresence' = [agentPresence EXCEPT ![socketSessions[s]] = status]
    /\ UNCHANGED <<readyState, silent, authenticating, socketSessions, deviceSockets,
                   heartbeats, agentControllers, takeovers>>

\* syncAuthoritativeAgentPresence, reached by a mobile's login, by presence_sync_req and by a
\* request for an agent that is offline.  Its callers hold no other state of the server across
\* the awaits before it, so it may run at any time for an agent that has a binding.
PresenceSynced(a) ==
    /\ \E m \in Mobiles : <<a, m>> \in Bindings
    /\ agentPresence' = [agentPresence EXCEPT ![a] = AuthoritativePresence(a)]
    /\ UNCHANGED <<readyState, silent, authenticating, socketSessions, deviceSockets,
                   heartbeats, agentControllers, takeovers>>

(***************************************************************************)
(* Control of an agent.                                                    *)
(***************************************************************************)
\* control_takeover_req arrives; its handler awaits validateMobileBinding.
TakeoverReceived(s, a) ==
    LET m == socketSessions[s]
    IN  /\ Receives(s)
        /\ m \in Mobiles
        /\ <<a, m>> \in Bindings
        /\ takeovers' = takeovers \cup {<<s, m, a>>}
        /\ UNCHANGED <<readyState, silent, authenticating, socketSessions, deviceSockets,
                       heartbeats, agentControllers, agentPresence>>

\* takeoverAgentControl: granted unconditionally, even when the asking socket is gone by now.
TakeoverGranted(s, m, a) ==
    /\ <<s, m, a>> \in takeovers
    /\ takeovers' = takeovers \ {<<s, m, a>>}
    /\ agentControllers' = [agentControllers EXCEPT ![a] = m]
    /\ UNCHANGED <<readyState, silent, authenticating, socketSessions, deviceSockets,
                   heartbeats, agentPresence>>

\* The binding lookup throws: the catch-all answers internalError.
TakeoverFails(s, m, a) ==
    /\ <<s, m, a>> \in takeovers
    /\ takeovers' = takeovers \ {<<s, m, a>>}
    /\ UNCHANGED <<readyState, silent, authenticating, socketSessions, deviceSockets,
                   heartbeats, agentControllers, agentPresence>>

(***************************************************************************)
(* Next.  Everything but the close event, which RelayServer extends.       *)
(***************************************************************************)
SocketStep(s) ==
    \/ Connect(s)
    \/ PeerVanishes(s)
    \/ PeerStartsClose(s)
    \/ \E d \in Devices : AuthReceived(s, d)
    \/ AuthRejected(s)
    \/ AuthFails(s)
    \/ AuthAccepted(s)
    \/ PingReceived(s)
    \/ HeartbeatTimeout(s)
    \/ \E status \in {"online", "degraded"} : HealthReported(s, status)
    \/ \E a \in Agents : TakeoverReceived(s, a)
    \/ \E m \in Mobiles, a \in Agents : TakeoverGranted(s, m, a) \/ TakeoverFails(s, m, a)

SessionStep ==
    \/ \E s \in Sockets : SocketStep(s)
    \/ \E d \in Devices : DeviceInvalidated(d)
    \/ \E a \in Agents : PresenceSynced(a)

Next == SessionStep \/ \E s \in Sockets : SocketClosed(s)

Spec == Init /\ [][Next]_sessionVars

(***************************************************************************)
(* Fairness.  Awaited calls return, the close event follows close() (ws    *)
(* destroys the TCP socket after 30 s), and the timer of a socket that     *)
(* sends no ping fires.  Nothing forces a client to do anything.           *)
(***************************************************************************)
SessionFairness ==
    /\ \A s \in Sockets :
        /\ WF_sessionVars(AuthRejected(s) \/ AuthFails(s) \/ AuthAccepted(s))
        /\ WF_sessionVars(readyState[s] = "closing" /\ SocketClosed(s))
        /\ WF_sessionVars(s \in silent /\ HeartbeatTimeout(s))
    /\ \A t \in Sockets \X Mobiles \X Agents :
        WF_sessionVars(TakeoverGranted(t[1], t[2], t[3]) \/ TakeoverFails(t[1], t[2], t[3]))

FairSpec == Spec /\ SessionFairness
-----------------------------------------------------------------------------
(***************************************************************************)
(* Safety.                                                                 *)
(***************************************************************************)
\* Of all the sockets ever authenticated as a device at most one is open, and it is the one the
\* relay routes by: a login displaces the previous socket however the two logins interleave.
OneLiveSocketPerDevice ==
    \A s \in Sockets : readyState[s] = "open" /\ socketSessions[s] # None
                          => deviceSockets[socketSessions[s]] = s

\* A socket the relay routes by still has the session of that device: the close of an old
\* socket never leaves the entry of its successor behind, nor its own.
RegisteredHasSession ==
    \A d \in Devices : deviceSockets[d] # None => socketSessions[deviceSockets[d]] = d

\* Timers and sessions go together: no session on an open socket can go silent unnoticed, and no
\* timer is left running for a socket that has no session any more.
HeartbeatCoversSessions ==
    /\ \A s \in Sockets : readyState[s] = "open" /\ socketSessions[s] # None => s \in heartbeats
    /\ \A s \in heartbeats : socketSessions[s] # None

\* While its socket is open an agent is never shown offline, whatever order the close of an old
\* socket, the health reports and the presence queries of mobiles come in.
ConnectedAgentNotOffline ==
    \A a \in Agents : IsConnected(a) => agentPresence[a] \in {"online", "degraded"}

\* A mobile loses control only to another mobile or because its current socket closes: the late
\* close of a socket it has already replaced (a reconnect) takes nothing away.
ControlSurvivesReconnect ==
    [][\A a \in Agents, m \in Mobiles :
          agentControllers[a] = m /\ agentControllers'[a] = None
              => deviceSockets[m] # None /\ deviceSockets'[m] = None]_sessionVars

(***************************************************************************)
(* Liveness.                                                               *)
(***************************************************************************)
\* An authenticated peer that vanishes is noticed: its heartbeat runs out, its socket closes and
\* its session is removed (a socket that never logged in has no timer, and is not covered).
VanishedPeerIsDropped ==
    \A s \in Sockets : (s \in silent /\ readyState[s] = "open" /\ socketSessions[s] # None)
                          ~> socketSessions[s] = None

\* A mobile that lost its last socket does not stay registered, unless its login finished after
\* the socket had closed.
ClosingSocketIsForgotten ==
    \A s \in Sockets, d \in Devices :
        (readyState[s] = "closing" /\ deviceSockets[d] = s) ~> deviceSockets[d] # s
=============================================================================
