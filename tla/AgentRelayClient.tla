-------------------------- MODULE AgentRelayClient --------------------------
(***************************************************************************)
(* The desktop agent's connection to the relay (runtime-apps/desktop-agent, *)
(* src/relay/relay-client.ts) with its heartbeat (packages/shared) and the *)
(* process around it: launchd starts it again when it ends.                *)
(*                                                                         *)
(* Every action is one callback of the event loop, with the promise        *)
(* reactions that run before the next one.  A socket object outlives its   *)
(* use: a callback of a socket that has been replaced still runs.  Nothing *)
(* calls disconnect, so the connection is maintained for as long as the    *)
(* process runs.                                                           *)
(***************************************************************************)
EXTENDS Integers, FiniteSets

CONSTANTS
    Sockets,    \* WebSocket objects; one that has closed is used again
    Requests,   \* requests of phones
    Reports,    \* agent health reports
    MaxMisses,  \* ticks without a pong before the heartbeat gives up
    None

ASSUME ClientAssumption ==
    /\ MaxMisses \in Nat \ {0}
    /\ None \notin Sockets \cup Reports

VARIABLES
    process,        \* the process runs or not
    socket,         \* this.socket
    wire,           \* the state of each socket
    settled,        \* sockets whose attempt has succeeded or failed
    connectPromise, \* the socket of the attempt it stands for
    timers,         \* armed reconnect timers
    interval,       \* the heartbeat's timer runs or not
    misses,         \* missedHeartbeats
    status,         \* the connection state last published
    latest,         \* latestHealthPayload
    told,           \* the report last sent in the current login
    handling,       \* requests whose handler awaits Codex
    token,          \* the access token of this process is valid or expired
    gaveUpOn        \* history: the socket that the heartbeat closed since the last attempt

connection == <<socket, wire, settled, connectPromise, timers>>
heartbeat == <<interval, misses>>
health == <<latest, told>>
vars == <<process, connection, heartbeat, status, health, handling, token, gaveUpOn>>

\* A socket that is closing was closed by the agent and still delivers messages; an ending one
\* does not, its close event is due.
TypeOK ==
    /\ process \in {"down", "up"}
    /\ socket \in Sockets \cup {None}
    /\ wire \in [Sockets -> {"free", "connecting", "open", "closing", "ending"}]
    /\ settled \subseteq Sockets
    /\ connectPromise \in Sockets \cup {None}
    /\ timers \in Nat
    /\ interval \in {"stopped", "running"}
    /\ misses \in 0 .. MaxMisses - 1
    /\ status \in {"none", "connecting", "online", "reconnecting"}
    /\ latest \in Reports \cup {None}
    /\ told \in Reports \cup {None}
    /\ handling \subseteq Requests
    /\ token \in {"valid", "expired"}
    /\ gaveUpOn \in Sockets \cup {None}

CurrentIsOpen == socket # None /\ wire[socket] = "open"
Connected == CurrentIsOpen /\ socket \in settled

Init ==
    /\ process = "down"
    /\ socket = None
    /\ wire = [s \in Sockets |-> "free"]
    /\ settled = {}
    /\ connectPromise = None /\ timers = 0
    /\ interval = "stopped" /\ misses = 0
    /\ status = "none"
    /\ latest = None /\ told = None
    /\ handling = {}
    /\ token = "valid"
    /\ gaveUpOn = None

(***************************************************************************)
(* The process.                                                            *)
(***************************************************************************)
\* new WebSocket: the attempt that connectPromise stands for.
Opens(s) ==
    /\ wire[s] = "free"
    /\ wire' = [wire EXCEPT ![s] = "connecting"]
    /\ socket' = s
    /\ settled' = settled \ {s}
    /\ connectPromise' = s
    /\ gaveUpOn' = None

\* The service starts: it refreshes its tokens if they have expired, then connects.
Launch(s) ==
    /\ process = "down"
    /\ process' = "up"
    /\ token' = "valid"
    /\ Opens(s)
    /\ status' = "connecting"
    /\ UNCHANGED <<timers, heartbeat, health, handling>>

\* An exception that nothing catches, thrown by send in a timer, a callback of Codex or a promise.
Crash ==
    /\ process' = "down"
    /\ socket' = None
    /\ wire' = [s \in Sockets |-> "free"]
    /\ settled' = {}
    /\ connectPromise' = None /\ timers' = 0
    /\ interval' = "stopped" /\ misses' = 0
    /\ status' = "none"
    /\ latest' = None /\ told' = None
    /\ handling' = {}
    /\ gaveUpOn' = None
    /\ UNCHANGED token

AccessExpires ==
    /\ token = "valid"
    /\ token' = "expired"
    /\ UNCHANGED <<process, connection, heartbeat, status, health, handling, gaveUpOn>>

(***************************************************************************)
(* The reconnect timer.                                                    *)
(***************************************************************************)
\* Mutant of ScheduleReconnect: a timer is armed next to the one that is.
ScheduleReconnectAgain == timers' = timers + 1 /\ status' = "reconnecting"

ScheduleReconnect ==
    IF timers > 0 THEN UNCHANGED <<timers, status>>
    ELSE timers' = timers + 1 /\ status' = "reconnecting"

\* connect: an attempt under way is left alone, else another is made; reconnectAttempt is not 0.
TimerFires ==
    /\ timers > 0
    /\ timers' = timers - 1
    /\ IF connectPromise # None
       THEN UNCHANGED <<socket, wire, settled, connectPromise, status, gaveUpOn>>
       ELSE \E s \in Sockets : Opens(s) /\ status' = "reconnecting"
    /\ UNCHANGED <<process, heartbeat, health, handling, token>>

(***************************************************************************)
(* Callbacks of a socket.                                                  *)
(***************************************************************************)
SocketOpens(s) ==
    /\ wire[s] = "connecting"
    /\ wire' = [wire EXCEPT ![s] = "open"]
    /\ UNCHANGED <<process, socket, settled, connectPromise, timers, heartbeat, status, health,
                   handling, token, gaveUpOn>>

\* Mutant of ConnectFails: connectPromise is cleared on success only.
ConnectFailsStaysPending(s) ==
    /\ wire[s] = "connecting"
    /\ wire' = [wire EXCEPT ![s] = "free"]
    /\ settled' = settled \cup {s}
    /\ socket' = IF socket = s THEN None ELSE socket
    /\ ScheduleReconnect
    /\ UNCHANGED <<process, connectPromise, heartbeat, health, handling, token, gaveUpOn>>

\* Error and close of a handshake in one go: the attempt is rejected, which schedules another.
ConnectFails(s) ==
    /\ wire[s] = "connecting"
    /\ wire' = [wire EXCEPT ![s] = "free"]
    /\ settled' = settled \cup {s}
    /\ socket' = IF socket = s THEN None ELSE socket
    /\ connectPromise' = None
    /\ ScheduleReconnect
    /\ UNCHANGED <<process, heartbeat, health, handling, token, gaveUpOn>>

\* The relay has accepted the login; the flush goes to this.socket and fails silently.
AuthOk(s) ==
    /\ wire[s] \in {"open", "closing"}
    /\ s \notin settled
    /\ token = "valid"
    /\ interval' = "running" /\ misses' = 0
    /\ status' = "online"
    /\ told' = IF CurrentIsOpen THEN latest ELSE None
    /\ settled' = settled \cup {s}
    /\ connectPromise' = None
    /\ UNCHANGED <<process, socket, wire, timers, latest, handling, token, gaveUpOn>>

Pong(s) ==
    /\ wire[s] \in {"open", "closing"}
    /\ s \in settled
    /\ misses' = 0
    /\ UNCHANGED <<process, connection, interval, status, health, handling, token, gaveUpOn>>

\* The peer closes, refuses the login, or the network is gone; the close event follows.
ConnectionLost(s) ==
    /\ wire[s] \in {"open", "closing"}
    /\ wire' = [wire EXCEPT ![s] = "ending"]
    /\ UNCHANGED <<process, socket, settled, connectPromise, timers, heartbeat, status, health,
                   handling, token, gaveUpOn>>

\* A frame the WebSocket library rejects: no test for a stale socket once the attempt is settled.
SocketError(s) ==
    /\ wire[s] \in {"open", "closing"}
    /\ wire' = [wire EXCEPT ![s] = "ending"]
    /\ settled' = settled \cup {s}
    /\ socket' = IF s \notin settled /\ socket = s THEN None ELSE socket
    /\ connectPromise' = IF s \in settled THEN connectPromise ELSE None
    /\ ScheduleReconnect
    /\ UNCHANGED <<process, heartbeat, health, handling, token, gaveUpOn>>

\* Mutant of CloseEvent: the heartbeat is stopped before the socket is compared.
CloseEventStopsFirst(s) ==
    /\ interval' = "stopped" /\ misses' = 0
    /\ IF socket # s
       THEN UNCHANGED <<socket, settled, connectPromise, timers, status>>
       ELSE /\ socket' = None
            /\ settled' = settled \cup {s}
            /\ connectPromise' = IF s \in settled THEN connectPromise ELSE None
            /\ ScheduleReconnect

\* Mutant of CloseEvent: the loss of a connection that had logged in is not retried.
CloseEventRetriesLogin(s) ==
    IF socket # s
    THEN UNCHANGED <<socket, settled, connectPromise, timers, heartbeat, status>>
    ELSE /\ interval' = "stopped" /\ misses' = 0
         /\ socket' = None
         /\ settled' = settled \cup {s}
         /\ connectPromise' = IF s \in settled THEN connectPromise ELSE None
         /\ IF s \in settled THEN UNCHANGED <<timers, status>> ELSE ScheduleReconnect

\* The handler, but for the socket's own end: a stale socket is ignored.
CloseEvent(s) ==
    IF socket # s
    THEN UNCHANGED <<socket, settled, connectPromise, timers, heartbeat, status>>
    ELSE /\ interval' = "stopped" /\ misses' = 0
         /\ socket' = None
         /\ settled' = settled \cup {s}
         /\ connectPromise' = IF s \in settled THEN connectPromise ELSE None
         /\ ScheduleReconnect

SocketClosed(s) ==
    /\ wire[s] = "ending"
    /\ wire' = [wire EXCEPT ![s] = "free"]
    /\ CloseEvent(s)
    /\ UNCHANGED <<process, health, handling, token, gaveUpOn>>

(***************************************************************************)
(* The heartbeat.                                                          *)
(***************************************************************************)
\* A ping that send refuses ends the process.
HeartbeatTick ==
    /\ interval = "running"
    /\ misses + 1 < MaxMisses
    /\ IF CurrentIsOpen
       THEN /\ misses' = misses + 1
            /\ UNCHANGED <<process, connection, interval, status, health, handling, token,
                           gaveUpOn>>
       ELSE Crash

\* onTimeout: the socket is closed and forgotten; closing aborts a handshake, whose attempt then
\* fails, but from an open socket only the close event, by now stale, is left to come.
HeartbeatTimeout ==
    /\ interval = "running"
    /\ misses + 1 >= MaxMisses
    /\ interval' = "stopped" /\ misses' = 0
    /\ gaveUpOn' = IF socket # None THEN socket ELSE gaveUpOn
    /\ socket' = None
    /\ IF socket # None /\ wire[socket] = "connecting"
       THEN /\ wire' = [wire EXCEPT ![socket] = "free"]
            /\ settled' = settled \cup {socket}
            /\ connectPromise' = None
            /\ ScheduleReconnect
       ELSE /\ wire' = IF CurrentIsOpen THEN [wire EXCEPT ![socket] = "closing"] ELSE wire
            /\ UNCHANGED <<settled, connectPromise, timers, status>>
    /\ UNCHANGED <<process, health, handling, token>>

(***************************************************************************)
(* Health reports and requests.                                            *)
(***************************************************************************)
\* The relay ignores what is sent on a socket that has not logged in.
ReportHealth(h) ==
    /\ process = "up"
    /\ latest' = h
    /\ told' = IF Connected THEN h ELSE told
    /\ UNCHANGED <<process, connection, heartbeat, status, handling, token, gaveUpOn>>

RequestReceived(s, r) ==
    /\ wire[s] \in {"open", "closing"}
    /\ s \in settled
    /\ r \notin handling
    /\ handling' = handling \cup {r}
    /\ UNCHANGED <<process, connection, heartbeat, status, health, token, gaveUpOn>>

\* The answer goes to this.socket, whatever socket the request came by.
AnswerSent(r) ==
    /\ r \in handling
    /\ CurrentIsOpen
    /\ handling' = handling \ {r}
    /\ UNCHANGED <<process, connection, heartbeat, status, health, token, gaveUpOn>>

\* A status, a delta or the answer while no socket is open: the error answer throws as well.
SendThrows(r) ==
    /\ r \in handling
    /\ ~CurrentIsOpen
    /\ Crash

SocketEvent(s) ==
    \/ SocketOpens(s) \/ ConnectFails(s)
    \/ AuthOk(s) \/ Pong(s)
    \/ ConnectionLost(s) \/ SocketError(s) \/ SocketClosed(s)

Next ==
    \/ \E s \in Sockets : Launch(s) \/ SocketEvent(s)
    \/ TimerFires
    \/ HeartbeatTick \/ HeartbeatTimeout
    \/ \E h \in Reports : ReportHealth(h)
    \/ \E s \in Sockets, r \in Requests : RequestReceived(s, r)
    \/ \E r \in Requests : AnswerSent(r) \/ SendThrows(r)
    \/ AccessExpires

Spec == Init /\ [][Next]_vars

\* Timers fire, launchd restarts the process (KeepAlive), a handshake ends one way or the other, a
\* closing socket closes, the relay decides on a login; a relay that is tried for ever can be
\* reached now and then.
Fairness ==
    /\ WF_vars(TimerFires)
    /\ WF_vars(\E s \in Sockets : Launch(s))
    /\ \A s \in Sockets :
          /\ WF_vars(SocketOpens(s) \/ ConnectFails(s))
          /\ WF_vars(s \notin settled /\ (AuthOk(s) \/ ConnectionLost(s)))
          /\ WF_vars(wire[s] = "closing" /\ ConnectionLost(s))
          /\ WF_vars(SocketClosed(s))
          /\ SF_vars(SocketOpens(s))
          /\ SF_vars(AuthOk(s))

FairSpec == Spec /\ Fairness
-----------------------------------------------------------------------------
(***************************************************************************)
(* Safety.                                                                 *)
(***************************************************************************)
\* The process never has two connections to the relay, or one it has lost track of: a socket that
\* is being opened or is open is the current one, however late the callbacks of others run.
OnlyCurrentSocketLives ==
    \A s \in Sockets : wire[s] \in {"connecting", "open"} => s = socket

\* A process that is not connected is on its way to be: a timer is armed, or a socket is current
\* whose opening, login or close event is still to come.  Only the heartbeat breaks this.
NeverStranded ==
    process = "up" /\ gaveUpOn = None =>
        \/ timers > 0
        \/ socket # None /\ wire[socket] \in {"connecting", "open", "ending"}

\* The published state is "online" only from a login until its socket is closed.
OnlineMeansLoggedIn ==
    status = "online" => gaveUpOn # None \/ (socket # None /\ socket \in settled)

\* A connection that has logged in is watched by the heartbeat, also when the close event of its
\* predecessor comes late.
LoggedInIsWatched == Connected => interval = "running"

\* The relay forgets an agent's health when it logs in again; while the agent is connected the
\* relay has its latest report.
RelayKnowsHealth == Connected => told = latest

\* A login is complete, whatever late callbacks of replaced sockets and health reports come between:
\* it is published, watched, and the relay knows what the agent knows.
LoginInv == OnlineMeansLoggedIn /\ LoggedInIsWatched /\ RelayKnowsHealth

(***************************************************************************)
(* Liveness.                                                               *)
(***************************************************************************)
\* After every loss the agent is connected again, crashes included, but for two ways to stay
\* away: the heartbeat has given up, or the access token has expired under a running process.
AgentComesBack == []<>(Connected \/ gaveUpOn # None \/ token = "expired")

\* What the status command and the panel print as "Online" is true or corrected.
OnlineIsTrue == (status = "online" /\ ~Connected) ~> (status # "online" \/ Connected)

\* The process outlives a loss of the connection, which it offers to report after a minute.
StaysUp == [][process = "up" => process' = "up"]_vars
=============================================================================
