----------------------- MODULE AgentRelayClientProofs -----------------------
(***************************************************************************)
(* Proofs about AgentRelayClient for any number of sockets, requests and   *)
(* reports and any limit of missed heartbeats.                             *)
(***************************************************************************)
EXTENDS AgentRelayClient, TLAPS

\* The current socket's events are still to come; an attempt settles before or when it fails.
CurrentIsAlive ==
    /\ socket # None => wire[socket] \in {"connecting", "open", "ending"}
    /\ \A s \in Sockets : wire[s] = "connecting" => s \notin settled

\* connectPromise stands for the current socket's attempt, unless the heartbeat took the socket.
PendingAttempt ==
    connectPromise # None => gaveUpOn # None \/ (socket # None /\ socket \notin settled)

\* One timer at most is armed, and only after the current socket is past use.
TimerAfterLoss ==
    /\ timers <= 1
    /\ timers > 0 => status # "online" /\ (socket = None \/ wire[socket] = "ending")

\* A socket closed by the heartbeat is the only one there is to hear of.
ClosingAlone ==
    \A s \in Sockets : wire[s] = "closing" =>
        /\ socket = None /\ timers = 0 /\ gaveUpOn # None
        /\ \A t \in Sockets : wire[t] = "closing" => t = s

DownIsReset ==
    process = "down" =>
        /\ socket = None /\ connectPromise = None /\ timers = 0
        /\ interval = "stopped" /\ status # "online"
        /\ \A s \in Sockets : wire[s] = "free"

ConnectionInv ==
    /\ OnlyCurrentSocketLives
    /\ CurrentIsAlive
    /\ PendingAttempt
    /\ TimerAfterLoss
    /\ ClosingAlone
    /\ DownIsReset
    /\ NeverStranded

ClientInv == TypeOK /\ ConnectionInv /\ LoginInv

LEMMA ClientInit == Init => ClientInv
BY ClientAssumption DEF Init, ClientInv, TypeOK, ConnectionInv, LoginInv, OnlyCurrentSocketLives,
   CurrentIsAlive, PendingAttempt, TimerAfterLoss, ClosingAlone, DownIsReset, NeverStranded,
   OnlineMeansLoggedIn, LoggedInIsWatched, RelayKnowsHealth, Connected, CurrentIsOpen

LEMMA TypeOKStep == ASSUME TypeOK, [Next]_vars PROVE TypeOK'
<1> USE ClientAssumption DEF TypeOK, connection, heartbeat, health, vars
<1>1. ASSUME NEW s \in Sockets, Launch(s)  PROVE TypeOK'
  BY <1>1 DEF Launch, Opens
<1>2. ASSUME NEW s \in Sockets, SocketOpens(s) \/ ConnectFails(s)  PROVE TypeOK'
  BY <1>2 DEF SocketOpens, ConnectFails, ScheduleReconnect
<1>3. ASSUME NEW s \in Sockets, AuthOk(s) \/ Pong(s) \/ ConnectionLost(s)  PROVE TypeOK'
  BY <1>3 DEF AuthOk, Pong, ConnectionLost
<1>4. ASSUME NEW s \in Sockets, SocketError(s)  PROVE TypeOK'
  BY <1>4 DEF SocketError, ScheduleReconnect
<1>5. ASSUME NEW s \in Sockets, SocketClosed(s)  PROVE TypeOK'
  BY <1>5 DEF SocketClosed, CloseEvent, ScheduleReconnect
<1>6. CASE TimerFires
  BY <1>6 DEF TimerFires, Opens
<1>7. CASE HeartbeatTick
  BY <1>7 DEF HeartbeatTick, Crash
<1>8. CASE HeartbeatTimeout
  BY <1>8 DEF HeartbeatTimeout, ScheduleReconnect, CurrentIsOpen
<1>9. ASSUME NEW h \in Reports, ReportHealth(h)  PROVE TypeOK'
  BY <1>9 DEF ReportHealth
<1>10. ASSUME NEW s \in Sockets, NEW r \in Requests, RequestReceived(s, r)  PROVE TypeOK'
  BY <1>10 DEF RequestReceived
<1>11. ASSUME NEW r \in Requests, AnswerSent(r) \/ SendThrows(r)  PROVE TypeOK'
  BY <1>11 DEF AnswerSent, SendThrows, Crash
<1>12. CASE AccessExpires
  BY <1>12 DEF AccessExpires
<1>13. CASE UNCHANGED vars
  BY <1>13
<1> QED  BY <1>1, <1>2, <1>3, <1>4, <1>5, <1>6, <1>7, <1>8, <1>9, <1>10, <1>11, <1>12, <1>13
         DEF Next, SocketEvent

LEMMA ConnectionInvStep == ASSUME TypeOK, ConnectionInv, [Next]_vars PROVE ConnectionInv'
<1> USE ClientAssumption DEF TypeOK, ConnectionInv, OnlyCurrentSocketLives, CurrentIsAlive,
        PendingAttempt, TimerAfterLoss, ClosingAlone, DownIsReset, NeverStranded,
        connection, heartbeat, health, vars
<1>1. ASSUME NEW s \in Sockets, Launch(s)  PROVE ConnectionInv'
  BY <1>1 DEF Launch, Opens
<1>2. ASSUME NEW s \in Sockets, SocketOpens(s)  PROVE ConnectionInv'
  BY <1>2 DEF SocketOpens
<1>3. ASSUME NEW s \in Sockets, ConnectFails(s)  PROVE ConnectionInv'
  BY <1>3 DEF ConnectFails, ScheduleReconnect
<1>4. ASSUME NEW s \in Sockets, AuthOk(s)  PROVE ConnectionInv'
  BY <1>4 DEF AuthOk
<1>5. ASSUME NEW s \in Sockets, Pong(s)  PROVE ConnectionInv'
  BY <1>5 DEF Pong
<1>6. ASSUME NEW s \in Sockets, ConnectionLost(s)  PROVE ConnectionInv'
  BY <1>6 DEF ConnectionLost
<1>7. ASSUME NEW s \in Sockets, SocketError(s)  PROVE ConnectionInv'
  BY <1>7 DEF SocketError, ScheduleReconnect
<1>8. ASSUME NEW s \in Sockets, SocketClosed(s)  PROVE ConnectionInv'
  <2>1. CASE socket # s
    BY <1>8, <2>1 DEF SocketClosed, CloseEvent
  <2>2. CASE socket = s
    BY <1>8, <2>2 DEF SocketClosed, CloseEvent, ScheduleReconnect
  <2> QED  BY <2>1, <2>2
<1>9. CASE TimerFires
  <2>1. CASE connectPromise # None
    BY <1>9, <2>1 DEF TimerFires
  <2>2. CASE connectPromise = None
    <3>1. PICK s \in Sockets : Opens(s) /\ status' = "reconnecting"
      BY <1>9, <2>2 DEF TimerFires
    <3>2. \A t \in Sockets : wire[t] \notin {"connecting", "open", "closing"}
      BY <1>9 DEF TimerFires
    <3>3. timers = 1 /\ timers' = 0 /\ process' = process /\ process = "up"
      BY <1>9 DEF TimerFires
    <3> QED  BY <3>1, <3>2, <3>3 DEF Opens
  <2> QED  BY <2>1, <2>2
<1>10. CASE HeartbeatTick
  BY <1>10 DEF HeartbeatTick, Crash
<1>11. CASE HeartbeatTimeout
  <2> USE <1>11 DEF HeartbeatTimeout
  <2>1. CASE socket # None /\ wire[socket] = "connecting"
    BY <2>1 DEF ScheduleReconnect
  <2>2. CASE CurrentIsOpen
    BY <2>2 DEF CurrentIsOpen
  <2>3. CASE ~CurrentIsOpen /\ ~(socket # None /\ wire[socket] = "connecting")
    BY <2>3 DEF CurrentIsOpen
  <2> QED  BY <2>1, <2>2, <2>3
<1>12. ASSUME NEW r \in Requests, SendThrows(r)  PROVE ConnectionInv'
  BY <1>12 DEF SendThrows, Crash
<1>13. ASSUME UNCHANGED <<process, connection, heartbeat, status, gaveUpOn>>  PROVE ConnectionInv'
  BY <1>13
<1> QED  BY <1>1, <1>2, <1>3, <1>4, <1>5, <1>6, <1>7, <1>8, <1>9, <1>10, <1>11, <1>12, <1>13
         DEF Next, SocketEvent, ReportHealth, RequestReceived, AnswerSent, AccessExpires

LEMMA LoginInvStep == ASSUME TypeOK, ConnectionInv, LoginInv, [Next]_vars PROVE LoginInv'
<1> USE ClientAssumption DEF TypeOK, ConnectionInv, LoginInv, OnlyCurrentSocketLives,
        CurrentIsAlive, TimerAfterLoss, ClosingAlone, DownIsReset, OnlineMeansLoggedIn,
        LoggedInIsWatched, RelayKnowsHealth, Connected, CurrentIsOpen, connection, heartbeat,
        health, vars
<1>1. ASSUME NEW s \in Sockets, Launch(s)  PROVE LoginInv'
  BY <1>1 DEF Launch, Opens
<1>2. ASSUME NEW s \in Sockets, SocketOpens(s)  PROVE LoginInv'
  BY <1>2 DEF SocketOpens
<1>3. ASSUME NEW s \in Sockets, ConnectFails(s)  PROVE LoginInv'
  BY <1>3 DEF ConnectFails, ScheduleReconnect
<1>4. ASSUME NEW s \in Sockets, AuthOk(s)  PROVE LoginInv'
  BY <1>4 DEF AuthOk
<1>5. ASSUME NEW s \in Sockets, Pong(s) \/ ConnectionLost(s)  PROVE LoginInv'
  BY <1>5 DEF Pong, ConnectionLost
<1>6. ASSUME NEW s \in Sockets, SocketError(s)  PROVE LoginInv'
  BY <1>6 DEF SocketError, ScheduleReconnect
<1>7. ASSUME NEW s \in Sockets, SocketClosed(s)  PROVE LoginInv'
  BY <1>7 DEF SocketClosed, CloseEvent, ScheduleReconnect
<1>8. CASE TimerFires
  BY <1>8 DEF TimerFires, Opens
<1>9. CASE HeartbeatTick
  BY <1>9 DEF HeartbeatTick, Crash
<1>10. CASE HeartbeatTimeout
  BY <1>10 DEF HeartbeatTimeout, ScheduleReconnect
<1>11. ASSUME NEW h \in Reports, ReportHealth(h)  PROVE LoginInv'
  BY <1>11 DEF ReportHealth
<1>12. ASSUME NEW r \in Requests, SendThrows(r)  PROVE LoginInv'
  BY <1>12 DEF SendThrows, Crash
<1>13. ASSUME UNCHANGED <<process, connection, heartbeat, status, health, gaveUpOn>>
       PROVE  LoginInv'
  BY <1>13
<1> QED  BY <1>1, <1>2, <1>3, <1>4, <1>5, <1>6, <1>7, <1>8, <1>9, <1>10, <1>11, <1>12, <1>13
         DEF Next, SocketEvent, RequestReceived, AnswerSent, AccessExpires

\* The invariant of the agent's connection holds of every behaviour, whatever order callbacks take.
THEOREM ClientSafety == Spec => []ClientInv
<1>1. ClientInv /\ [Next]_vars => ClientInv'
  BY TypeOKStep, ConnectionInvStep, LoginInvStep DEF ClientInv
<1> QED  BY <1>1, ClientInit, PTL DEF Spec

\* Late callbacks of replaced sockets never give the agent a second connection.
THEOREM OneConnection == Spec => []OnlyCurrentSocketLives
<1>1. ClientInv => OnlyCurrentSocketLives
  BY DEF ClientInv, ConnectionInv
<1> QED  BY <1>1, ClientSafety, PTL

\* Unless the heartbeat has given up, a running agent is connected, connecting or about to retry.
THEOREM LossIsRetried == Spec => []NeverStranded
<1>1. ClientInv => NeverStranded
  BY DEF ClientInv, ConnectionInv
<1> QED  BY <1>1, ClientSafety, PTL

\* A login is complete: watched by the heartbeat, published truly and told the agent's latest health.
THEOREM LoginIsComplete == Spec => []LoginInv
<1>1. ClientInv => LoginInv
  BY DEF ClientInv
<1> QED  BY <1>1, ClientSafety, PTL
=============================================================================
