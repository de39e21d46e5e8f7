---------------------------- MODULE RelayServer ----------------------------
(***************************************************************************)
(* The relay server's routing of a mobile's requests to an agent and of    *)
(* the agent's answers back (runtime-apps/relay-server, src/server.ts), on *)
(* top of the connection plane of RelaySessions.                           *)
(*                                                                         *)
(* A request handler awaits PostgreSQL (the binding and its route) and, if *)
(* the request writes, Redis (its idempotency key).  Between the awaits    *)
(* other handlers run: control changes hands, sockets close, agents        *)
(* reconnect.  What a handler carries over an await is in issuer, sender   *)
(* and route; everything else it reads anew.                               *)
(***************************************************************************)
EXTENDS RelaySessions, Naturals, Sequences

CONSTANTS
    Requests,       \* ids of routed requests, unique per message sent
    Keys,           \* idempotency keys
    RequestType,    \* the type of each request
    RequestAgent,   \* the agent its binding leads to
    IdempotencyKey  \* its idempotency key, None when the client sent none

WRITE_OPERATIONS ==
    {"thread_create_req", "thread_archive_req", "turn_start_req",
     "approval_resolve_req", "turn_interrupt_req"}
RoutedTypes == WRITE_OPERATIONS \cup {"thread_list_req", "thread_resume_req"}

ASSUME RequestsAssumption ==
    /\ RequestType \in [Requests -> RoutedTypes]
    /\ RequestAgent \in [Requests -> Agents]
    /\ IdempotencyKey \in [Requests -> Keys \cup {None}]

VARIABLES
    stage,          \* how far the handler of each request has come
    issuer,         \* the socket the request arrived on
    sender,         \* the mobile that socket was authenticated as
    route,          \* the agent socket the handler captured before awaiting Redis
    idempotency,    \* idempotency slots present in Redis
    expired,        \* slots whose key has expired once: a key protects for ten minutes
    pendingClients, \* requests whose answers the server will forward
    atAgent,        \* requests that reached the agent's process
    answered,       \* requests the agent's process has answered at least once (for its fairness)
    replies         \* put on the issuer's open socket: terminal replies, and what follows one

routeVars == <<stage, issuer, sender, route, idempotency, expired,
               pendingClients, atAgent, answered, replies>>
serverVars == <<sessionVars, routeVars>>

Stages == {"unsent", "resolving", "acquiring", "acquired", "duplicate",
           "forwarded", "refused", "conflict"}
ReplyKinds == {"response", "error"}
Sent == ReplyKinds \cup {"stream"}

\* acquireIdempotency's Redis key: the binding (one per agent and mobile), the operation, the key.
Slots == Agents \X Mobiles \X WRITE_OPERATIONS \X (Keys \cup {None})
SlotOf(r) == <<RequestAgent[r], sender[r], RequestType[r], IdempotencyKey[r]>>

IsWrite(r) == RequestType[r] \in WRITE_OPERATIONS

RouteTypeOK ==
    /\ stage \in [Requests -> Stages]
    /\ issuer \in [Requests -> Sockets \cup {None}]
    /\ sender \in [Requests -> Mobiles \cup {None}]
    /\ route \in [Requests -> Sockets \cup {None}]
    /\ idempotency \subseteq Slots
    /\ expired \subseteq Slots
    /\ pendingClients \subseteq Requests
    /\ atAgent \subseteq Requests
    /\ answered \subseteq Requests
    /\ replies \in [Requests -> Seq(Sent)]

ServerTypeOK == TypeOK /\ RouteTypeOK

ServerInit ==
    /\ Init
    /\ stage = [r \in Requests |-> "unsent"]
    /\ issuer = [r \in Requests |-> None]
    /\ sender = [r \in Requests |-> None]
    /\ route = [r \in Requests |-> None]
    /\ idempotency = {}
    /\ expired = {}
    /\ pendingClients = {}
    /\ atAgent = {}
    /\ answered = {}
    /\ replies = [r \in Requests |-> <<>>]

(***************************************************************************)
(* Helpers.                                                                *)
(***************************************************************************)
\* socket.send to the issuer of a request: ws drops it unless the socket is open.
ReplyTo(r, kind) ==
    IF readyState[issuer[r]] = "open" THEN [replies EXCEPT ![r] = Append(@, kind)] ELSE replies

HoldsControl(r) == agentControllers[RequestAgent[r]] = sender[r]

\* Writes need control of the agent, reads do not.
MayProceed(r) == stage[r] = "resolving" /\ (IsWrite(r) => HoldsControl(r))

Refuse(r) ==
    /\ stage' = [stage EXCEPT ![r] = "refused"]
    /\ replies' = ReplyTo(r, "error")
    /\ UNCHANGED <<issuer, sender, route, expired, pendingClients, atAgent, answered>>

(***************************************************************************)
(* A mobile's request.                                                     *)
(***************************************************************************)
\* The handler starts and awaits validateMobileBinding and resolveRouteTarget.
RequestReceived(s, r) ==
    LET m == socketSessions[s]
    IN  /\ stage[r] = "unsent"
        /\ Receives(s)
        /\ m \in Mobiles
        /\ <<RequestAgent[r], m>> \in Bindings
        /\ stage' = [stage EXCEPT ![r] = "resolving"]
        /\ issuer' = [issuer EXCEPT ![r] = s]
        /\ sender' = [sender EXCEPT ![r] = m]
        /\ UNCHANGED <<route, idempotency, expired, pendingClients, atAgent, answered, replies, sessionVars>>

\* A database call throws: the catch-all answers internalError.
LookupFails(r) ==
    /\ stage[r] = "resolving"
    /\ Refuse(r)
    /\ UNCHANGED <<idempotency, sessionVars>>

ControlNotHeld(r) ==
    /\ stage[r] = "resolving"
    /\ IsWrite(r) /\ ~HoldsControl(r)
    /\ Refuse(r)
    /\ UNCHANGED <<idempotency, sessionVars>>

\* No open agent socket: the presence is put right before the error is sent.
AgentOffline(r) ==
    /\ MayProceed(r)
    /\ ~IsConnected(RequestAgent[r])
    /\ PresenceSynced(RequestAgent[r])
    /\ Refuse(r)
    /\ UNCHANGED idempotency

MissingKey(r) ==
    /\ MayProceed(r)
    /\ IsConnected(RequestAgent[r])
    /\ IsWrite(r) /\ IdempotencyKey[r] = None
    /\ Refuse(r)
    /\ UNCHANGED <<idempotency, sessionVars>>

\* The agent's socket is captured; the handler awaits acquireIdempotency.
AcquireStarts(r) ==
    /\ MayProceed(r)
    /\ IsConnected(RequestAgent[r])
    /\ IsWrite(r) /\ IdempotencyKey[r] # None
    /\ stage' = [stage EXCEPT ![r] = "acquiring"]
    /\ route' = [route EXCEPT ![r] = deviceSockets[RequestAgent[r]]]
    /\ UNCHANGED <<issuer, sender, idempotency, expired, pendingClients, atAgent, answered, replies, sessionVars>>

\* Mutant of KeyAcquired: SET without NX always answers OK.
KeyAcquiredWithoutNX(r) ==
    /\ stage[r] = "acquiring"
    /\ stage' = [stage EXCEPT ![r] = "acquired"]
    /\ idempotency' = idempotency \cup {SlotOf(r)}
    /\ UNCHANGED <<issuer, sender, route, expired, pendingClients, atAgent, answered, replies, sessionVars>>

\* Redis executes SET key NX EX 600; the answer is on its way back.
KeyAcquired(r) ==
    /\ stage[r] = "acquiring"
    /\ stage' = [stage EXCEPT ![r] = IF SlotOf(r) \in idempotency THEN "duplicate" ELSE "acquired"]
    /\ idempotency' = idempotency \cup {SlotOf(r)}
    /\ UNCHANGED <<issuer, sender, route, expired, pendingClients, atAgent, answered, replies, sessionVars>>

\* The call to Redis throws before or after Redis executed it.
AcquireFails(r) ==
    /\ stage[r] = "acquiring"
    /\ idempotency' \in {idempotency, idempotency \cup {SlotOf(r)}}
    /\ Refuse(r)
    /\ UNCHANGED sessionVars

\* Answered with idempotencyConflict.
DuplicateRefused(r) ==
    /\ stage[r] = "duplicate"
    /\ stage' = [stage EXCEPT ![r] = "conflict"]
    /\ replies' = ReplyTo(r, "error")
    /\ UNCHANGED <<issuer, sender, route, idempotency, expired, pendingClients, atAgent, answered, sessionVars>>

\* The entry is made and the message sent on the captured socket, which may have closed by now.
ForwardOn(r, agentSocket) ==
    /\ stage' = [stage EXCEPT ![r] = "forwarded"]
    /\ route' = [route EXCEPT ![r] = agentSocket]
    /\ pendingClients' = pendingClients \cup {r}
    /\ atAgent' = IF readyState[agentSocket] = "open" /\ agentSocket \notin silent
                  THEN atAgent \cup {r} ELSE atAgent
    /\ UNCHANGED <<issuer, sender, idempotency, expired, answered, replies, sessionVars>>

ReadForwarded(r) ==
    /\ MayProceed(r)
    /\ ~IsWrite(r)
    /\ IsConnected(RequestAgent[r])
    /\ ForwardOn(r, deviceSockets[RequestAgent[r]])

\* Mutant of WriteForwarded: a handler whose captured socket has closed drops the request silently.
WriteForwardedIfOpen(r) ==
    /\ stage[r] = "acquired"
    /\ readyState[route[r]] = "open"
    /\ ForwardOn(r, route[r])

WriteForwarded(r) ==
    /\ stage[r] = "acquired"
    /\ ForwardOn(r, route[r])

(***************************************************************************)
(* The agent's messages.  Its process may say anything of a request that   *)
(* it got, over whatever socket it has by then: answer it late, more than  *)
(* once or with an error after a response, and stream before and after.    *)
(***************************************************************************)
AgentSpeaks(s, r) ==
    /\ Receives(s)
    /\ socketSessions[s] = RequestAgent[r]
    /\ r \in atAgent

\* Mutant of IsForwarded: only errors are forwarded.
IsForwardedErrorsOnly(r, kind) == kind = "error"

\* The response types the server forwards; thread_archive_res is not one of them.
IsForwarded(r, kind) == kind = "error" \/ RequestType[r] # "thread_archive_req"

\* Mutant of AgentAnswers: the entry is left to the close of the issuer's socket.
AgentAnswersKeepsEntry(s, r, kind) ==
    /\ AgentSpeaks(s, r)
    /\ replies' = IF IsForwarded(r, kind) /\ r \in pendingClients THEN ReplyTo(r, kind) ELSE replies
    /\ answered' = answered \cup {r}
    /\ UNCHANGED <<stage, issuer, sender, route, idempotency, expired, pendingClients, atAgent, sessionVars>>

AgentAnswers(s, r, kind) ==
    /\ AgentSpeaks(s, r)
    /\ IF IsForwarded(r, kind) /\ r \in pendingClients
       THEN /\ pendingClients' = pendingClients \ {r}
            /\ replies' = ReplyTo(r, kind)
       ELSE UNCHANGED <<pendingClients, replies>>
    /\ answered' = answered \cup {r}
    /\ UNCHANGED <<stage, issuer, sender, route, idempotency, expired, atAgent, sessionVars>>

\* turn_delta, turn_status, command_output_delta, approval_requested: sent on if the entry is there
\* and its socket open, which else costs the entry.  What precedes the reply is not recorded.
AgentStreams(s, r) ==
    /\ AgentSpeaks(s, r)
    /\ RequestType[r] = "turn_start_req"
    /\ IF r \in pendingClients /\ readyState[issuer[r]] = "open"
       THEN /\ replies' = IF replies[r] = <<>> THEN replies ELSE ReplyTo(r, "stream")
            /\ UNCHANGED pendingClients
       ELSE /\ pendingClients' = pendingClients \ {r}
            /\ UNCHANGED replies
    /\ UNCHANGED <<stage, issuer, sender, route, idempotency, expired, atAgent, answered, sessionVars>>

(***************************************************************************)
(* Redis lets a key go after its 600 s, and a closing socket takes its     *)
(* pending requests with it.                                               *)
(***************************************************************************)
KeyExpires(slot) ==
    /\ slot \in idempotency
    /\ idempotency' = idempotency \ {slot}
    /\ expired' = expired \cup {slot}
    /\ UNCHANGED <<stage, issuer, sender, route, pendingClients, atAgent, answered, replies, sessionVars>>

ClientClosed(s) ==
    /\ SocketClosed(s)
    /\ pendingClients' = {r \in pendingClients : issuer[r] # s}
    /\ UNCHANGED <<stage, issuer, sender, route, idempotency, expired, atAgent, answered, replies>>

RequestStep(r) ==
    \/ \E s \in Sockets : RequestReceived(s, r)
    \/ LookupFails(r)
    \/ ControlNotHeld(r)
    \/ AgentOffline(r)
    \/ MissingKey(r)
    \/ AcquireStarts(r)
    \/ KeyAcquired(r)
    \/ AcquireFails(r)
    \/ DuplicateRefused(r)
    \/ ReadForwarded(r)
    \/ WriteForwarded(r)
    \/ \E s \in Sockets, kind \in ReplyKinds : AgentAnswers(s, r, kind)
    \/ \E s \in Sockets : AgentStreams(s, r)

ServerNext ==
    \/ SessionStep /\ UNCHANGED routeVars
    \/ \E s \in Sockets : ClientClosed(s)
    \/ \E r \in Requests : RequestStep(r)
    \/ \E slot \in idempotency : KeyExpires(slot)

ServerSpec == ServerInit /\ [][ServerNext]_serverVars

(***************************************************************************)
(* Fairness: awaited calls return, and an agent that has a request and an  *)
(* open connection answers it sooner or later, once.                       *)
(***************************************************************************)
HandlerContinues(r) ==
    \/ LookupFails(r) \/ ControlNotHeld(r) \/ AgentOffline(r) \/ MissingKey(r)
    \/ AcquireStarts(r) \/ KeyAcquired(r) \/ AcquireFails(r) \/ DuplicateRefused(r)
    \/ ReadForwarded(r) \/ WriteForwarded(r)

ServerFairness ==
    /\ SessionFairness
    /\ \A r \in Requests :
        /\ WF_serverVars(HandlerContinues(r))
        /\ WF_serverVars(\E s \in Sockets, kind \in ReplyKinds :
                            r \notin answered /\ AgentAnswers(s, r, kind))

FairServerSpec == ServerSpec /\ ServerFairness
-----------------------------------------------------------------------------
(***************************************************************************)
(* Safety.                                                                 *)
(***************************************************************************)
\* A request gets one terminal reply at most and no stream message after it, however its handler's
\* errors, late, duplicated and contradictory answers of the agent, and reconnects interleave.
AtMostOneReply == \A r \in Requests : Len(replies[r]) <= 1

\* A write reaches the agent at most once per idempotency key while the key lives, whichever
\* sockets its retries come in on and however the Redis calls of the retries interleave.
AtMostOncePerKey ==
    \A q, r \in Requests :
        /\ q # r /\ IsWrite(r) /\ SlotOf(q) = SlotOf(r)
        /\ {q, r} \subseteq atAgent
        => SlotOf(r) \in expired

(***************************************************************************)
(* Liveness.                                                               *)
(***************************************************************************)
\* Every request is forwarded or refused: no handler is lost in its awaits.
RequestSettles ==
    \A r \in Requests : stage[r] = "resolving" ~> stage[r] \in {"forwarded", "refused", "conflict"}

\* The issuer of a forwarded request hears a reply, unless its own connection or the agent's
\* captured connection is lost first.
ForwardedRequestAnswered ==
    \A r \in Requests, s, t \in Sockets :
        (stage[r] = "forwarded" /\ issuer[r] = s /\ route[r] = t)
            ~> (replies[r] # <<>> \/ readyState[s] # "open" \/ readyState[t] # "open")
=============================================================================
