------------------------- MODULE RelayServerProofs -------------------------
(***************************************************************************)
(* Proofs about the relay's routing, for any number of requests, keys,     *)
(* devices and sockets.  RelayServer is first shown to implement           *)
(* RelaySessions, which brings the invariants of the connection plane over *)
(* unchanged; the routing invariants are then proved on their own.         *)
(***************************************************************************)
EXTENDS RelayServer, RelaySessionsProofs

(***************************************************************************)
(* The inductive invariant of the routing layer.                           *)
(***************************************************************************)
\* What a handler holds at each stage: its issuer from the start, its route once it awaits Redis.
HandlerState ==
    \A r \in Requests :
        /\ stage[r] # "unsent" => issuer[r] \in Sockets /\ sender[r] \in Mobiles
        /\ stage[r] \in {"acquiring", "acquired", "duplicate"} => route[r] \in Sockets /\ IsWrite(r)
        /\ r \in pendingClients \cup atAgent => stage[r] = "forwarded"

\* A request that has been replied to has no entry left through which the agent could reach its issuer.
RepliedIsForgotten == \A r \in pendingClients : replies[r] = <<>>

\* Only a handler that has finished has replied.
ReplyState ==
    /\ AtMostOneReply
    /\ RepliedIsForgotten
    /\ \A r \in Requests : replies[r] # <<>> => stage[r] \in {"forwarded", "refused", "conflict"}

\* The handlers that came back from Redis with the key.
Owns(r) == IsWrite(r) /\ stage[r] \in {"acquired", "forwarded"}

\* Until its key expires the owner's slot stays taken and nobody else owns it.
KeyState ==
    /\ \A r \in Requests : Owns(r) => SlotOf(r) \in idempotency \cup expired
    /\ \A q, r \in Requests : q # r /\ Owns(q) /\ Owns(r) /\ SlotOf(q) = SlotOf(r)
                                 => SlotOf(r) \in expired

RouteInv == RouteTypeOK /\ HandlerState /\ ReplyState /\ KeyState

(***************************************************************************)
(* Refinement of the connection plane.                                     *)
(***************************************************************************)
\* A routing step either leaves the connection plane alone or is one of its own steps.
LEMMA ServerStepIsSessionStep == [ServerNext]_serverVars => [Next]_sessionVars
<1> SUFFICES ASSUME [ServerNext]_serverVars PROVE [Next]_sessionVars
    OBVIOUS
<1>1. CASE SessionStep /\ UNCHANGED routeVars
    BY <1>1 DEF Next
<1>2. ASSUME NEW s \in Sockets, ClientClosed(s) PROVE Next
    BY <1>2 DEF ClientClosed, Next
<1>3. ASSUME NEW r \in Requests, RequestStep(r) PROVE [Next]_sessionVars
  <2>1. CASE AgentOffline(r)
    BY <2>1, RequestsAssumption DEF AgentOffline, Next, SessionStep
  <2>2. CASE UNCHANGED sessionVars
    BY <2>2
  <2> QED BY <1>3, <2>1, <2>2 DEF RequestStep, RequestReceived, LookupFails, ControlNotHeld, MissingKey,
              AcquireStarts, KeyAcquired, AcquireFails, DuplicateRefused, ReadForwarded,
              WriteForwarded, ForwardOn, AgentAnswers, AgentStreams
<1>4. CASE \E slot \in idempotency : KeyExpires(slot)
    BY <1>4 DEF KeyExpires
<1>5. CASE UNCHANGED serverVars
    BY <1>5 DEF serverVars
<1> QED BY <1>1, <1>2, <1>3, <1>4, <1>5 DEF ServerNext

\* The server with its routing behaves, as for the connection plane, like RelaySessions alone.
LEMMA ServerRefinesSessions == ServerSpec => Spec
<1>1. ServerInit => Init
    BY DEF ServerInit
<1> QED BY <1>1, ServerStepIsSessionStep, PTL DEF ServerSpec, Spec

\* Every invariant of the connection plane holds of the whole server.
THEOREM ServerSessionSafety == ServerSpec => []SessionInv
    BY ServerRefinesSessions, SessionSafety, PTL

(***************************************************************************)
(* The routing invariant.                                                  *)
(***************************************************************************)
LEMMA RouteInvInit == ServerInit => RouteInv
<1> SUFFICES ASSUME ServerInit PROVE RouteInv
    OBVIOUS
<1> USE DEF ServerInit
<1>1. RouteTypeOK
    BY DEF RouteTypeOK, Stages, Sent, ReplyKinds
<1>2. HandlerState /\ ReplyState
    BY DEF HandlerState, ReplyState, AtMostOneReply, RepliedIsForgotten
<1>3. KeyState
    BY DEF KeyState, Owns
<1> QED BY <1>1, <1>2, <1>3 DEF RouteInv

\* A slot of a write that has been received is a slot of Redis.
LEMMA SlotTyped ==
    ASSUME RouteInv, NEW r \in Requests, IsWrite(r), stage[r] # "unsent"
    PROVE  SlotOf(r) \in Slots
    BY RequestsAssumption DEF RouteInv, HandlerState, SlotOf, Slots, IsWrite

\* The first reply to a request leaves every other request's replies alone and is its only one.
LEMMA FirstReply ==
    ASSUME NEW before \in [Requests -> Seq(Sent)], NEW after,
           NEW r \in Requests, NEW kind \in Sent, before[r] = <<>>,
           after \in {before, [before EXCEPT ![r] = Append(@, kind)]}
    PROVE  /\ after \in [Requests -> Seq(Sent)]
           /\ \A q \in Requests : q # r => after[q] = before[q]
           /\ Len(after[r]) <= 1
<1>1. /\ Append(before[r], kind) \in Seq(Sent)
      /\ Len(Append(before[r], kind)) = 1
      /\ Len(before[r]) = 0
    OBVIOUS
<1>2. CASE after = before
    BY <1>1, <1>2
<1>3. CASE after = [before EXCEPT ![r] = Append(@, kind)]
  <2>1. after = [before EXCEPT ![r] = Append(before[r], kind)]
    BY <1>3
  <2>2. after[r] = Append(before[r], kind)
    BY <2>1
  <2> QED BY <1>1, <2>1, <2>2
<1> QED BY <1>2, <1>3

\* An error reply ends a handler that had not replied.
LEMMA ErrorReplyStep ==
    ASSUME RouteInv, NEW r \in Requests, stage[r] \in {"resolving", "acquiring", "duplicate"},
           NEW final \in {"refused", "conflict"},
           stage' = [stage EXCEPT ![r] = final],
           replies' = ReplyTo(r, "error"),
           UNCHANGED <<issuer, sender, route, expired, pendingClients, atAgent, answered>>,
           idempotency' \subseteq Slots, idempotency \subseteq idempotency'
    PROVE  RouteInv'
<1> USE DEF RouteInv, RouteTypeOK
<1>1. replies[r] = <<>> /\ r \notin pendingClients \cup atAgent
    BY DEF ReplyState, HandlerState
<1>2. replies' \in {replies, [replies EXCEPT ![r] = Append(@, "error")]}
    BY DEF ReplyTo
<1>3. /\ replies' \in [Requests -> Seq(Sent)]
      /\ \A q \in Requests : q # r => replies'[q] = replies[q]
      /\ Len(replies'[r]) <= 1
    BY <1>1, <1>2, FirstReply DEF Sent, ReplyKinds
<1>4. RouteTypeOK'
    BY <1>1, <1>3 DEF Stages
<1>5. HandlerState'
    BY <1>1 DEF HandlerState, IsWrite
<1>6. ReplyState'
    BY <1>1, <1>3 DEF ReplyState, AtMostOneReply, RepliedIsForgotten
<1>7. KeyState'
    BY <1>1 DEF KeyState, Owns, SlotOf, IsWrite
<1> QED BY <1>4, <1>5, <1>6, <1>7

\* Forwarding moves a handler that had not replied to the pending entries; its key stays its own.
LEMMA ForwardStep ==
    ASSUME RouteInv, NEW r \in Requests, NEW t \in Sockets, ForwardOn(r, t),
           \/ stage[r] = "acquired"
           \/ stage[r] = "resolving" /\ ~IsWrite(r)
    PROVE  RouteInv'
<1> USE DEF RouteInv, RouteTypeOK
<1>1. /\ replies[r] = <<>>
      /\ stage' = [stage EXCEPT ![r] = "forwarded"]
      /\ pendingClients' = pendingClients \cup {r}
      /\ atAgent' \in {atAgent, atAgent \cup {r}}
      /\ UNCHANGED <<issuer, sender, idempotency, expired, replies>>
    BY DEF ForwardOn, ReplyState
<1>2. RouteTypeOK'
    BY <1>1 DEF ForwardOn, Stages
<1>3. HandlerState'
    BY <1>1 DEF ForwardOn, HandlerState, IsWrite
<1>4. ReplyState'
    BY <1>1 DEF ReplyState, AtMostOneReply, RepliedIsForgotten
<1>5. KeyState'
    BY <1>1 DEF KeyState, Owns, SlotOf, IsWrite
<1> QED BY <1>2, <1>3, <1>4, <1>5

\* The remaining steps of one request.
LEMMA RequestStepKeeps ==
    ASSUME RouteInv, TypeOK, NEW r \in Requests, RequestStep(r)
    PROVE  RouteInv'
<1> USE RequestsAssumption DEF RouteInv, RouteTypeOK
<1>1. ASSUME NEW s \in Sockets, RequestReceived(s, r) PROVE RouteInv'
  <2>1. RouteTypeOK' /\ HandlerState'
    BY <1>1, DevicesAssumption DEF RequestReceived, HandlerState, Stages, IsWrite
  <2>2. ReplyState'
    BY <1>1 DEF RequestReceived, ReplyState, AtMostOneReply, RepliedIsForgotten
  <2>3. KeyState'
    BY <1>1 DEF RequestReceived, KeyState, Owns, SlotOf, IsWrite
  <2> QED BY <2>1, <2>2, <2>3
<1>2. CASE LookupFails(r) \/ ControlNotHeld(r) \/ AgentOffline(r) \/ MissingKey(r)
    BY <1>2, ErrorReplyStep DEF LookupFails, ControlNotHeld, AgentOffline, MissingKey, MayProceed, Refuse
<1>3. CASE AcquireStarts(r)
  <2>1. deviceSockets[RequestAgent[r]] \in Sockets
    BY <1>3 DEF AcquireStarts, IsConnected, TypeOK, Devices
  <2>2. RouteTypeOK' /\ HandlerState'
    BY <1>3, <2>1 DEF AcquireStarts, MayProceed, HandlerState, Stages, IsWrite
  <2>3. ReplyState'
    BY <1>3 DEF AcquireStarts, MayProceed, ReplyState, AtMostOneReply, RepliedIsForgotten
  <2>4. KeyState'
    BY <1>3 DEF AcquireStarts, MayProceed, KeyState, Owns, SlotOf, IsWrite
  <2> QED BY <2>2, <2>3, <2>4
<1>4. CASE KeyAcquired(r)
  \* The slot was free exactly if this request becomes an owner: then no owner of it was left
  \* whose key had not expired.
  <2>1. IsWrite(r) /\ SlotOf(r) \in Slots /\ stage[r] = "acquiring"
    BY <1>4, SlotTyped DEF KeyAcquired, HandlerState
  <2>2. RouteTypeOK' /\ HandlerState'
    BY <1>4, <2>1 DEF KeyAcquired, HandlerState, Stages, IsWrite
  <2>3. ReplyState'
    BY <1>4 DEF KeyAcquired, ReplyState, AtMostOneReply, RepliedIsForgotten
  <2>4. \A q \in Requests : SlotOf(q)' = SlotOf(q) /\ (IsWrite(q)' <=> IsWrite(q))
    BY <1>4 DEF KeyAcquired, SlotOf, IsWrite
  <2>5. \A q \in Requests : q # r => (Owns(q)' <=> Owns(q))
    BY <1>4 DEF KeyAcquired, Owns, IsWrite
  <2>6. Owns(r)' => SlotOf(r) \notin idempotency
    BY <1>4 DEF KeyAcquired, Owns
  <2>7. SlotOf(r) \in idempotency' /\ idempotency \subseteq idempotency' /\ expired' = expired
    BY <1>4 DEF KeyAcquired
  <2>8. KeyState'
    BY <2>4, <2>5, <2>6, <2>7 DEF KeyState
  <2> QED BY <2>2, <2>3, <2>8
<1>5. CASE AcquireFails(r)
  <2>1. SlotOf(r) \in Slots
    BY <1>5, SlotTyped DEF AcquireFails, HandlerState
  <2> QED BY <1>5, <2>1, ErrorReplyStep DEF AcquireFails, Refuse
<1>6. CASE DuplicateRefused(r)
    BY <1>6, ErrorReplyStep DEF DuplicateRefused
<1>7. CASE ReadForwarded(r)
  <2>1. deviceSockets[RequestAgent[r]] \in Sockets
    BY <1>7 DEF ReadForwarded, IsConnected, TypeOK, Devices
  <2> QED BY <1>7, <2>1, ForwardStep DEF ReadForwarded, MayProceed
<1>8. CASE WriteForwarded(r)
    BY <1>8, ForwardStep DEF WriteForwarded, HandlerState
<1>9. ASSUME NEW s \in Sockets, NEW kind \in ReplyKinds, AgentAnswers(s, r, kind) PROVE RouteInv'
  <2>1. CASE r \in pendingClients /\ pendingClients' = pendingClients \ {r} /\ replies' = ReplyTo(r, kind)
    <3>1. /\ replies[r] = <<>> /\ stage[r] = "forwarded"
          /\ answered' = answered \cup {r}
          /\ UNCHANGED <<stage, issuer, sender, route, idempotency, expired, atAgent>>
      BY <1>9, <2>1 DEF AgentAnswers, ReplyState, RepliedIsForgotten, HandlerState
    <3>2. replies' \in {replies, [replies EXCEPT ![r] = Append(@, kind)]}
      BY <2>1 DEF ReplyTo
    <3>3. /\ replies' \in [Requests -> Seq(Sent)]
          /\ \A q \in Requests : q # r => replies'[q] = replies[q]
          /\ Len(replies'[r]) <= 1
      BY <3>1, <3>2, FirstReply DEF Sent
    <3>4. pendingClients' = pendingClients \ {r}
      BY <2>1
    <3>5. RouteTypeOK'
      BY <3>1, <3>3, <3>4
    <3>6. HandlerState'
      BY <3>1, <3>4 DEF HandlerState, IsWrite
    <3>7. ReplyState'
      BY <3>1, <3>3, <3>4 DEF ReplyState, AtMostOneReply, RepliedIsForgotten
    <3>8. KeyState'
      BY <3>1 DEF KeyState, Owns, SlotOf, IsWrite
    <3> QED BY <3>5, <3>6, <3>7, <3>8
  <2>2. CASE UNCHANGED <<pendingClients, replies>>
    <3>1. RouteTypeOK' /\ HandlerState' /\ ReplyState'
      BY <1>9, <2>2 DEF AgentAnswers, HandlerState, IsWrite, ReplyState, AtMostOneReply, RepliedIsForgotten
    <3>2. KeyState'
      BY <1>9 DEF AgentAnswers, KeyState, Owns, SlotOf, IsWrite
    <3> QED BY <3>1, <3>2
  <2> QED BY <1>9, <2>1, <2>2 DEF AgentAnswers
<1>10. ASSUME NEW s \in Sockets, AgentStreams(s, r) PROVE RouteInv'
  \* A stream message passes through an entry, so nothing has been replied yet.
  <2>1. replies' = replies /\ pendingClients' \subseteq pendingClients
    BY <1>10 DEF AgentStreams, ReplyState, RepliedIsForgotten
  <2>2. RouteTypeOK' /\ HandlerState' /\ ReplyState'
    BY <1>10, <2>1 DEF AgentStreams, HandlerState, IsWrite, ReplyState, AtMostOneReply, RepliedIsForgotten
  <2>3. KeyState'
    BY <1>10 DEF AgentStreams, KeyState, Owns, SlotOf, IsWrite
  <2> QED BY <2>2, <2>3
<1> QED BY <1>1, <1>2, <1>3, <1>4, <1>5, <1>6, <1>7, <1>8, <1>9, <1>10 DEF RequestStep

\* Every step of the server keeps the routing invariant.
LEMMA RouteInvStep == ASSUME RouteInv, TypeOK, [ServerNext]_serverVars PROVE RouteInv'
<1> USE DEF RouteInv, RouteTypeOK
<1>1. CASE UNCHANGED routeVars
    BY <1>1 DEF routeVars, HandlerState, IsWrite, ReplyState, AtMostOneReply, RepliedIsForgotten,
                KeyState, Owns, SlotOf
<1>2. ASSUME NEW s \in Sockets, ClientClosed(s) PROVE RouteInv'
  <2>1. RouteTypeOK' /\ HandlerState' /\ ReplyState'
    BY <1>2 DEF ClientClosed, HandlerState, IsWrite, ReplyState, AtMostOneReply, RepliedIsForgotten
  <2>2. KeyState'
    BY <1>2 DEF ClientClosed, KeyState, Owns, SlotOf, IsWrite
  <2> QED BY <2>1, <2>2
<1>3. ASSUME NEW r \in Requests, RequestStep(r) PROVE RouteInv'
    BY <1>3, RequestStepKeeps
<1>4. ASSUME NEW slot \in idempotency, KeyExpires(slot) PROVE RouteInv'
  <2>1. RouteTypeOK' /\ HandlerState' /\ ReplyState'
    BY <1>4 DEF KeyExpires, HandlerState, IsWrite, ReplyState, AtMostOneReply, RepliedIsForgotten
  <2>2. KeyState'
    BY <1>4 DEF KeyExpires, KeyState, Owns, SlotOf, IsWrite
  <2> QED BY <2>1, <2>2
<1> QED BY <1>1, <1>2, <1>3, <1>4 DEF ServerNext, serverVars

\* The routing invariant holds in every reachable state of the server.
THEOREM RouteSafety == ServerSpec => []RouteInv
<1>1. SessionInv => TypeOK
    BY DEF SessionInv
<1>2. RouteInv /\ TypeOK /\ [ServerNext]_serverVars => RouteInv'
    BY RouteInvStep
<1> QED BY <1>1, <1>2, RouteInvInit, ServerSessionSafety, PTL DEF ServerSpec

\* A request is answered at most once, by the relay or by the agent, and nothing reaches its issuer
\* after the answer, whatever the agent says and however often it says it.
THEOREM OneReplyPerRequest == ServerSpec => []AtMostOneReply
<1>1. RouteInv => AtMostOneReply
    BY DEF RouteInv, ReplyState
<1> QED BY RouteSafety, <1>1, PTL

\* A write is handed to the agent at most once per living idempotency key.
THEOREM OneForwardPerKey == ServerSpec => []AtMostOncePerKey
<1>1. RouteInv => AtMostOncePerKey
    BY DEF RouteInv, HandlerState, KeyState, Owns, AtMostOncePerKey, SlotOf, IsWrite
<1> QED BY RouteSafety, <1>1, PTL

\* All state of the server keeps its type.
THEOREM ServerTypes == ServerSpec => []ServerTypeOK
<1>1. SessionInv /\ RouteInv => ServerTypeOK
    BY DEF SessionInv, RouteInv, ServerTypeOK
<1> QED BY RouteSafety, ServerSessionSafety, <1>1, PTL

=============================================================================
