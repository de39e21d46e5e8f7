------------------------- MODULE CodexClientProofs -------------------------
(***************************************************************************)
(* Proofs about the agent's Codex client, for any number of processes,     *)
(* turns and requests: nobody waits for a process whose exit has been      *)
(* handled, the health told to the relay is honest, and, as long as the     *)
(* turns of a thread follow each other, the handlers implement             *)
(* AgentService and no turn is mixed up with another.                      *)
(***************************************************************************)
EXTENDS CodexClient, TLAPS, SequenceTheorems, FiniteSetTheorems

\* A request whose call of the client has been made.
Reached(r) == phase[r] \notin {"absent", "idle", "starting"}

\* Some handler waits for the initialize of p.
HasStarter(p) == \E r \in Requests : phase[r] = "starting" /\ home[r] = p

\* Processes: this.process is one that has been spawned and has not exited, it is there while an
\* initialize is answered, and each initialize has one handler.
ProcessInv ==
    /\ current # None => child[current] \notin {"free", "gone"}
    /\ started = "yes" => current # None
    /\ health = "available" => started = "yes"
    /\ \A p \in Processes : p \in pending => current # None /\ HasStarter(p)
    /\ \A i \in DOMAIN reactions : reactions[i].of \in Processes =>
            current # None /\ HasStarter(reactions[i].of)
    /\ \A r \in Requests : phase[r] = "starting" =>
            home[r] \in Processes /\ child[home[r]] # "free"
    /\ \A r, s \in Requests : phase[r] = "starting" /\ phase[s] = "starting" /\ home[r] = home[s]
            => r = s

\* Promises: what is settled is no longer pending, is settled once, and answers a call that waits.
PromiseInv ==
    /\ \A i \in DOMAIN reactions : reactions[i].of \notin pending
    /\ \A i, j \in DOMAIN reactions : reactions[i].of = reactions[j].of => i = j
    /\ \A i \in DOMAIN reactions : reactions[i].of \in Rpcs => Reached(reactions[i].of)
    /\ \A r \in Calls \cup Stops : r \in pending => phase[r] = "sent"
    /\ \A i \in DOMAIN reactions : reactions[i].of \in Calls \cup Stops =>
            phase[reactions[i].of] = "sent"

\* Waiters: WaitersAreOnCurrent, and who waits, or has an entry by turn id, has been sent.
WaitInv ==
    /\ \A r \in Rpcs : r \in pending \/ r \in open =>
            started = "yes" /\ home[r] = current /\ Reached(r)
    /\ \A t \in open : phase[t] = "sent"
    /\ \A u \in Turns : byTurnId[u] # None => Reached(byTurnId[u])

\* Approvals: a decision is about an approval that was asked for.
AskInv ==
    /\ \A p \in Processes : \A i \in DOMAIN stdout[p] :
            stdout[p][i].kind = "ask" => askId[stdout[p][i].of] # None
    /\ \A t \in shown : askId[t] # None
    /\ \A d \in Decisions : phase[d] = "starting" => askId[About[d]] # None

ClientInv == TypeOK /\ ProcessInv /\ PromiseInv /\ WaitInv /\ AskInv

LEMMA IdsAreNumbers == Cardinality(Turns) \in Nat /\ Ids \subseteq Nat /\ None \notin Ids
<1>1. Cardinality(Turns) \in Nat
    BY CodexAssumption, FS_CardinalityType
<1> QED BY <1>1, CodexAssumption DEF Ids

\* Nothing runs, waits or has been asked in the initial state.
LEMMA ClientInvInit == Init => ClientInv
<1> SUFFICES ASSUME Init PROVE ClientInv
    OBVIOUS
<1> USE CodexAssumption, IdsAreNumbers
<1>1. TypeOK
  <2>1. phase \in [Requests -> {"absent", "idle", "starting", "sent"} \cup Final]
    BY DEF Init, Final
  <2>2. told \in [Turns -> Statuses \X (Turns \cup {None})]
    BY DEF Init, Statuses
  <2>3. failures \in 0 .. Threshold
    BY DEF Init
  <2> QED BY <2>1, <2>2, <2>3 DEF Init, TypeOK
<1>2. \A r \in Requests : phase[r] \in {"absent", "idle"}
    BY DEF Init
<1>3. ProcessInv
    BY <1>2 DEF Init, ProcessInv
<1>4. PromiseInv /\ WaitInv
    BY <1>2 DEF Init, PromiseInv, WaitInv
<1>5. AskInv
    BY <1>2 DEF Init, AskInv, Requests
<1> QED BY <1>1, <1>3, <1>4, <1>5 DEF ClientInv

(***************************************************************************)
(* Types.                                                                  *)
(***************************************************************************)
\* What taking the first element of a sequence and adding a last one keep.
LEMMA QueueFacts ==
    ASSUME NEW S, NEW q \in Seq(S)
    PROVE  /\ \A e \in S : Append(q, e) \in Seq(S)
           /\ q # <<>> => /\ Head(q) = q[1] /\ Head(q) \in S /\ 1 \in DOMAIN q
                          /\ Tail(q) \in Seq(S) /\ Len(Tail(q)) = Len(q) - 1
                          /\ \A i \in DOMAIN Tail(q) : i + 1 \in DOMAIN q /\ Tail(q)[i] = q[i + 1]
    OBVIOUS

LEMMA ElementFact == ASSUME NEW S, NEW q \in Seq(S), NEW i \in DOMAIN q PROVE q[i] \in S
    OBVIOUS

\* A settled promise is that of a request or of the initialize of a process.
LEMMA ReactionType ==
    ASSUME TypeOK, NEW i \in DOMAIN reactions
    PROVE  reactions[i].of \in Rpcs \cup Processes
<1> DEFINE S == [kind : {"reply", "error"}, of : Rpcs \cup Processes]
<1>1. reactions \in Seq(S)
    BY DEF TypeOK
<1> HIDE DEF S
<1>2. reactions[i] \in S
    BY <1>1, ElementFact
<1> QED BY <1>2 DEF S

\* What the client writes is an order, whatever state the process is in.
LEMMA WriteType ==
    ASSUME TypeOK, NEW message \in Orders, Write(message), current \in Processes
    PROVE  stdin' \in [Processes -> Seq(Orders)] /\ broken' \in {"no", "yes"}
    BY DEF TypeOK, Write

LEMMA SayType ==
    ASSUME TypeOK, NEW t \in Turns, NEW status \in Statuses, NEW u \in Turns \cup {None},
           Say(t, status, u)
    PROVE  told' \in [Turns -> Statuses \X (Turns \cup {None})]
    BY DEF TypeOK, Say

LEMMA SendRpcType ==
    ASSUME TypeOK, NEW r \in Rpcs, SendRpc(r), current \in Processes
    PROVE  /\ stdin' \in [Processes -> Seq(Orders)] /\ broken' \in {"no", "yes"}
           /\ pending' \subseteq Rpcs \cup Processes
           /\ phase' \in [Requests -> {"absent", "idle", "starting", "sent"} \cup Final]
           /\ home' \in [Requests -> Processes \cup {None}]
<1>1. [kind |-> "request", of |-> r] \in Orders
    BY DEF Orders
<1>2. Write([kind |-> "request", of |-> r])
    BY DEF SendRpc
<1> QED BY <1>1, <1>2, WriteType DEF TypeOK, SendRpc, Requests

\* The call of the client that a handler makes.
LEMMA ProceedType ==
    ASSUME TypeOK, NEW r \in Requests, Proceed(r), current \in Processes,
           r \in Decisions => askId[About[r]] # None
    PROVE  /\ stdin' \in [Processes -> Seq(Orders)] /\ broken' \in {"no", "yes"}
           /\ pending' \subseteq Rpcs \cup Processes
           /\ phase' \in [Requests -> {"absent", "idle", "starting", "sent"} \cup Final]
           /\ home' \in [Requests -> Processes \cup {None}]
           /\ open' \subseteq Turns /\ order' \in Seq(Turns)
           /\ turnId' \in [Turns -> Turns \cup {None}] /\ byTurnId' \in [Turns -> Turns \cup {None}]
           /\ approvals' \in [Ids -> Turns \cup {None}] /\ approvalIds' \in [Turns -> SUBSET Ids]
           /\ told' \in [Turns -> Statuses \X (Turns \cup {None})]
<1> USE CodexAssumption
<1>1. CASE r = Boot /\ BootProceeds
    BY <1>1 DEF BootProceeds, TypeOK, turns, Final
<1>2. CASE r \in Calls /\ CallProceeds(r)
    BY <1>2, SendRpcType DEF CallProceeds, TypeOK, turns, Rpcs
<1>3. CASE r \in Turns /\ TurnProceeds(r)
  <2>1. "starting" \in Statuses
    BY DEF Statuses
  <2>2. told' \in [Turns -> Statuses \X (Turns \cup {None})]
    BY <1>3, <2>1, SayType DEF TurnProceeds
  <2>3. open' \subseteq Turns /\ order' \in Seq(Turns)
    BY <1>3 DEF TurnProceeds, TypeOK
  <2> QED BY <1>3, <2>2, <2>3, SendRpcType DEF TurnProceeds, TypeOK, Rpcs
<1>4. CASE r \in Stops /\ StopProceeds(r)
  <2>1. About[r] \in Turns /\ byTurnId[About[r]] \in Turns \cup {None} /\ "interrupting" \in Statuses
    BY <1>4 DEF TypeOK, Statuses
  <2>2. told' \in [Turns -> Statuses \X (Turns \cup {None})]
    BY <1>4, <2>1, SayType DEF StopProceeds, TypeOK
  <2> QED BY <1>4, <2>2, SendRpcType DEF StopProceeds, TypeOK, turns, Rpcs
<1>5. CASE r \in Decisions /\ DecisionProceeds(r)
  <2> DEFINE id == askId[About[r]]
             turn == approvals[id]
             message == [kind |-> "decision", of |-> About[r], id |-> id]
  <2>1. About[r] \in Turns /\ id \in Ids /\ turn \in Turns \cup {None}
    BY <1>5 DEF TypeOK
  <2>2. message \in Orders
    BY <2>1 DEF Orders
  <2>3. UNCHANGED <<pending, home, open, order, turnId, byTurnId, told>>
    BY <1>5 DEF DecisionProceeds
  <2>4. CASE turn = None
    <3>1. phase' = [phase EXCEPT ![r] = "failed"] /\ UNCHANGED <<stdin, broken, approvals, approvalIds>>
      BY <1>5, <2>4 DEF DecisionProceeds
    <3>2. phase' \in [Requests -> {"absent", "idle", "starting", "sent"} \cup Final]
      BY <3>1 DEF TypeOK, Final
    <3> QED BY <2>3, <3>1, <3>2 DEF TypeOK
  <2>5. CASE turn # None
    <3>1. stdin' \in [Processes -> Seq(Orders)] /\ broken' \in {"no", "yes"}
      BY <1>5, <2>2, <2>5, WriteType DEF DecisionProceeds
    <3>2. /\ phase' = [phase EXCEPT ![r] = "done"]
          /\ approvals' = [approvals EXCEPT ![id] = None]
          /\ approvalIds' = [approvalIds EXCEPT ![turn] = @ \ {id}]
      BY <1>5, <2>5 DEF DecisionProceeds
    <3> QED BY <2>1, <2>3, <2>5, <3>1, <3>2 DEF TypeOK, Final
  <2> QED BY <2>4, <2>5
<1> QED BY <1>1, <1>2, <1>3, <1>4, <1>5 DEF Proceed

LEMMA FailuresType == ASSUME TypeOK, NEW n \in Nat PROVE Failures(n) \in 0 .. Threshold
    BY CodexAssumption DEF TypeOK, Failures

LEMMA FinalizeType ==
    ASSUME TypeOK, NEW t \in Turns, NEW u \in Turns, NEW how \in Final, Finalize(t, u, how)
    PROVE  /\ open' \subseteq Turns /\ order' \in Seq(Turns)
           /\ turnId' \in [Turns -> Turns \cup {None}] /\ byTurnId' \in [Turns -> Turns \cup {None}]
           /\ approvals' \in [Ids -> Turns \cup {None}] /\ approvalIds' \in [Turns -> SUBSET Ids]
           /\ phase' \in [Requests -> {"absent", "idle", "starting", "sent"} \cup Final]
           /\ failures' \in 0 .. Threshold
           /\ told' \in [Turns -> Statuses \X (Turns \cup {None})]
<1> USE CodexAssumption
<1>1. "ended" \in Statuses
    BY DEF Statuses
<1>2. told' \in [Turns -> Statuses \X (Turns \cup {None})]
    BY <1>1, SayType DEF Finalize
<1>3. phase' \in [Requests -> {"absent", "idle", "starting", "sent"} \cup Final]
    BY DEF Finalize, TypeOK
<1>4. failures' \in 0 .. Threshold
    BY DEF Finalize, TypeOK
<1> QED BY <1>2, <1>3, <1>4 DEF Finalize, TypeOK

LEMMA AttachType ==
    ASSUME TypeOK, NEW t \in Turns, NEW u \in Turns, AttachTurnId(t, u)
    PROVE  turnId' \in [Turns -> Turns \cup {None}] /\ byTurnId' \in [Turns -> Turns \cup {None}]
    BY DEF TypeOK, AttachTurnId

\* A line of output keeps the types.
LEMMA ReadLineType ==
    ASSUME TypeOK, AskInv, NEW p \in Processes, ReadLine(p)
    PROVE  TypeOK'
<1> USE CodexAssumption
<1> DEFINE line == Head(stdout[p])
<1>1. /\ line \in Lines /\ line = stdout[p][1] /\ 1 \in DOMAIN stdout[p]
      /\ stdout' = [stdout EXCEPT ![p] = Tail(@)] /\ stdout' \in [Processes -> Seq(Lines)]
      /\ reading' \in Processes \cup {None}
      /\ UNCHANGED <<child, work, askId, starting, home, fallback, applied>>
    BY DEF ReadLine, TypeOK
<1>2. CASE line.kind \in {"reply", "error"} /\ Response(line)
  <2>1. line \in [kind : {"reply", "error"}, of : Rpcs \cup Processes]
    BY <1>1, <1>2 DEF Lines
  <2>2. reactions' \in Seq([kind : {"reply", "error"}, of : Rpcs \cup Processes])
    <3>1. CASE line.of \in pending
      <4>1. reactions' = Append(reactions, line)
        BY <1>2, <3>1 DEF Response
      <4>2. reactions \in Seq([kind : {"reply", "error"}, of : Rpcs \cup Processes])
        BY DEF TypeOK
      <4> QED BY <2>1, <4>1, <4>2, QueueFacts
    <3>2. CASE line.of \notin pending
      BY <1>2, <3>2 DEF Response, TypeOK
    <3> QED BY <3>1, <3>2
  <2>3. pending' \subseteq pending /\ UNCHANGED <<stdin, phase, turns, report, told, shown, broken>>
    BY <1>2 DEF Response
  <2> QED BY <1>1, <2>2, <2>3 DEF TypeOK, turns, report, starting
<1>3. CASE line.kind \in {"started", "delta", "ask", "done"}
  <2> DEFINE u == line.of
  <2>1. u \in Turns
    BY <1>1, <1>3 DEF Lines
  <2>2. CASE TurnStarted(u)
    <3>1. turnId' \in [Turns -> Turns \cup {None}] /\ byTurnId' \in [Turns -> Turns \cup {None}]
      <4>1. CASE UNCHANGED <<turnId, byTurnId>>
        BY <4>1 DEF TypeOK
      <4>2. CASE \E i \in WithoutId(Thread[u]) : AttachTurnId(order[i], u)
        <5>1. PICK i \in WithoutId(Thread[u]) : AttachTurnId(order[i], u)
          BY <4>2
        <5>2. order[i] \in Turns
          BY <5>1 DEF WithoutId, TypeOK
        <5> QED BY <2>1, <5>1, <5>2, AttachType
      <4> QED BY <2>2, <4>1, <4>2 DEF TurnStarted
    <3> QED BY <1>1, <2>2, <3>1 DEF TurnStarted, TypeOK, report, starting
  <2>3. CASE Delta(u)
    <3>1. "streaming" \in Statuses /\ byTurnId[u] \in Turns \cup {None}
      BY <2>1 DEF Statuses, TypeOK
    <3>2. told' \in [Turns -> Statuses \X (Turns \cup {None})]
      BY <2>1, <2>3, <3>1, SayType DEF Delta, TypeOK
    <3> QED BY <1>1, <2>3, <3>2 DEF Delta, TypeOK, turns, report, starting
  <2>4. CASE line.kind = "done" /\ TurnCompleted(u)
    <3>1. CASE byTurnId[u] = None
      BY <1>1, <2>4, <3>1 DEF TurnCompleted, TypeOK, turns, report, starting
    <3>2. CASE byTurnId[u] # None
      <4>1. byTurnId[u] \in Turns /\ Finalize(byTurnId[u], u, "done") /\ "done" \in Final
        BY <2>1, <2>4, <3>2 DEF TurnCompleted, TypeOK, Final
      <4> HIDE DEF u
      <4> QED BY <1>1, <2>1, <2>4, <4>1, FinalizeType DEF TurnCompleted, TypeOK, starting
    <3> QED BY <3>1, <3>2
  <2>5. CASE line.kind = "ask" /\ ApprovalRequested(u)
    <3> DEFINE id == askId[u]
               t == byTurnId[u]
               message == [kind |-> "decision", of |-> u, id |-> id]
    <3>1. id \in Ids /\ t \in Turns \cup {None}
      BY <1>1, <2>1, <2>5 DEF AskInv, TypeOK
    <3>2. message \in Orders
      BY <2>1, <3>1 DEF Orders
    <3>3. UNCHANGED <<pending, phase, open, order, turnId, byTurnId, reactions, health, failures>>
      BY <2>5 DEF ApprovalRequested, report
    <3>4. CASE t = None
      <4>1. stdin' \in [Processes -> Seq(Orders)] /\ broken' \in {"no", "yes"}
        <5>1. CASE current = None
          BY <2>5, <3>4, <5>1 DEF ApprovalRequested, TypeOK
        <5>2. CASE current # None
          BY <2>5, <3>2, <3>4, <5>2, WriteType DEF ApprovalRequested, TypeOK
        <5> QED BY <5>1, <5>2
      <4>2. UNCHANGED <<approvals, approvalIds, told, shown>>
        BY <2>5, <3>4 DEF ApprovalRequested
      <4> QED BY <1>1, <3>3, <4>1, <4>2 DEF TypeOK, starting
    <3>5. CASE t # None
      <4>1. /\ approvals' = [approvals EXCEPT ![id] = t]
            /\ approvalIds' = [approvalIds EXCEPT ![t] = @ \cup {id}]
            /\ Say(t, "asked", u)
            /\ shown' = shown \cup {u}
            /\ UNCHANGED <<stdin, broken>>
        BY <2>5, <3>5 DEF ApprovalRequested
      <4>2. "asked" \in Statuses
        BY DEF Statuses
      <4>3. told' \in [Turns -> Statuses \X (Turns \cup {None})]
        BY <2>1, <3>1, <3>5, <4>1, <4>2, SayType
      <4>4. /\ approvals' \in [Ids -> Turns \cup {None}] /\ approvalIds' \in [Turns -> SUBSET Ids]
            /\ shown' \subseteq Turns
        BY <2>1, <3>1, <3>5, <4>1 DEF TypeOK
      <4> QED BY <1>1, <3>3, <4>1, <4>3, <4>4 DEF TypeOK, starting
    <3> QED BY <3>4, <3>5
  <2> QED BY <1>3, <2>2, <2>3, <2>4, <2>5 DEF ReadLine
<1> QED BY <1>2, <1>3 DEF ReadLine

\* A reaction keeps the types.
LEMMA ReactType ==
    ASSUME TypeOK, ProcessInv, AskInv, React
    PROVE  TypeOK'
<1> USE CodexAssumption
<1> DEFINE who == Head(reactions).of
           kind == Head(reactions).kind
<1>1. /\ who \in Rpcs \cup Processes /\ who = reactions[1].of /\ 1 \in DOMAIN reactions
      /\ kind \in {"reply", "error"}
      /\ reactions' = Tail(reactions)
      /\ reactions' \in Seq([kind : {"reply", "error"}, of : Rpcs \cup Processes])
      /\ UNCHANGED <<child, stdout, work, askId, current, reading, history>>
  <2>1. /\ reactions \in Seq([kind : {"reply", "error"}, of : Rpcs \cup Processes])
        /\ reactions # <<>> /\ reactions' = Tail(reactions)
        /\ UNCHANGED <<child, stdout, work, askId, current, reading, history>>
    BY DEF React, TypeOK
  <2>2. /\ Head(reactions) = reactions[1] /\ 1 \in DOMAIN reactions
        /\ Head(reactions) \in [kind : {"reply", "error"}, of : Rpcs \cup Processes]
        /\ reactions' \in Seq([kind : {"reply", "error"}, of : Rpcs \cup Processes])
    BY <2>1, QueueFacts
  <2> QED BY <2>1, <2>2
<1> HIDE DEF who, kind
<1>2. CASE who \in Processes /\ (Initialized(who) \/ InitializeRefused(who))
  <2> DEFINE r == Starter(who)
  <2>1. current \in Processes /\ r \in Requests /\ phase[r] = "starting"
    BY <1>1, <1>2 DEF ProcessInv, HasStarter, Starter, TypeOK
  <2> HIDE DEF r
  <2>2. CASE Initialized(who)
    <3>1. Proceed(r) /\ started' = "yes" /\ health' = "available" /\ UNCHANGED <<failures, fallback>>
      BY <2>2 DEF Initialized, r
    <3>2. r \in Decisions => askId[About[r]] # None
      BY <2>1 DEF AskInv
    <3> QED BY <1>1, <2>1, <3>1, <3>2, ProceedType DEF TypeOK, history
  <2>3. CASE InitializeRefused(who)
    <3>1. phase' \in [Requests -> {"absent", "idle", "starting", "sent"} \cup Final]
      BY <2>1, <2>3 DEF InitializeRefused, TypeOK, Final, r
    <3> QED BY <1>1, <2>3, <3>1 DEF InitializeRefused, TypeOK, history, turns
  <2> QED BY <1>2, <2>2, <2>3
<1>3. CASE who \in Calls /\ CallAnswered(who, kind)
  <2>1. failures' \in 0 .. Threshold
    BY <1>3, FailuresType DEF CallAnswered, TypeOK
  <2>2. phase' \in [Requests -> {"absent", "idle", "starting", "sent"} \cup Final]
    BY <1>3 DEF CallAnswered, TypeOK, Final
  <2> QED BY <1>1, <1>3, <2>1, <2>2 DEF CallAnswered, TypeOK, history, turns
<1>4. CASE who \in Turns /\ TurnAcknowledged(who, kind)
  <2>0. UNCHANGED <<stdin, broken, started, pending, home, order, approvals, approvalIds, fallback,
                    health>>
    BY <1>4 DEF TurnAcknowledged
  <2>1. CASE kind = "reply"
    <3>1. UNCHANGED <<open, phase, failures>>
      BY <1>4, <2>1 DEF TurnAcknowledged
    <3>2. CASE who \in open
      <4>1. AttachTurnId(who, who) /\ Say(who, "starting", who) /\ "starting" \in Statuses
        BY <1>4, <2>1, <3>2 DEF TurnAcknowledged, Statuses
      <4> QED BY <1>1, <1>4, <2>0, <3>1, <4>1, AttachType, SayType DEF TypeOK, history
    <3>3. CASE who \notin open
      <4>1. UNCHANGED <<turnId, byTurnId, told>>
        BY <1>4, <2>1, <3>3 DEF TurnAcknowledged
      <4> QED BY <1>1, <2>0, <3>1, <4>1 DEF TypeOK, history
    <3> QED BY <3>2, <3>3
  <2>2. CASE kind # "reply"
    <3>0. /\ phase' = [phase EXCEPT ![who] = IF @ \in Final THEN @ ELSE "failed"]
          /\ failures' = IF phase[who] \in Final THEN failures ELSE Failures(1)
      BY <1>4, <2>2 DEF TurnAcknowledged
    <3>1. failures' \in 0 .. Threshold
      BY <3>0, FailuresType DEF TypeOK
    <3>2. phase' \in [Requests -> {"absent", "idle", "starting", "sent"} \cup Final]
      BY <3>0 DEF TypeOK, Final
    <3>3. open' \subseteq Turns /\ UNCHANGED <<turnId, byTurnId, told>>
      BY <1>4, <2>2 DEF TurnAcknowledged, TypeOK
    <3> QED BY <1>1, <2>0, <3>1, <3>2, <3>3 DEF TypeOK, history
  <2> QED BY <2>1, <2>2
<1>5. CASE who \in Stops /\ StopAcknowledged(who, kind)
  <2>1. phase' \in [Requests -> {"absent", "idle", "starting", "sent"} \cup Final]
    BY <1>5 DEF StopAcknowledged, TypeOK, Final
  <2>2. fallback' \subseteq Turns
    BY <1>5 DEF StopAcknowledged, TypeOK
  <2> QED BY <1>1, <1>5, <2>1, <2>2 DEF StopAcknowledged, TypeOK, history, turns, report
<1> QED BY <1>2, <1>3, <1>4, <1>5 DEF React, who, kind

\* A request that arrives keeps the types.
LEMMA ArrivalType ==
    ASSUME TypeOK, ProcessInv, AskInv, NEW r \in Requests,
           CommandMissing(r) \/ HandleWhenStarted(r) \/ HandleWhenNotStarted(r)
    PROVE  TypeOK'
<1> USE CodexAssumption
<1>1. CASE CommandMissing(r)
    BY <1>1 DEF CommandMissing, TypeOK, Final, codex, starting, turns, loop, history
<1>2. CASE HandleWhenStarted(r)
  <2>1. /\ Proceed(r) /\ current \in Processes
        /\ UNCHANGED <<child, stdout, work, askId, starting, fallback, reading, reactions, report,
                       history>>
    BY <1>2 DEF HandleWhenStarted, ProcessInv, TypeOK
  <2>2. r \in Decisions => askId[About[r]] # None
    BY <1>2 DEF HandleWhenStarted, MayArrive, AskInv
  <2> QED BY <2>1, <2>2, ProceedType DEF TypeOK, starting, report, history
<1>3. CASE HandleWhenNotStarted(r)
  <2>1. PICK p \in Processes : child[p] = "free" /\ Spawn(r, p)
    BY <1>3 DEF HandleWhenNotStarted
  <2>2. [kind |-> "request", of |-> p] \in Orders
    BY DEF Orders
  <2>3. <<[kind |-> "request", of |-> p]>> \in Seq(Orders)
    BY <2>2
  <2>4. /\ child' \in [Processes -> {"free", "running", "failed", "ended", "gone"}]
        /\ stdin' \in [Processes -> Seq(Orders)]
        /\ health' \in {"unknown", "available", "unavailable"}
    <3>1. CASE child' = [child EXCEPT ![p] = "running"]
               /\ stdin' = [stdin EXCEPT ![p] = <<[kind |-> "request", of |-> p]>>]
               /\ UNCHANGED health
      BY <2>3, <3>1 DEF TypeOK
    <3>2. CASE child' = [child EXCEPT ![p] = "failed"] /\ health' = "unavailable" /\ UNCHANGED stdin
      BY <3>2 DEF TypeOK
    <3> QED BY <2>1, <3>1, <3>2 DEF Spawn
  <2>5. /\ current' \in Processes \cup {None} /\ pending' \subseteq Rpcs \cup Processes
        /\ phase' \in [Requests -> {"absent", "idle", "starting", "sent"} \cup Final]
        /\ home' \in [Requests -> Processes \cup {None}]
    BY <2>1 DEF Spawn, TypeOK
  <2> QED BY <1>3, <2>4, <2>5 DEF HandleWhenNotStarted, TypeOK, turns, loop, history
<1> QED BY <1>1, <1>2, <1>3

\* The exit of a process, the end of the agent and the fallback timer keep the types.
LEMMA EndType ==
    ASSUME TypeOK, (\E p \in Processes : Exits(p)) \/ Dies \/ (\E u \in Turns : FallbackFires(u))
    PROVE  TypeOK'
<1> USE CodexAssumption
<1>1. ASSUME NEW p \in Processes, Exits(p) PROVE TypeOK'
  <2>1. failures' \in 0 .. Threshold
    <3> DEFINE lost == {r \in Calls \cup Turns : r \in Rejected /\ phase[r] = "sent"}
    <3>1. failures' = Failures(Cardinality(lost))
      BY <1>1 DEF Exits
    <3>2. IsFiniteSet(Calls \cup Turns) /\ lost \subseteq Calls \cup Turns
      BY FS_Union
    <3>3. Cardinality(lost) \in Nat
      BY <3>2, FS_Subset, FS_CardinalityType
    <3> QED BY <3>1, <3>3, FailuresType
  <2>2. phase' \in [Requests -> {"absent", "idle", "starting", "sent"} \cup Final]
    BY <1>1 DEF Exits, TypeOK, Final
  <2>3. order' \in Seq(Turns)
    BY <1>1 DEF Exits
  <2> QED BY <1>1, <2>1, <2>2, <2>3 DEF Exits, TypeOK, loop, history
<1>2. CASE Dies
  <2>1. phase' \in [Requests -> {"absent", "idle", "starting", "sent"} \cup Final]
    BY <1>2 DEF Dies, TypeOK, Final
  <2>2. /\ child' \in [Processes -> {"free", "running", "failed", "ended", "gone"}]
        /\ stdin' \in [Processes -> Seq(Orders)] /\ stdout' \in [Processes -> Seq(Lines)]
        /\ work' \in [Turns -> {"none", "running", "waiting", "over", "refused"}]
    BY <1>2 DEF Dies, TypeOK
  <2>3. /\ order' \in Seq(Turns) /\ reactions' \in Seq([kind : {"reply", "error"}, of : Rpcs \cup Processes])
        /\ failures' \in 0 .. Threshold
    BY <1>2 DEF Dies
  <2> QED BY <1>2, <2>1, <2>2, <2>3 DEF Dies, TypeOK, history
<1>3. ASSUME NEW u \in Turns, FallbackFires(u) PROVE TypeOK'
  <2>1. CASE byTurnId[u] = None
    BY <1>3, <2>1 DEF FallbackFires, TypeOK, codex, starting, turns, loop, history
  <2>2. CASE byTurnId[u] # None
    <3>1. byTurnId[u] \in Turns /\ Finalize(byTurnId[u], u, "interrupted") /\ "interrupted" \in Final
      BY <1>3, <2>2 DEF FallbackFires, TypeOK, Final
    <3> QED BY <1>3, <3>1, FinalizeType DEF FallbackFires, TypeOK, codex, starting, loop, history
  <2> QED BY <2>1, <2>2
<1> QED BY <1>1, <1>2, <1>3

\* The lines that Codex emits.
LEMMA EmitsType ==
    ASSUME TypeOK, NEW p \in Processes \cup {None}, NEW lines \in Seq(Lines), Emits(p, lines)
    PROVE  /\ stdout' \in [Processes -> Seq(Lines)]
           /\ \A q \in Processes : \A i \in DOMAIN stdout'[q] :
                 \/ i \in DOMAIN stdout[q] /\ stdout'[q][i] = stdout[q][i]
                 \/ q = p /\ i - Len(stdout[p]) \in DOMAIN lines
                    /\ stdout'[q][i] = lines[i - Len(stdout[p])]
<1>1. CASE p \in Processes
  <2>1. stdout[p] \in Seq(Lines) /\ stdout' = [stdout EXCEPT ![p] = stdout[p] \o lines]
    BY <1>1 DEF Emits, TypeOK
  <2>2. stdout[p] \o lines \in Seq(Lines)
    BY <2>1
  <2> QED BY <1>1, <2>1, <2>2 DEF TypeOK
<1>2. CASE p \notin Processes
  <2>1. stdout' = stdout
    BY <1>2 DEF Emits, TypeOK
  <2> QED BY <2>1 DEF TypeOK
<1> QED BY <1>1, <1>2

\* A process takes an order, works, asks or ends: the types are kept, the agent has not moved, and
\* what it will read as a question has an id.
LEMMA CodexStep ==
    ASSUME TypeOK, AskInv,
           \/ \E p \in Processes : CodexTakes(p) \/ Ends(p)
           \/ \E t \in Turns : Streams(t) \/ Asks(t) \/ Finishes(t)
    PROVE  /\ TypeOK' /\ AskInv'
           /\ UNCHANGED <<starting, pending, phase, home, turns, fallback, loop, report, told>>
           /\ \A p \in Processes : child'[p] # child[p] => child'[p] = "ended"
<1> USE CodexAssumption, IdsAreNumbers
<1>1. ASSUME NEW p \in Processes, CodexTakes(p)
      PROVE  /\ TypeOK' /\ AskInv'
             /\ UNCHANGED <<child, starting, pending, phase, home, turns, fallback, loop, report, told>>
  <2> DEFINE message == Head(stdin[p])
             who == message.of
  <2>1. /\ message \in Orders /\ stdin' \in [Processes -> Seq(Orders)]
        /\ UNCHANGED <<child, askId, starting, pending, phase, home, turns, fallback, loop, report,
                       told, shown>>
    BY <1>1 DEF CodexTakes, TypeOK
  <2>2. /\ stdout' \in [Processes -> Seq(Lines)]
        /\ work' \in [Turns -> {"none", "running", "waiting", "over", "refused"}]
        /\ applied' \in [Turns -> Turns \cup {None}]
        /\ \A q \in Processes : \A i \in DOMAIN stdout'[q] : stdout'[q][i].kind = "ask" =>
              i \in DOMAIN stdout[q] /\ stdout'[q][i] = stdout[q][i]
    <3>1. CASE message.kind = "request"
      <4>0. CodexAnswers(p, who)
        BY <1>1, <3>1 DEF CodexTakes
      <4>1. who \in Rpcs \cup Processes
        BY <2>1, <3>1 DEF Orders
      <4> HIDE DEF who, message
      <4>2. Line("error", who) \in Lines /\ Line("reply", who) \in Lines
            /\ (who \in Turns => Line("started", who) \in Lines)
        BY <4>1 DEF Line, Lines
      <4>3. UNCHANGED applied
        BY <4>0 DEF CodexAnswers
      <4>4. /\ work' \in [Turns -> {"none", "running", "waiting", "over", "refused"}]
            /\ \E lines \in Seq(Lines) : Emits(p, lines) /\ \A i \in DOMAIN lines : lines[i].kind # "ask"
        <5>1. CASE Emits(p, <<Line("error", who)>>)
                   /\ work' = [t \in Turns |-> IF t = who THEN "refused" ELSE work[t]]
          <6>1. /\ <<Line("error", who)>> \in Seq(Lines)
                /\ \A i \in DOMAIN <<Line("error", who)>> : <<Line("error", who)>>[i].kind # "ask"
            BY <4>2 DEF Line
          <6>2. work' \in [Turns -> {"none", "running", "waiting", "over", "refused"}]
            BY <5>1 DEF TypeOK
          <6> QED BY <5>1, <6>1, <6>2
        <5>2. CASE Emits(p, <<Line("reply", who)>>) /\ UNCHANGED work
          <6>1. /\ <<Line("reply", who)>> \in Seq(Lines)
                /\ \A i \in DOMAIN <<Line("reply", who)>> : <<Line("reply", who)>>[i].kind # "ask"
            BY <4>2 DEF Line
          <6>2. work' \in [Turns -> {"none", "running", "waiting", "over", "refused"}]
            BY <5>2 DEF TypeOK
          <6> QED BY <5>2, <6>1, <6>2
        <5>3. CASE /\ \/ Emits(p, <<Line("reply", who), Line("started", who)>>)
                      \/ Emits(p, <<Line("started", who), Line("reply", who)>>)
                   /\ who \in Turns /\ work' = [work EXCEPT ![who] = "running"]
          <6>1. \A a, b \in {Line("reply", who), Line("started", who)} :
                   /\ <<a, b>> \in Seq(Lines)
                   /\ \A i \in DOMAIN <<a, b>> : <<a, b>>[i].kind # "ask"
            BY <4>2, <5>3 DEF Line
          <6>2. work' \in [Turns -> {"none", "running", "waiting", "over", "refused"}]
            BY <5>3 DEF TypeOK
          <6> QED BY <5>3, <6>1, <6>2
        <5>4. \/ /\ Emits(p, <<Line("error", who)>>)
                 /\ work' = [t \in Turns |-> IF t = who THEN "refused" ELSE work[t]]
              \/ Emits(p, <<Line("reply", who)>>) /\ UNCHANGED work
              \/ /\ \/ Emits(p, <<Line("reply", who), Line("started", who)>>)
                    \/ Emits(p, <<Line("started", who), Line("reply", who)>>)
                 /\ who \in Turns /\ work' = [work EXCEPT ![who] = "running"]
          BY <4>0 DEF CodexAnswers
        <5> QED BY <5>1, <5>2, <5>3, <5>4
      <4>5. PICK lines \in Seq(Lines) : Emits(p, lines) /\ \A i \in DOMAIN lines : lines[i].kind # "ask"
        BY <4>4
      <4>6. /\ stdout' \in [Processes -> Seq(Lines)]
            /\ \A q \in Processes : \A i \in DOMAIN stdout'[q] :
                 \/ i \in DOMAIN stdout[q] /\ stdout'[q][i] = stdout[q][i]
                 \/ q = p /\ i - Len(stdout[p]) \in DOMAIN lines
                    /\ stdout'[q][i] = lines[i - Len(stdout[p])]
        BY <4>5, EmitsType
      <4>7. applied' \in [Turns -> Turns \cup {None}]
        BY <4>3 DEF TypeOK
      <4> QED BY <4>4, <4>5, <4>6, <4>7
    <3>2. CASE message.kind = "decision"
      <4>1. who \in Turns
        BY <2>1, <3>2 DEF Orders
      <4>2. PICK asking \in SUBSET Turns :
               /\ work' = [t \in Turns |-> IF t \in asking THEN "running" ELSE work[t]]
               /\ applied' = [t \in Turns |-> IF t \in asking THEN who ELSE applied[t]]
               /\ UNCHANGED stdout
        BY <1>1, <3>2 DEF CodexTakes, CodexGoesOn
      <4> QED BY <4>1, <4>2 DEF TypeOK
    <3> QED BY <2>1, <3>1, <3>2 DEF Orders
  <2> HIDE DEF message, who
  <2>3. TypeOK'
    BY <2>1, <2>2 DEF TypeOK, starting, turns, loop, report
  <2>4. AskInv'
    BY <2>1, <2>2 DEF AskInv
  <2> QED BY <2>1, <2>3, <2>4
<1>2. ASSUME NEW t \in Turns, Streams(t) \/ Finishes(t) \/ Asks(t)
      PROVE  /\ TypeOK' /\ AskInv'
             /\ UNCHANGED <<child, starting, pending, phase, home, turns, fallback, loop, report, told>>
  <2>1. /\ Line("delta", t) \in Lines /\ Line("done", t) \in Lines /\ Line("ask", t) \in Lines
        /\ Line("ask", t).of = t /\ Line("delta", t).kind # "ask" /\ Line("done", t).kind # "ask"
    BY DEF Line, Lines
  <2>2. PICK line \in Lines :
           /\ Emits(home[t], <<line>>)
           /\ line.kind = "ask" => line.of = t /\ Asks(t)
    BY <1>2, <2>1 DEF Streams, Finishes, Asks
  <2>3. /\ UNCHANGED <<child, stdin, starting, pending, phase, home, turns, fallback, loop, report,
                       told, history>>
        /\ work' \in [Turns -> {"none", "running", "waiting", "over", "refused"}]
    BY <1>2 DEF Streams, Finishes, Asks, CodexOnly, TypeOK
  <2>4. /\ askId' \in [Turns -> Ids \cup {None}]
        /\ \A u \in Turns : askId[u] # None => askId'[u] # None
        /\ Asks(t) => askId'[t] # None
    <3>1. CASE Asks(t)
      <4> DEFINE before == {u \in Turns : home[u] = home[t] /\ askId[u] # None}
      <4>1. before \subseteq Turns /\ before # Turns /\ IsFiniteSet(Turns)
        BY <3>1 DEF Asks
      <4>2. IsFiniteSet(before) /\ Cardinality(before) \in Nat /\ Cardinality(before) < Cardinality(Turns)
        BY <4>1, FS_Subset, FS_CardinalityType
      <4>3. Cardinality(before) \in Ids
        BY <4>2 DEF Ids
      <4>4. askId' = [askId EXCEPT ![t] = Cardinality(before)]
        BY <3>1 DEF Asks
      <4> QED BY <4>3, <4>4 DEF TypeOK
    <3>2. CASE ~Asks(t)
      BY <1>2, <3>2 DEF Streams, Finishes, TypeOK
    <3> QED BY <3>1, <3>2
  <2>5. /\ stdout' \in [Processes -> Seq(Lines)]
        /\ \A q \in Processes : \A i \in DOMAIN stdout'[q] :
              \/ i \in DOMAIN stdout[q] /\ stdout'[q][i] = stdout[q][i]
              \/ stdout'[q][i] = line
    <3>1. <<line>> \in Seq(Lines) /\ \A i \in DOMAIN <<line>> : <<line>>[i] = line
      OBVIOUS
    <3>2. home[t] \in Processes \cup {None}
      BY DEF TypeOK, Requests, Rpcs
    <3>3. Emits(home[t], <<line>>)
      BY <2>2
    <3>4. /\ stdout' \in [Processes -> Seq(Lines)]
          /\ \A q \in Processes : \A i \in DOMAIN stdout'[q] :
                \/ i \in DOMAIN stdout[q] /\ stdout'[q][i] = stdout[q][i]
                \/ q = home[t] /\ i - Len(stdout[home[t]]) \in DOMAIN <<line>>
                   /\ stdout'[q][i] = <<line>>[i - Len(stdout[home[t]])]
      BY <3>1, <3>2, <3>3, EmitsType
    <3> QED BY <3>1, <3>4
  <2>6. TypeOK'
    BY <2>3, <2>4, <2>5 DEF TypeOK, starting, turns, loop, report, history
  <2>7. AskInv'
    <3>1. \A p \in Processes : \A i \in DOMAIN stdout'[p] :
            stdout'[p][i].kind = "ask" => askId'[stdout'[p][i].of] # None
      <4> SUFFICES ASSUME NEW p \in Processes, NEW i \in DOMAIN stdout'[p], stdout'[p][i].kind = "ask"
                   PROVE  askId'[stdout'[p][i].of] # None
        OBVIOUS
      <4>1. stdout'[p][i] \in Lines
        BY <2>5
      <4>2. stdout'[p][i].of \in Turns
        BY <4>1 DEF Lines
      <4> QED BY <2>2, <2>4, <2>5, <4>2 DEF AskInv
    <3>2. \A u \in Turns : u \in shown' => askId'[u] # None
      BY <2>3, <2>4 DEF AskInv, history
    <3>3. \A d \in Decisions : phase'[d] = "starting" => askId'[About[d]] # None
      BY <2>3, <2>4 DEF AskInv
    <3> QED BY <2>6, <3>1, <3>2, <3>3 DEF AskInv, TypeOK
  <2> QED BY <2>3, <2>6, <2>7
<1>3. ASSUME NEW p \in Processes, Ends(p)
      PROVE  /\ TypeOK' /\ AskInv' /\ \A q \in Processes : child'[q] # child[q] => child'[q] = "ended"
             /\ UNCHANGED <<starting, pending, phase, home, turns, fallback, loop, report, told>>
  <2>1. TypeOK'
    BY <1>3 DEF Ends, TypeOK, starting, turns, loop, report, history
  <2>2. \A q \in Processes : child'[q] # child[q] => child'[q] = "ended"
    BY <1>3 DEF Ends, TypeOK
  <2> QED BY <1>3, <2>1, <2>2 DEF Ends, AskInv, history
<1>4. CASE \E p \in Processes : Ends(p)
  <2>1. PICK p \in Processes : Ends(p)
    BY <1>4
  <2> QED BY <1>3, <2>1
<1> QED BY <1>1, <1>2, <1>4

(***************************************************************************)
(* The other invariants.                                                   *)
(***************************************************************************)
\* What the call of the client does to who waits: only the request itself is concerned, it is then
\* sent or settled, and what it waits for is the current process.
LEMMA ProceedEffect ==
    ASSUME TypeOK, NEW r \in Requests, Proceed(r)
    PROVE  /\ pending \subseteq pending' /\ pending' \subseteq pending \cup ({r} \cap Rpcs)
           /\ open' \subseteq open \cup ({r} \cap Turns)
           /\ \A s \in Requests : s # r => phase'[s] = phase[s] /\ home'[s] = home[s]
           /\ phase'[r] \in {"sent", "done", "failed"}
           /\ r \in Rpcs => phase'[r] = "sent" /\ home'[r] = current
           /\ byTurnId' = byTurnId
<1> USE CodexAssumption DEF Rpcs, Requests
<1>1. CASE r = Boot /\ BootProceeds
    BY <1>1 DEF BootProceeds, TypeOK, turns
<1>2. CASE /\ r \in Rpcs /\ SendRpc(r) /\ byTurnId' = byTurnId
           /\ open' \subseteq open \cup ({r} \cap Turns)
  <2>1. /\ pending' = pending \cup {r} /\ phase' = [phase EXCEPT ![r] = "sent"]
        /\ home' = [home EXCEPT ![r] = current]
    BY <1>2 DEF SendRpc
  <2> QED BY <1>2, <2>1 DEF TypeOK
<1>3. CASE r \in Decisions /\ DecisionProceeds(r)
  <2>1. /\ UNCHANGED <<pending, home, open, byTurnId>>
        /\ phase' \in {[phase EXCEPT ![r] = "failed"], [phase EXCEPT ![r] = "done"]}
    BY <1>3 DEF DecisionProceeds
  <2>2. phase'[r] \in {"done", "failed"} /\ \A s \in Requests : s # r => phase'[s] = phase[s]
    BY <2>1 DEF TypeOK
  <2> QED BY <1>3, <2>1, <2>2
<1> QED BY <1>1, <1>2, <1>3 DEF Proceed, CallProceeds, TurnProceeds, StopProceeds, turns

\* A request that arrives while the client has started, or whose start has just succeeded, keeps
\* the invariants about who waits: it waits for the current process, which has started.
LEMMA ProceedStep ==
    ASSUME ClientInv, NEW r \in Requests, phase[r] \in {"idle", "starting"}, Proceed(r),
           current \in Processes, started' = "yes", UNCHANGED <<child, current>>,
           health' = "available" \/ UNCHANGED health,
           \A i \in DOMAIN reactions' : \E j \in DOMAIN reactions :
                /\ reactions'[i] = reactions[j]
                /\ phase[r] = "starting" => reactions[j].of # home[r],
           \A i, j \in DOMAIN reactions' : reactions'[i].of = reactions'[j].of => i = j,
           phase[r] = "starting" => home[r] \notin pending
    PROVE  ProcessInv' /\ PromiseInv' /\ WaitInv'
<1> USE CodexAssumption
<1>1. /\ pending \subseteq pending' /\ pending' \subseteq pending \cup ({r} \cap Rpcs)
      /\ open' \subseteq open \cup ({r} \cap Turns)
      /\ \A s \in Requests : s # r => phase'[s] = phase[s] /\ home'[s] = home[s]
      /\ phase'[r] \in {"sent", "done", "failed"}
      /\ r \in Rpcs => phase'[r] = "sent" /\ home'[r] = current
      /\ byTurnId' = byTurnId
    BY ProceedEffect DEF ClientInv
<1>2. /\ child[current] \notin {"free", "gone"}
      /\ \A p \in Processes : p \in pending => HasStarter(p)
      /\ \A i \in DOMAIN reactions : reactions[i].of \in Processes => HasStarter(reactions[i].of)
      /\ \A s \in Requests : phase[s] = "starting" => home[s] \in Processes /\ child[home[s]] # "free"
      /\ \A s, t \in Requests : phase[s] = "starting" /\ phase[t] = "starting" /\ home[s] = home[t]
            => s = t
    BY DEF ClientInv, ProcessInv
<1>3. \A p \in Processes : HasStarter(p) /\ (phase[r] = "starting" => p # home[r]) => HasStarter(p)'
    BY <1>1 DEF HasStarter
<1>4. \A p \in Processes : p \in pending' => HasStarter(p)'
    BY <1>1, <1>2, <1>3 DEF Rpcs, Requests
<1>5. \A i \in DOMAIN reactions' : reactions'[i].of \in Processes => HasStarter(reactions[i].of)'
    BY <1>2, <1>3
<1>6. ProcessInv'
    BY <1>1, <1>2, <1>4, <1>5 DEF ProcessInv, HasStarter
<1>7. /\ \A i \in DOMAIN reactions : reactions[i].of \in Rpcs \cup Processes /\ reactions[i].of # r
      /\ \A i \in DOMAIN reactions' : reactions'[i].of # r
  <2>1. \A i \in DOMAIN reactions : reactions[i].of \in Rpcs \cup Processes
    BY ReactionType DEF ClientInv
  <2>2. r \notin Processes /\ ~Reached(r)
    BY DEF Reached
  <2>3. \A i \in DOMAIN reactions : reactions[i].of \in Rpcs => Reached(reactions[i].of)
    BY DEF ClientInv, PromiseInv
  <2> QED BY <2>1, <2>2, <2>3
<1>8. PromiseInv'
  <2>1. /\ \A i \in DOMAIN reactions : reactions[i].of \notin pending
        /\ \A i \in DOMAIN reactions : reactions[i].of \in Rpcs => Reached(reactions[i].of)
        /\ \A s \in Calls \cup Stops : s \in pending => phase[s] = "sent"
        /\ \A i \in DOMAIN reactions : reactions[i].of \in Calls \cup Stops =>
              phase[reactions[i].of] = "sent"
    BY DEF ClientInv, PromiseInv
  <2>2. \A i \in DOMAIN reactions' : reactions'[i].of \notin pending'
    BY <1>1, <1>7, <2>1
  <2>3. \A i \in DOMAIN reactions' : reactions'[i].of \in Rpcs => Reached(reactions[i].of)'
    BY <1>1, <1>7, <2>1 DEF Reached, Requests
  <2>4. \A s \in Calls \cup Stops : s \in pending' => phase'[s] = "sent"
    BY <1>1, <2>1 DEF Rpcs, Requests
  <2>5. \A i \in DOMAIN reactions' : reactions'[i].of \in Calls \cup Stops =>
              phase'[reactions'[i].of] = "sent"
    BY <1>1, <1>7, <2>1 DEF Rpcs, Requests
  <2> QED BY <2>2, <2>3, <2>4, <2>5 DEF PromiseInv
<1>9. WaitInv'
  <2>1. \A s \in Rpcs : s # r /\ s \in pending' => s \in pending
    BY <1>1
  <2>2. \A s \in Rpcs : s # r /\ s \in open' => s \in open
    BY <1>1
  <2>3. \A s \in Rpcs : s \in pending' \/ s \in open' => home'[s] = current /\ Reached(s)'
    BY <1>1, <2>1, <2>2 DEF ClientInv, WaitInv, Reached, Requests
  <2>4. \A t \in open' : phase'[t] = "sent"
    <3>1. \A t \in open : phase[t] = "sent" /\ t \in Requests /\ t # r
      BY DEF ClientInv, WaitInv, Rpcs, Requests, TypeOK
    <3>2. \A t \in open' : t \in open \/ (t = r /\ r \in Rpcs)
      BY <1>1 DEF Rpcs
    <3> QED BY <1>1, <3>1, <3>2
  <2>5. \A u \in Turns : byTurnId'[u] # None => Reached(byTurnId[u])'
    <3>1. \A u \in Turns : byTurnId[u] # None => byTurnId[u] \in Requests /\ Reached(byTurnId[u])
      BY DEF ClientInv, WaitInv, TypeOK, Requests, Rpcs
    <3> QED BY <1>1, <3>1 DEF Reached
  <2> QED BY <2>3, <2>4, <2>5 DEF WaitInv
<1> QED BY <1>6, <1>8, <1>9

\* A request that arrives.
LEMMA ArrivalStep ==
    ASSUME ClientInv, NEW r \in Requests,
           CommandMissing(r) \/ HandleWhenStarted(r) \/ HandleWhenNotStarted(r)
    PROVE  ClientInv'
<1> USE CodexAssumption
<1>1. TypeOK'
    BY ArrivalType DEF ClientInv
<1>2. CASE CommandMissing(r)
  <2>1. /\ reactions = <<>> /\ phase[r] = "idle"
        /\ phase' = [phase EXCEPT ![r] = "failed"] /\ health' = "unavailable"
        /\ UNCHANGED <<codex, starting, pending, home, turns, loop, history>>
    BY <1>2 DEF CommandMissing, Idle, MayArrive
  <2>2. \A s \in Requests : phase'[s] # phase[s] => s = r /\ phase[s] = "idle" /\ phase'[s] = "failed"
    BY <2>1 DEF ClientInv, TypeOK
  <2>3. \A p \in Processes : HasStarter(p) => HasStarter(p)'
    BY <2>1, <2>2 DEF HasStarter
  <2>4. ProcessInv'
    BY <2>1, <2>2, <2>3 DEF ClientInv, ProcessInv, codex, starting, loop
  <2>5. PromiseInv'
    BY <2>1, <2>2 DEF ClientInv, PromiseInv, Reached, Rpcs, Requests, loop
  <2>6. WaitInv'
    <3>1. \A u \in Turns : byTurnId[u] # None => byTurnId[u] \in Requests /\ Reached(byTurnId[u])
      BY DEF ClientInv, WaitInv, TypeOK, Requests, Rpcs
    <3>2. \A s \in Requests : Reached(s) => Reached(s)'
      BY <2>2 DEF Reached
    <3>3. \A u \in Turns : byTurnId'[u] # None => Reached(byTurnId[u])'
      BY <2>1, <3>1, <3>2 DEF turns
    <3> QED BY <2>1, <2>2, <3>2, <3>3 DEF ClientInv, WaitInv, Rpcs, Requests, starting, turns, TypeOK
  <2>7. AskInv'
    BY <2>1, <2>2 DEF ClientInv, AskInv, codex, history, Requests
  <2> QED BY <1>1, <2>4, <2>5, <2>6, <2>7 DEF ClientInv
<1>3. CASE HandleWhenStarted(r)
  <2>1. /\ reactions = <<>> /\ phase[r] = "idle" /\ Proceed(r) /\ started = "yes"
        /\ r \in Decisions => About[r] \in shown
        /\ UNCHANGED <<child, stdout, work, askId, starting, fallback, reading, reactions, report,
                       history>>
    BY <1>3 DEF HandleWhenStarted, Idle, MayArrive
  <2>2. current \in Processes
    BY <2>1 DEF ClientInv, ProcessInv, TypeOK
  <2>3. ProcessInv' /\ PromiseInv' /\ WaitInv'
    BY <2>1, <2>2, ProceedStep DEF starting, report
  <2>4. AskInv'
    <3>1. \A d \in Decisions : phase'[d] = "starting" => phase[d] = "starting"
      BY <2>1, ProceedEffect DEF ClientInv, Requests
    <3> QED BY <2>1, <3>1 DEF ClientInv, AskInv, history
  <2> QED BY <1>1, <2>3, <2>4 DEF ClientInv
<1>4. CASE HandleWhenNotStarted(r)
  <2>1. PICK p \in Processes : child[p] = "free" /\ Spawn(r, p)
    BY <1>4 DEF HandleWhenNotStarted
  <2>2. /\ reactions = <<>> /\ phase[r] = "idle" /\ started = "no"
        /\ r \in Decisions => About[r] \in shown
        /\ UNCHANGED <<stdout, work, askId, started, turns, fallback, loop, failures, told, history>>
    BY <1>4 DEF HandleWhenNotStarted, Idle, MayArrive
  <2>3. /\ current' = p /\ pending' = pending \cup {p}
        /\ phase' = [phase EXCEPT ![r] = "starting"] /\ home' = [home EXCEPT ![r] = p]
        /\ child' \in {[child EXCEPT ![p] = "running"], [child EXCEPT ![p] = "failed"]}
        /\ health' = "unavailable" \/ UNCHANGED health
    BY <2>1 DEF Spawn
  <2>4. /\ phase'[r] = "starting" /\ home'[r] = p
        /\ \A s \in Requests : s # r => phase'[s] = phase[s] /\ home'[s] = home[s]
        /\ child'[p] \in {"running", "failed"}
        /\ \A q \in Processes : q # p => child'[q] = child[q]
    BY <2>3 DEF ClientInv, TypeOK
  <2>5. \A s \in Requests : phase[s] = "starting" => home[s] \in Processes /\ home[s] # p
    BY <2>1 DEF ClientInv, ProcessInv
  <2>6. \A q \in Processes : HasStarter(q) => HasStarter(q)'
    BY <2>2, <2>4 DEF HasStarter
  <2>7. HasStarter(p)'
    BY <2>4 DEF HasStarter
  <2>8. ProcessInv'
    <3>1. /\ \A q \in Processes : q \in pending' => HasStarter(q)'
          /\ reactions' = <<>> /\ p # None
          /\ health' = "available" => health = "available"
      BY <2>2, <2>3, <2>6, <2>7 DEF ClientInv, ProcessInv, loop
    <3>2. \A s, t \in Requests : phase'[s] = "starting" /\ phase'[t] = "starting" /\ home'[s] = home'[t]
            => s = t
      BY <2>4, <2>5 DEF ClientInv, ProcessInv
    <3>3. \A s \in Requests : phase'[s] = "starting" => home'[s] \in Processes /\ child'[home'[s]] # "free"
      BY <2>4, <2>5 DEF ClientInv, ProcessInv
    <3>4. started' = "no" /\ health' # "available" /\ child'[current'] \notin {"free", "gone"}
      BY <2>2, <2>3, <2>4, <3>1 DEF ClientInv, ProcessInv
    <3>5. current' # None
      BY <2>3
    <3> QED BY <3>1, <3>2, <3>3, <3>4, <3>5 DEF ProcessInv
  <2>9. \A s \in Rpcs : s \notin pending' /\ s \notin open'
    BY <2>2, <2>3 DEF ClientInv, WaitInv, turns, Requests
  <2>10. PromiseInv'
    BY <2>2, <2>3, <2>9 DEF PromiseInv, loop, Rpcs
  <2>11. WaitInv'
    <3>1. \A u \in Turns : byTurnId[u] # None =>
            byTurnId[u] \in Requests /\ byTurnId[u] # r /\ Reached(byTurnId[u])
      BY <2>2 DEF ClientInv, WaitInv, TypeOK, Requests, Rpcs, Reached
    <3>2. \A u \in Turns : byTurnId'[u] # None => Reached(byTurnId[u])'
      BY <2>2, <2>4, <3>1 DEF turns, Reached
    <3> QED BY <1>1, <2>9, <3>2 DEF WaitInv, TypeOK, Rpcs
  <2>12. AskInv'
    <3>1. \A d \in Decisions : phase'[d] = "starting" => phase[d] = "starting" \/ About[d] \in shown
      BY <2>2, <2>4 DEF Requests
    <3> QED BY <2>2, <3>1 DEF ClientInv, AskInv, history
  <2> QED BY <1>1, <2>8, <2>10, <2>11, <2>12 DEF ClientInv
<1> QED BY <1>2, <1>3, <1>4

\* The exit of a process and the end of the agent leave nobody waiting.
LEMMA EndStep ==
    ASSUME ClientInv, (\E p \in Processes : Exits(p)) \/ Dies
    PROVE  ClientInv'
<1> USE CodexAssumption
<1>1. TypeOK'
    BY EndType DEF ClientInv
<1>2. /\ current' = None /\ started' = "no" /\ health' # "available"
      /\ pending' = {} /\ open' = {} /\ reactions' = <<>> /\ UNCHANGED <<home, askId, shown>>
    BY DEF Exits, Dies, Idle, loop, history
<1>3. \A p \in Processes : child[p] # "free" => child'[p] # "free"
    BY DEF Exits, Dies, ClientInv, TypeOK
<1>4. \A r \in Requests : phase'[r] = "starting" => phase[r] = "starting"
  <2>1. CASE \E p \in Processes : Exits(p)
    BY <2>1 DEF Exits
  <2>2. CASE Dies
    BY <2>2 DEF Dies
  <2> QED BY <2>1, <2>2
<1>5. \A p \in Processes : stdout'[p] \in {stdout[p], <<>>}
  <2>1. CASE \E p \in Processes : Exits(p)
    <3>1. stdout' = stdout
      BY <2>1 DEF Exits
    <3> QED BY <3>1
  <2>2. CASE Dies
    <3>1. stdout' = [p \in Processes |-> <<>>]
      BY <2>2 DEF Dies
    <3> QED BY <3>1
  <2> QED BY <2>1, <2>2
<1>6. ProcessInv'
    BY <1>2, <1>3, <1>4 DEF ClientInv, ProcessInv
<1>7. PromiseInv' /\ WaitInv'
  <2>1. \A u \in Turns : byTurnId'[u] = None
    BY DEF Exits, Dies
  <2> QED BY <1>2, <2>1 DEF PromiseInv, WaitInv
<1>8. AskInv'
    BY <1>2, <1>4, <1>5 DEF ClientInv, AskInv, Requests
<1> QED BY <1>1, <1>6, <1>7, <1>8 DEF ClientInv

\* The end of a pending turn, however it comes: the turn has been sent.
LEMMA FinalizeStep ==
    ASSUME ClientInv, NEW u \in Turns, NEW how \in Final, byTurnId[u] # None,
           Finalize(byTurnId[u], u, how)
    PROVE  /\ open' \subseteq open
           /\ \A v \in Turns : byTurnId'[v] \in {byTurnId[v], None}
           /\ \A r \in Requests : phase'[r] # phase[r] => r \in Turns /\ Reached(r) /\ phase'[r] \in Final
           /\ \A t \in open' : phase'[t] = phase[t]
<1> DEFINE t == byTurnId[u]
<1>1. t \in Turns /\ Reached(t)
    BY DEF ClientInv, WaitInv, TypeOK
<1>2. /\ open' = open \ {t} /\ byTurnId' = [byTurnId EXCEPT ![u] = None]
      /\ phase' = [phase EXCEPT ![t] = IF @ \in Final THEN @ ELSE how]
    BY DEF Finalize
<1> HIDE DEF t
<1> QED BY <1>1, <1>2 DEF ClientInv, TypeOK

\* A step of the agent that starts, sends and settles nothing, and that ends only what was sent.
LEMMA QuietStep ==
    ASSUME ClientInv, TypeOK', AskInv', open' \subseteq open, pending' \subseteq pending,
           UNCHANGED <<home, starting, health, child>>,
           \A r \in Requests : phase'[r] # phase[r] => r \in Turns /\ Reached(r) /\ phase'[r] \in Final,
           \A t \in open' : phase'[t] = phase[t],
           \A u \in Turns : byTurnId'[u] # None => Reached(byTurnId'[u]),
           \A i \in DOMAIN reactions' :
               \/ i \in DOMAIN reactions /\ reactions'[i] = reactions[i]
               \/ i = Len(reactions) + 1 /\ reactions'[i].of \in pending \ pending'
    PROVE  ClientInv'
<1> USE CodexAssumption
<1>1. /\ \A r \in Requests : Reached(r) => phase'[r] \notin {"absent", "idle", "starting"}
      /\ \A r \in Calls \cup Stops \cup Decisions \cup {Boot} : phase'[r] = phase[r]
      /\ \A r \in Requests : (phase'[r] = "starting") <=> (phase[r] = "starting")
    BY DEF Reached, Requests, Rpcs, Final
<1>2. \A p \in Processes : HasStarter(p) => HasStarter(p)'
    BY <1>1 DEF HasStarter
<1>3. \A i \in DOMAIN reactions : reactions[i].of \in Rpcs \cup Processes
    BY ReactionType DEF ClientInv
<1>4. pending \subseteq Rpcs \cup Processes
    BY DEF ClientInv, TypeOK
<1>5. \A i \in DOMAIN reactions' :
        /\ reactions'[i].of \notin pending'
        /\ reactions'[i].of \in Rpcs => Reached(reactions'[i].of)
        /\ reactions'[i].of \in Calls \cup Stops => phase[reactions'[i].of] = "sent"
        /\ reactions'[i].of \in Processes => current # None /\ HasStarter(reactions'[i].of)
    BY DEF ClientInv, PromiseInv, WaitInv, ProcessInv
<1>6. ProcessInv'
  <2>1. \A i \in DOMAIN reactions' : reactions'[i].of \in Processes =>
            current' # None /\ HasStarter(reactions[i].of)'
    BY <1>2, <1>5 DEF starting
  <2>2. \A p \in Processes : p \in pending' => current' # None /\ HasStarter(p)'
    BY <1>2 DEF ClientInv, ProcessInv, starting
  <2> QED BY <1>1, <2>1, <2>2 DEF ClientInv, ProcessInv, starting
<1>7. PromiseInv'
  <2>1. \A i, j \in DOMAIN reactions' : reactions'[i].of = reactions'[j].of => i = j
    BY DEF ClientInv, PromiseInv
  <2>2. \A i \in DOMAIN reactions' : reactions'[i].of \in Rpcs => Reached(reactions[i].of)'
    BY <1>1, <1>5 DEF Reached, Requests
  <2>3. \A r \in Calls \cup Stops : r \in pending' => phase'[r] = "sent"
    BY <1>1 DEF ClientInv, PromiseInv
  <2>4. \A i \in DOMAIN reactions' : reactions'[i].of \in Calls \cup Stops =>
            phase'[reactions'[i].of] = "sent"
    BY <1>1, <1>5
  <2> QED BY <1>5, <2>1, <2>2, <2>3, <2>4 DEF PromiseInv
<1>8. WaitInv'
  <2>1. \A r \in Rpcs : r \in pending' \/ r \in open' => started = "yes" /\ home[r] = current /\ Reached(r)
    BY DEF ClientInv, WaitInv
  <2>2. \A r \in Rpcs : r \in pending' \/ r \in open' =>
            started' = "yes" /\ home'[r] = current' /\ Reached(r)'
    BY <1>1, <2>1 DEF starting, Reached, Requests
  <2>3. \A t \in open' : phase'[t] = "sent"
    BY DEF ClientInv, WaitInv
  <2>4. \A u \in Turns : byTurnId'[u] # None => Reached(byTurnId[u])'
    <3>1. \A u \in Turns : byTurnId'[u] # None => byTurnId'[u] \in Requests
      BY DEF TypeOK, Requests, Rpcs
    <3> QED BY <1>1, <3>1 DEF Reached
  <2> QED BY <2>2, <2>3, <2>4 DEF WaitInv
<1> QED BY <1>6, <1>7, <1>8 DEF ClientInv

\* A line of output.
LEMMA ReadLineStep ==
    ASSUME ClientInv, NEW p \in Processes, ReadLine(p)
    PROVE  ClientInv'
<1> USE CodexAssumption
<1> DEFINE line == Head(stdout[p])
           u == line.of
<1>1. TypeOK'
    BY ReadLineType DEF ClientInv
<1>2. /\ stdout[p] \in Seq(Lines) /\ stdout[p] # <<>>
      /\ line \in Lines /\ line = stdout[p][1] /\ 1 \in DOMAIN stdout[p]
      /\ \A i \in DOMAIN Tail(stdout[p]) :
            i + 1 \in DOMAIN stdout[p] /\ Tail(stdout[p])[i] = stdout[p][i + 1]
  <2>1. stdout[p] \in Seq(Lines) /\ stdout[p] # <<>>
    BY DEF ReadLine, ClientInv, TypeOK
  <2> QED BY <2>1, QueueFacts
<1>3. /\ stdout' = [stdout EXCEPT ![p] = Tail(@)]
      /\ UNCHANGED <<child, work, askId, starting, home, fallback, applied>>
      /\ \/ line.kind \in {"reply", "error"} /\ Response(line)
         \/ line.kind = "started" /\ TurnStarted(u)
         \/ line.kind = "delta" /\ Delta(u)
         \/ line.kind = "ask" /\ ApprovalRequested(u)
         \/ line.kind = "done" /\ TurnCompleted(u)
    BY DEF ReadLine
<1>4. line.kind \in {"started", "delta", "ask", "done"} => u \in Turns
    BY <1>2 DEF Lines
<1>5. line.kind = "ask" => askId[u] # None
    BY <1>2 DEF ClientInv, AskInv
<1> HIDE DEF line, u
<1>6. /\ open' \subseteq open /\ pending' \subseteq pending /\ health' = health
      /\ \A r \in Requests : phase'[r] # phase[r] => r \in Turns /\ Reached(r) /\ phase'[r] \in Final
      /\ \A t \in open' : phase'[t] = phase[t]
      /\ \A v \in Turns : byTurnId'[v] # None => Reached(byTurnId'[v])
      /\ shown' \subseteq shown \cup (IF line.kind = "ask" THEN {u} ELSE {})
      /\ line.kind \in {"reply", "error"} \/ reactions' = reactions
  <2>0. \A v \in Turns : byTurnId[v] # None => Reached(byTurnId[v])
    BY DEF ClientInv, WaitInv
  <2>1. CASE line.kind \in {"reply", "error"} /\ Response(line)
    BY <2>0, <2>1 DEF Response, turns, report
  <2>2. CASE line.kind = "started" /\ TurnStarted(u)
    <3>1. \A v \in Turns : byTurnId'[v] # None => Reached(byTurnId'[v])
      <4>1. CASE UNCHANGED byTurnId
        BY <2>0, <4>1
      <4>2. CASE \E i \in WithoutId(Thread[u]) : AttachTurnId(order[i], u)
        <5>1. PICK i \in WithoutId(Thread[u]) : AttachTurnId(order[i], u)
          BY <4>2
        <5>2. order[i] \in open /\ Reached(order[i])
          BY <5>1 DEF WithoutId, ClientInv, WaitInv, Reached
        <5>3. byTurnId' \in {byTurnId, [byTurnId EXCEPT ![u] = order[i]]}
          BY <5>1 DEF AttachTurnId
        <5> QED BY <2>0, <5>2, <5>3 DEF ClientInv, TypeOK
      <4> QED BY <2>2, <4>1, <4>2 DEF TurnStarted
    <3> QED BY <2>2, <3>1 DEF TurnStarted, report
  <2>3. CASE line.kind = "delta" /\ Delta(u)
    BY <2>0, <2>3 DEF Delta, turns, report
  <2>4. CASE line.kind = "ask" /\ ApprovalRequested(u)
    <3>1. /\ UNCHANGED <<pending, phase, open, byTurnId, reactions, health>>
          /\ shown' \subseteq shown \cup {u}
      BY <2>4 DEF ApprovalRequested, report
    <3> QED BY <2>0, <2>4, <3>1
  <2>5. CASE line.kind = "done" /\ TurnCompleted(u)
    <3>1. UNCHANGED <<pending, reactions, health, shown>>
      BY <2>5 DEF TurnCompleted
    <3>2. CASE byTurnId[u] = None
      BY <2>0, <2>5, <3>1, <3>2 DEF TurnCompleted, turns
    <3>3. CASE byTurnId[u] # None
      <4>1. u \in Turns /\ Finalize(byTurnId[u], u, "done") /\ "done" \in Final
        BY <1>4, <2>5, <3>3 DEF TurnCompleted, Final
      <4>2. /\ open' \subseteq open
            /\ \A v \in Turns : byTurnId'[v] \in {byTurnId[v], None}
            /\ \A r \in Requests : phase'[r] # phase[r] =>
                  r \in Turns /\ Reached(r) /\ phase'[r] \in Final
            /\ \A t \in open' : phase'[t] = phase[t]
        BY <3>3, <4>1, FinalizeStep
      <4> QED BY <2>0, <3>1, <4>2
    <3> QED BY <3>2, <3>3
  <2> QED BY <1>3, <2>1, <2>2, <2>3, <2>4, <2>5
<1>7. \A i \in DOMAIN reactions' :
          \/ i \in DOMAIN reactions /\ reactions'[i] = reactions[i]
          \/ i = Len(reactions) + 1 /\ reactions'[i].of \in pending \ pending'
  <2>1. CASE reactions' = reactions
    BY <2>1
  <2>2. CASE line.kind \in {"reply", "error"} /\ reactions' # reactions
    <3>1. reactions' = Append(reactions, line) /\ line.of \in pending \ pending'
      BY <1>3, <2>2 DEF Response
    <3>2. reactions \in Seq([kind : {"reply", "error"}, of : Rpcs \cup Processes])
      BY DEF ClientInv, TypeOK
    <3> QED BY <3>1, <3>2
  <2> QED BY <1>6, <2>1, <2>2
<1>8. AskInv'
  <2>1. \A q \in Processes : \A i \in DOMAIN stdout'[q] :
            stdout'[q][i].kind = "ask" => askId'[stdout'[q][i].of] # None
    <3>1. \A q \in Processes : \A i \in DOMAIN stdout'[q] :
             \E j \in DOMAIN stdout[q] : stdout'[q][i] = stdout[q][j]
      BY <1>2, <1>3 DEF ClientInv, TypeOK
    <3> QED BY <1>3, <3>1 DEF ClientInv, AskInv
  <2>2. \A t \in shown' : askId'[t] # None
    BY <1>3, <1>5, <1>6 DEF ClientInv, AskInv
  <2>3. \A d \in Decisions : phase'[d] = "starting" => phase[d] = "starting"
    BY <1>6 DEF Final, Requests
  <2> QED BY <1>3, <2>1, <2>2, <2>3 DEF ClientInv, AskInv
<1> QED BY <1>1, <1>3, <1>6, <1>7, <1>8, QuietStep DEF starting

\* The interrupt fallback.
LEMMA FallbackStep ==
    ASSUME ClientInv, NEW u \in Turns, FallbackFires(u)
    PROVE  ClientInv'
<1>1. TypeOK'
    BY EndType DEF ClientInv
<1>2. UNCHANGED <<codex, starting, pending, home, loop, health, history>>
    BY DEF FallbackFires
<1>3. /\ open' \subseteq open
      /\ \A v \in Turns : byTurnId'[v] \in {byTurnId[v], None}
      /\ \A r \in Requests : phase'[r] # phase[r] => r \in Turns /\ Reached(r) /\ phase'[r] \in Final
      /\ \A t \in open' : phase'[t] = phase[t]
  <2>1. CASE byTurnId[u] = None
    BY <2>1 DEF FallbackFires, turns
  <2>2. CASE byTurnId[u] # None
    <3>1. Finalize(byTurnId[u], u, "interrupted") /\ "interrupted" \in Final
      BY <2>2 DEF FallbackFires, Final
    <3> QED BY <2>2, <3>1, FinalizeStep
  <2> QED BY <2>1, <2>2
<1>4. \A v \in Turns : byTurnId'[v] # None => Reached(byTurnId'[v])
    BY <1>3 DEF ClientInv, WaitInv
<1>5. \A d \in Decisions : phase'[d] = "starting" => phase[d] = "starting"
    BY <1>3, CodexAssumption DEF Requests
<1>6. AskInv'
    BY <1>2, <1>5 DEF ClientInv, AskInv, codex, history
<1> QED BY <1>1, <1>2, <1>3, <1>4, <1>6, QuietStep DEF codex, loop

\* A step of Codex.
LEMMA CodexSideStep ==
    ASSUME ClientInv,
           \/ \E p \in Processes : CodexTakes(p) \/ Ends(p)
           \/ \E t \in Turns : Streams(t) \/ Asks(t) \/ Finishes(t)
    PROVE  ClientInv'
<1>1. /\ TypeOK' /\ AskInv'
      /\ UNCHANGED <<starting, pending, phase, home, turns, fallback, loop, report, told>>
      /\ \A p \in Processes : child'[p] # child[p] => child'[p] = "ended"
    BY CodexStep DEF ClientInv
<1>2. \A p \in Processes : HasStarter(p) => HasStarter(p)'
    BY <1>1 DEF HasStarter
<1>3. ProcessInv'
    BY <1>1, <1>2 DEF ClientInv, ProcessInv, TypeOK, starting, loop, report
<1>4. PromiseInv' /\ WaitInv'
    BY <1>1 DEF ClientInv, PromiseInv, WaitInv, Reached, starting, turns, loop
<1> QED BY <1>1, <1>3, <1>4 DEF ClientInv

\* A reaction that settles one request, and starts and sends nothing.
LEMMA SettleStep ==
    ASSUME ClientInv, TypeOK', reactions # <<>>, reactions' = Tail(reactions), NEW r \in Requests,
           \/ reactions[1].of = r
           \/ reactions[1].of \in Processes /\ phase[r] = "starting" /\ home[r] = reactions[1].of,
           UNCHANGED <<home, started, current, child, pending>>,
           health' \in {health, "unavailable"}, open' \subseteq open,
           \A s \in Requests : phase'[s] # phase[s] => s = r /\ phase'[s] \in Final,
           \A t \in open' : phase'[t] = phase[t],
           \A u \in Turns : byTurnId'[u] # None => Reached(byTurnId'[u])
    PROVE  ProcessInv' /\ PromiseInv' /\ WaitInv'
<1> USE CodexAssumption
<1> DEFINE who == reactions[1].of
<1>1. \A i \in DOMAIN reactions' : i + 1 \in DOMAIN reactions /\ reactions'[i] = reactions[i + 1]
    BY QueueFacts DEF ClientInv, TypeOK
<1>2. /\ 1 \in DOMAIN reactions /\ who \notin pending
      /\ \A i \in DOMAIN reactions' : reactions[i + 1].of # who
    BY <1>1 DEF ClientInv, PromiseInv, TypeOK
<1>3. \A i \in DOMAIN reactions : reactions[i].of \in Rpcs \cup Processes
    BY ReactionType DEF ClientInv
<1> HIDE DEF who
<1>4. \A s \in Requests : Reached(s) => phase'[s] \notin {"absent", "idle", "starting"}
    BY DEF Reached, Final
<1>5. \A p \in Processes : p # who /\ HasStarter(p) => HasStarter(p)'
  <2> SUFFICES ASSUME NEW p \in Processes, p # who, HasStarter(p) PROVE HasStarter(p)'
    OBVIOUS
  <2>1. PICK s \in Requests : phase[s] = "starting" /\ home[s] = p
    BY DEF HasStarter
  <2>2. s # r
    BY <1>2, <1>3, <2>1 DEF who, ClientInv, PromiseInv, Reached, Requests
  <2> QED BY <2>1, <2>2 DEF HasStarter
<1>6. ProcessInv'
  <2>1. \A i \in DOMAIN reactions' : reactions'[i].of \in Processes =>
            current' # None /\ HasStarter(reactions[i].of)'
    BY <1>1, <1>2, <1>5 DEF ClientInv, ProcessInv
  <2>2. \A p \in Processes : p \in pending' => current' # None /\ HasStarter(p)'
    BY <1>2, <1>5 DEF ClientInv, ProcessInv
  <2>3. \A s \in Requests : phase'[s] = "starting" => phase[s] = "starting"
    BY DEF Final
  <2> QED BY <2>1, <2>2, <2>3 DEF ClientInv, ProcessInv
<1>7. PromiseInv'
  <2>1. \A i, j \in DOMAIN reactions' : reactions'[i].of = reactions'[j].of => i = j
    <3>1. \A i, j \in DOMAIN reactions' : i \in Int /\ j \in Int
      BY DEF TypeOK
    <3>2. \A i, j \in DOMAIN reactions : reactions[i].of = reactions[j].of => i = j
      BY DEF ClientInv, PromiseInv
    <3> QED BY <1>1, <3>1, <3>2
  <2>2. \A i \in DOMAIN reactions' : reactions'[i].of \in Rpcs => Reached(reactions[i].of)'
    BY <1>1, <1>4 DEF ClientInv, PromiseInv, Reached, Requests
  <2>3. \A s \in Calls \cup Stops : s \in pending => s \in Requests /\ s # r
    BY <1>2, <1>3 DEF who, ClientInv, PromiseInv, Requests, Rpcs
  <2>4. \A s \in Calls \cup Stops : s \in pending' => phase'[s] = "sent"
    BY <2>3 DEF ClientInv, PromiseInv
  <2>5. \A i \in DOMAIN reactions' : reactions'[i].of \in Calls \cup Stops =>
            phase'[reactions'[i].of] = "sent"
    <3> SUFFICES ASSUME NEW i \in DOMAIN reactions', reactions'[i].of \in Calls \cup Stops
                 PROVE  phase'[reactions'[i].of] = "sent"
      OBVIOUS
    <3>1. reactions'[i].of \in Requests /\ reactions'[i].of = reactions[i + 1].of
      BY <1>1 DEF Requests, Rpcs
    <3>2. phase[reactions[i + 1].of] = "sent"
      BY <1>1, <3>1 DEF ClientInv, PromiseInv
    <3>3. reactions[i + 1].of # r
      BY <1>2, <3>1, <3>2 DEF who
    <3> QED BY <3>1, <3>2, <3>3
  <2>6. \A i \in DOMAIN reactions' : reactions'[i].of \notin pending'
    BY <1>1 DEF ClientInv, PromiseInv
  <2> QED BY <2>1, <2>2, <2>4, <2>5, <2>6 DEF PromiseInv
<1>8. WaitInv'
  <2>1. \A s \in Rpcs : s \in pending' \/ s \in open' =>
            started' = "yes" /\ home'[s] = current' /\ Reached(s)'
    BY <1>4 DEF ClientInv, WaitInv, Reached, Requests
  <2>2. \A t \in open' : phase'[t] = "sent"
    BY DEF ClientInv, WaitInv
  <2>3. \A u \in Turns : byTurnId'[u] # None => Reached(byTurnId[u])'
    <3>1. \A u \in Turns : byTurnId'[u] # None => byTurnId'[u] \in Requests
      BY DEF TypeOK, Requests, Rpcs
    <3> QED BY <1>4, <3>1 DEF Reached
  <2> QED BY <2>1, <2>2, <2>3 DEF WaitInv
<1> QED BY <1>6, <1>7, <1>8

\* A reaction of a settled promise.
LEMMA ReactStep ==
    ASSUME ClientInv, React
    PROVE  ClientInv'
<1> USE CodexAssumption
<1> DEFINE who == reactions[1].of
           kind == reactions[1].kind
<1>1. TypeOK'
    BY ReactType DEF ClientInv
<1>2. /\ reactions # <<>> /\ reactions' = Tail(reactions) /\ 1 \in DOMAIN reactions
      /\ UNCHANGED <<child, stdout, work, askId, current, reading, history>>
      /\ \/ who \in Processes /\ Initialized(who)
         \/ who \in Processes /\ InitializeRefused(who)
         \/ who \in Calls /\ CallAnswered(who, kind)
         \/ who \in Turns /\ TurnAcknowledged(who, kind)
         \/ who \in Stops /\ StopAcknowledged(who, kind)
  <2>1. reactions \in Seq([kind : {"reply", "error"}, of : Rpcs \cup Processes]) /\ reactions # <<>>
    BY DEF React, ClientInv, TypeOK
  <2>2. Head(reactions) = reactions[1] /\ 1 \in DOMAIN reactions
    BY <2>1, QueueFacts
  <2> QED BY <2>1, <2>2 DEF React
<1> HIDE DEF kind
<1>3. \A u \in Turns : byTurnId[u] # None => Reached(byTurnId[u])
    BY DEF ClientInv, WaitInv
<1>4. ASSUME ProcessInv' /\ PromiseInv' /\ WaitInv',
             \A d \in Decisions : phase'[d] = "starting" => phase[d] = "starting"
      PROVE  ClientInv'
    BY <1>1, <1>2, <1>4 DEF ClientInv, AskInv, history
<1>5. CASE who \in Processes
  <2> DEFINE r == Starter(who)
  <2>1. /\ r \in Requests /\ phase[r] = "starting" /\ home[r] = who /\ current \in Processes
        /\ who \notin pending
    BY <1>2, <1>5 DEF ClientInv, ProcessInv, PromiseInv, HasStarter, Starter, TypeOK
  <2> HIDE DEF r
  <2>2. CASE Initialized(who)
    <3>1. Proceed(r) /\ started' = "yes" /\ health' = "available"
      BY <2>2 DEF Initialized, r
    <3>2. /\ \A i \in DOMAIN reactions' : \E j \in DOMAIN reactions :
                /\ reactions'[i] = reactions[j]
                /\ phase[r] = "starting" => reactions[j].of # home[r]
          /\ \A i, j \in DOMAIN reactions' : reactions'[i].of = reactions'[j].of => i = j
      <4>1. \A i \in DOMAIN reactions' : i \in Nat /\ i # 0
        BY <1>1 DEF TypeOK
      <4>2. \A i \in DOMAIN reactions' : i + 1 \in DOMAIN reactions /\ reactions'[i] = reactions[i + 1]
        BY <1>2, QueueFacts DEF ClientInv, TypeOK
      <4>3. \A i, j \in DOMAIN reactions : reactions[i].of = reactions[j].of => i = j
        BY DEF ClientInv, PromiseInv
      <4> QED BY <1>2, <2>1, <4>1, <4>2, <4>3
    <3>3. ProcessInv' /\ PromiseInv' /\ WaitInv'
      BY <1>2, <2>1, <3>1, <3>2, ProceedStep
    <3>4. \A d \in Decisions : phase'[d] = "starting" => phase[d] = "starting"
      BY <2>1, <3>1, ProceedEffect DEF ClientInv, Requests
    <3> QED BY <1>4, <3>3, <3>4
  <2>3. CASE InitializeRefused(who)
    <3>1. /\ phase' = [phase EXCEPT ![r] = "failed"]
          /\ health' = "unavailable" /\ UNCHANGED <<started, pending, home, turns>>
      BY <2>3 DEF InitializeRefused, r
    <3>2. \A s \in Requests : phase'[s] # phase[s] => s = r /\ phase'[s] \in Final
      BY <2>1, <3>1 DEF ClientInv, TypeOK, Final
    <3>3. \A t \in open' : phase'[t] = phase[t]
      BY <2>1, <3>1, <3>2 DEF turns, ClientInv, WaitInv, TypeOK, Requests, Rpcs
    <3>4. ProcessInv' /\ PromiseInv' /\ WaitInv'
      BY <1>1, <1>2, <1>3, <1>5, <2>1, <3>1, <3>2, <3>3, SettleStep DEF turns
    <3> QED BY <1>4, <3>2, <3>4 DEF Final, Requests
  <2> QED BY <1>2, <1>5, <2>2, <2>3 DEF Rpcs, Requests
<1>6. CASE who \in Rpcs
  <2>0. who \in Requests /\ Reached(who)
    BY <1>2, <1>6 DEF ClientInv, PromiseInv, Requests
  <2>1. /\ UNCHANGED <<home, started, pending>> /\ health' = health /\ open' \subseteq open
        /\ \A s \in Requests : phase'[s] # phase[s] => s = who /\ phase'[s] \in Final
        /\ \A t \in open' : phase'[t] = phase[t]
        /\ \A u \in Turns : byTurnId'[u] # None => Reached(byTurnId'[u])
    <3>1. CASE who \in Calls \cup Stops
      <4>1. /\ UNCHANGED <<home, started, pending, open, byTurnId, health>>
            /\ phase' \in {[phase EXCEPT ![who] = "done"], [phase EXCEPT ![who] = "failed"]}
        BY <1>2, <3>1 DEF CallAnswered, StopAcknowledged, turns, report, Requests, Rpcs
      <4>2. open \subseteq Turns /\ who \notin Turns
        BY <3>1 DEF ClientInv, TypeOK
      <4> QED BY <1>3, <2>0, <4>1, <4>2 DEF ClientInv, TypeOK, Final, Requests, Rpcs
    <3>2. CASE who \in Turns
      <4>1. TurnAcknowledged(who, kind) /\ UNCHANGED <<home, started, pending, health>>
        BY <1>2, <3>2 DEF TurnAcknowledged, Requests, Rpcs
      <4>2. CASE kind = "reply"
        <5>1. UNCHANGED <<open, phase>> /\ \/ UNCHANGED byTurnId
                                           \/ who \in open /\ AttachTurnId(who, who)
          BY <4>1, <4>2 DEF TurnAcknowledged
        <5>2. byTurnId' = byTurnId \/ byTurnId' = [byTurnId EXCEPT ![who] = who]
          BY <5>1 DEF AttachTurnId
        <5> QED BY <1>3, <2>0, <4>1, <5>1, <5>2 DEF ClientInv, TypeOK
      <4>3. CASE kind # "reply"
        <5>1. /\ open' = open \ {who} /\ UNCHANGED byTurnId
              /\ phase' = [phase EXCEPT ![who] = IF @ \in Final THEN @ ELSE "failed"]
          BY <4>1, <4>3 DEF TurnAcknowledged
        <5> QED BY <1>3, <2>0, <4>1, <5>1 DEF ClientInv, TypeOK, Final, Requests, Rpcs
      <4> QED BY <4>2, <4>3
    <3> QED BY <1>6, <3>1, <3>2 DEF Rpcs
  <2>2. ProcessInv' /\ PromiseInv' /\ WaitInv'
    BY <1>1, <1>2, <2>0, <2>1, SettleStep
  <2> QED BY <1>4, <2>1, <2>2 DEF Final, Requests
<1> QED BY <1>2, <1>5, <1>6 DEF Rpcs

LEMMA ClientInvStep == ClientInv /\ [Next]_vars => ClientInv'
<1> SUFFICES ASSUME ClientInv, [Next]_vars PROVE ClientInv'
    OBVIOUS
<1>1. CASE \E r \in Requests : CommandMissing(r) \/ HandleWhenStarted(r) \/ HandleWhenNotStarted(r)
    BY <1>1, ArrivalStep
<1>2. CASE (\E p \in Processes : Exits(p)) \/ Dies
    BY <1>2, EndStep
<1>3. CASE \E p \in Processes : ReadLine(p)
    BY <1>3, ReadLineStep
<1>4. CASE \/ \E p \in Processes : CodexTakes(p) \/ Ends(p)
           \/ \E t \in Turns : Streams(t) \/ Asks(t) \/ Finishes(t)
    BY <1>4, CodexSideStep
<1>5. CASE React
    BY <1>5, ReactStep
<1>6. CASE \E t \in Turns : FallbackFires(t)
    BY <1>6, FallbackStep
<1>7. CASE UNCHANGED vars
  <2> USE <1>7 DEF vars, codex, starting, turns, loop, report, history
  <2>1. TypeOK'
    BY DEF ClientInv, TypeOK
  <2>2. \A p \in Processes : HasStarter(p)' = HasStarter(p)
    BY DEF HasStarter
  <2>3. ProcessInv'
    BY <2>2 DEF ClientInv, ProcessInv, HasStarter
  <2>4. PromiseInv' /\ WaitInv'
    BY DEF ClientInv, PromiseInv, WaitInv, Reached
  <2>5. AskInv'
    BY DEF ClientInv, AskInv
  <2> QED BY <2>1, <2>3, <2>4, <2>5 DEF ClientInv
<1> QED BY <1>1, <1>2, <1>3, <1>4, <1>5, <1>6, <1>7 DEF Next

\* The inductive invariant of the client, of runServeCommand's handlers and of the health they
\* report: types, who starts a process, who waits for it, and what is settled.
THEOREM ClientSafety == Spec => []ClientInv
<1>1. Init => ClientInv
    BY ClientInvInit
<1> QED BY <1>1, ClientInvStep, PTL DEF Spec

\* However many processes are started side by side, exit and are replaced, whoever waits for a
\* response or for the end of a turn waits for the current process: its exit will reject the wait.
THEOREM NobodyWaitsForTheDead == Spec => []WaitersAreOnCurrent
<1>1. ClientInv => WaitersAreOnCurrent
    BY DEF ClientInv, WaitInv, ProcessInv, WaitersAreOnCurrent
<1> QED BY <1>1, ClientSafety, PTL

\* Codex is reported available only while an initialised process is there whose exit has not been
\* handled.
THEOREM HealthIsHonest == Spec => []HonestHealth
<1>1. ClientInv => HonestHealth
    BY DEF ClientInv, ProcessInv, HonestHealth
<1> QED BY <1>1, ClientSafety, PTL

(***************************************************************************)
(* The refinement, while the turns of a thread follow each other.          *)
(***************************************************************************)
\* Codex has begun to work on a turn.
Begun(t) == work[t] \notin {"none", "refused"}

IsRequest(message, t) == message.kind = "request" /\ message.of = t

\* What a line, or the promise that it settles, says of a turn.
SaysSo(line) ==
    /\ line.kind \in {"reply", "started"} /\ line.of \in Turns => Begun(line.of)
    /\ line.kind = "error" /\ line.of \in Turns => work[line.of] = "refused"

\* Turns: a turn is asked for once and refused or begun, its id is its own and known only while it
\* is pending.
TurnInv ==
    /\ \A t \in Turns : ~Reached(t) => work[t] = "none"
    /\ \A u \in Turns : byTurnId[u] # None => byTurnId[u] = u /\ u \in open /\ Begun(u)
    /\ \A p \in Processes : \A i \in DOMAIN stdin[p] : \A t \in Turns :
            IsRequest(stdin[p][i], t) => Reached(t) /\ work[t] = "none"
    /\ \A p, q \in Processes : \A i \in DOMAIN stdin[p], j \in DOMAIN stdin[q] : \A t \in Turns :
            IsRequest(stdin[p][i], t) /\ IsRequest(stdin[q][j], t) => p = q /\ i = j
    /\ \A p \in Processes : \A i \in DOMAIN stdout[p] : SaysSo(stdout[p][i])
    /\ \A i \in DOMAIN reactions : SaysSo(reactions[i])

LEMMA TurnInvInit == Init => TurnInv
<1> USE CodexAssumption
<1>1. ASSUME Init PROVE \A p \in Processes : DOMAIN stdin[p] = {} /\ DOMAIN stdout[p] = {}
    BY <1>1 DEF Init
<1>2. ASSUME Init PROVE DOMAIN reactions = {}
    BY <1>2 DEF Init
<1> QED BY <1>1, <1>2 DEF Init, TurnInv

\* What the agent writes: orders are added at the end, a request for a turn by that turn only, and
\* none is written twice.
LEMMA WriteStep ==
    ASSUME ClientInv, TurnInv, current \in Processes, NEW message \in Orders, Write(message),
           UNCHANGED work,
           \A t \in Turns : Reached(t) => Reached(t)',
           \A t \in Turns : IsRequest(message, t) => ~Reached(t) /\ Reached(t)'
    PROVE  /\ \A p \in Processes : \A i \in DOMAIN stdin'[p] : \A t \in Turns :
                 IsRequest(stdin'[p][i], t) => Reached(t)' /\ work'[t] = "none"
           /\ \A p, q \in Processes : \A i \in DOMAIN stdin'[p], j \in DOMAIN stdin'[q] : \A t \in Turns :
                 IsRequest(stdin'[p][i], t) /\ IsRequest(stdin'[q][j], t) => p = q /\ i = j
<1> DEFINE n == Len(stdin[current]) + 1
<1>1. \A p \in Processes : stdin[p] \in Seq(Orders)
    BY DEF ClientInv, TypeOK
<1>2. \A p \in Processes : \A i \in DOMAIN stdin'[p] :
          \/ i \in DOMAIN stdin[p] /\ stdin'[p][i] = stdin[p][i]
          \/ p = current /\ i = n /\ stdin'[p][i] = message
  <2>1. CASE stdin' = stdin
    BY <2>1
  <2>2. CASE stdin' = [stdin EXCEPT ![current] = Append(@, message)]
    BY <1>1, <2>2 DEF ClientInv, TypeOK
  <2> QED BY <2>1, <2>2 DEF Write
<1> HIDE DEF n
<1> QED BY <1>2 DEF TurnInv, IsRequest

\* The call that a handler makes.
LEMMA ProceedTurns ==
    ASSUME ClientInv, TurnInv, NEW r \in Requests, phase[r] \in {"idle", "starting"}, Proceed(r),
           current \in Processes, UNCHANGED <<work, stdout>>, r \in Decisions => askId[About[r]] # None,
           \A i \in DOMAIN reactions' : \E j \in DOMAIN reactions : reactions'[i] = reactions[j]
    PROVE  TurnInv'
<1> USE CodexAssumption
<1>1. /\ open \subseteq open' /\ byTurnId' = byTurnId
      /\ \A s \in Requests : s # r => phase'[s] = phase[s]
      /\ phase'[r] \in {"sent", "done", "failed"}
  <2>1. open \subseteq open'
    BY DEF Proceed, BootProceeds, CallProceeds, TurnProceeds, StopProceeds, DecisionProceeds, turns
  <2> QED BY <2>1, ProceedEffect DEF ClientInv
<1>2. \A t \in Turns : Reached(t) => Reached(t)'
    BY <1>1 DEF Reached, Requests, Rpcs
<1>3. \/ UNCHANGED stdin
      \/ \E message \in Orders : Write(message) /\ \A t \in Turns :
            IsRequest(message, t) => ~Reached(t) /\ Reached(t)'
  <2>1. CASE r = Boot
    BY <2>1 DEF Proceed, BootProceeds, Rpcs
  <2>2. CASE r \in Rpcs
    <3>1. Write([kind |-> "request", of |-> r])
      BY <2>2 DEF Proceed, CallProceeds, TurnProceeds, StopProceeds, SendRpc, Rpcs
    <3>2. [kind |-> "request", of |-> r] \in Orders
      BY <2>2 DEF Orders
    <3>3. \A t \in Turns : IsRequest([kind |-> "request", of |-> r], t) => ~Reached(t) /\ Reached(t)'
      BY <1>1 DEF IsRequest, Reached
    <3> QED BY <3>1, <3>2, <3>3
  <2>3. CASE r \in Decisions
    <3> DEFINE id == askId[About[r]]
               message == [kind |-> "decision", of |-> About[r], id |-> id]
    <3>1. DecisionProceeds(r)
      BY <2>3 DEF Proceed, Rpcs
    <3>2. UNCHANGED stdin \/ (approvals[id] # None /\ Write(message))
      BY <3>1 DEF DecisionProceeds
    <3>3. approvals[id] # None /\ Write(message) => message \in Orders
      <4>1. id # None
        BY <2>3
      <4> QED BY <2>3, <4>1 DEF Orders, ClientInv, TypeOK
    <3>4. \A t \in Turns : ~IsRequest(message, t)
      BY DEF IsRequest
    <3> HIDE DEF message, id
    <3> QED BY <3>2, <3>3, <3>4
  <2> QED BY <2>1, <2>2, <2>3 DEF Requests
<1>4. /\ \A p \in Processes : \A i \in DOMAIN stdin'[p] : \A t \in Turns :
             IsRequest(stdin'[p][i], t) => Reached(t)' /\ work'[t] = "none"
      /\ \A p, q \in Processes : \A i \in DOMAIN stdin'[p], j \in DOMAIN stdin'[q] : \A t \in Turns :
             IsRequest(stdin'[p][i], t) /\ IsRequest(stdin'[q][j], t) => p = q /\ i = j
  <2>1. CASE UNCHANGED stdin
    BY <1>2, <2>1 DEF TurnInv
  <2>2. CASE \E message \in Orders : Write(message) /\ \A t \in Turns :
            IsRequest(message, t) => ~Reached(t) /\ Reached(t)'
    BY <1>2, <2>2, WriteStep
  <2> QED BY <1>3, <2>1, <2>2
<1>5. \A t \in Turns : ~Reached(t)' => work'[t] = "none"
    BY <1>2 DEF TurnInv
<1>6. \A u \in Turns : byTurnId'[u] # None => byTurnId'[u] = u /\ u \in open' /\ Begun(u)'
    BY <1>1 DEF TurnInv, Begun
<1>7. /\ \A p \in Processes : \A i \in DOMAIN stdout'[p] : SaysSo(stdout[p][i])'
      /\ \A i \in DOMAIN reactions' : SaysSo(reactions[i])'
    BY DEF TurnInv, SaysSo, Begun
<1> QED BY <1>4, <1>5, <1>6, <1>7 DEF TurnInv, IsRequest

\* A request that arrives.
LEMMA ArrivalTurns ==
    ASSUME ClientInv, TurnInv, NEW r \in Requests,
           CommandMissing(r) \/ HandleWhenStarted(r) \/ HandleWhenNotStarted(r)
    PROVE  TurnInv'
<1> USE CodexAssumption
<1>1. CASE CommandMissing(r)
  <2>1. /\ phase[r] = "idle" /\ phase' = [phase EXCEPT ![r] = "failed"]
        /\ UNCHANGED <<codex, turns, loop>>
    BY <1>1 DEF CommandMissing, MayArrive
  <2>2. \A t \in Turns : Reached(t) => Reached(t)'
    BY <2>1 DEF Reached, ClientInv, TypeOK, Requests, Rpcs
  <2>3. UNCHANGED <<stdin, stdout, work, open, byTurnId, reactions>>
    BY <2>1 DEF codex, turns, loop
  <2>4. \A line : SaysSo(line) => SaysSo(line)'
    BY <2>3 DEF SaysSo, Begun
  <2> QED BY <2>2, <2>3, <2>4 DEF TurnInv, Begun, SaysSo
<1>2. CASE HandleWhenStarted(r)
  <2>1. /\ phase[r] = "idle" /\ Proceed(r) /\ current \in Processes
        /\ UNCHANGED <<work, stdout, reactions>>
    BY <1>2 DEF HandleWhenStarted, MayArrive, ClientInv, ProcessInv, TypeOK
  <2>2. r \in Decisions => askId[About[r]] # None
    BY <1>2 DEF HandleWhenStarted, MayArrive, ClientInv, AskInv
  <2> QED BY <2>1, <2>2, ProceedTurns
<1>3. CASE HandleWhenNotStarted(r)
  <2>1. PICK p \in Processes : Spawn(r, p)
    BY <1>3 DEF HandleWhenNotStarted
  <2>2. UNCHANGED <<stdout, work, open, byTurnId, reactions>>
    BY <1>3 DEF HandleWhenNotStarted, turns, loop
  <2>3. /\ phase[r] = "idle" /\ \A t \in Turns : Reached(t)' <=> Reached(t)
    BY <1>3, <2>1 DEF HandleWhenNotStarted, MayArrive, Spawn, Reached, ClientInv, TypeOK, Requests, Rpcs
  <2>4. \A q \in Processes : \A i \in DOMAIN stdin'[q] :
            \/ i \in DOMAIN stdin[q] /\ stdin'[q][i] = stdin[q][i]
            \/ stdin'[q][i].of \notin Turns
    <3>1. CASE UNCHANGED stdin
      BY <3>1
    <3>2. CASE stdin' = [stdin EXCEPT ![p] = <<[kind |-> "request", of |-> p]>>]
      BY <3>2 DEF ClientInv, TypeOK, Requests, Rpcs
    <3> QED BY <2>1, <3>1, <3>2 DEF Spawn
  <2>5. \A line : SaysSo(line) => SaysSo(line)'
    BY <2>2 DEF SaysSo, Begun
  <2> QED BY <2>2, <2>3, <2>4, <2>5 DEF TurnInv, Begun, IsRequest, SaysSo
<1> QED BY <1>1, <1>2, <1>3

\* Exits and the end of the agent.
LEMMA EndTurns ==
    ASSUME ClientInv, TurnInv, (\E p \in Processes : Exits(p)) \/ Dies
    PROVE  TurnInv'
<1> USE CodexAssumption
<1>1. /\ \A u \in Turns : byTurnId'[u] = None
      /\ \A t \in Turns : Begun(t) => Begun(t)'
      /\ \A t \in Turns : work[t] \in {"none", "refused"} => work'[t] = work[t]
      /\ reactions' = <<>>
    BY DEF Exits, Dies, Begun, Idle, loop
<1>2. \A t \in Turns : Reached(t) => Reached(t)'
  <2>1. CASE \E p \in Processes : Exits(p)
    BY <2>1 DEF Exits, Reached, Requests, Rpcs
  <2>2. CASE Dies
    BY <2>2 DEF Dies, Reached, Requests, Rpcs, Final
  <2> QED BY <2>1, <2>2
<1>3. \A p \in Processes : stdin'[p] \in {stdin[p], <<>>} /\ stdout'[p] \in {stdout[p], <<>>}
    BY DEF Exits, Dies
<1>4. \A line : SaysSo(line) => SaysSo(line)'
    BY <1>1 DEF SaysSo
<1>5. /\ \A p \in Processes : \A i \in DOMAIN stdin'[p] :
             i \in DOMAIN stdin[p] /\ stdin'[p][i] = stdin[p][i]
      /\ \A p \in Processes : \A i \in DOMAIN stdout'[p] :
             i \in DOMAIN stdout[p] /\ stdout'[p][i] = stdout[p][i]
    BY <1>3
<1>6. \A t \in Turns : ~Reached(t)' => work'[t] = "none"
    BY <1>1, <1>2 DEF TurnInv
<1>7. /\ \A p \in Processes : \A i \in DOMAIN stdin'[p] : \A t \in Turns :
            IsRequest(stdin'[p][i], t) => Reached(t)' /\ work'[t] = "none"
      /\ \A p, q \in Processes : \A i \in DOMAIN stdin'[p], j \in DOMAIN stdin'[q] : \A t \in Turns :
            IsRequest(stdin'[p][i], t) /\ IsRequest(stdin'[q][j], t) => p = q /\ i = j
    BY <1>1, <1>2, <1>5 DEF TurnInv
<1>8. \A p \in Processes : \A i \in DOMAIN stdout'[p] : SaysSo(stdout[p][i])'
    BY <1>4, <1>5 DEF TurnInv, SaysSo
<1>9. \A i \in DOMAIN reactions' : SaysSo(reactions[i])'
    BY <1>1
<1> QED BY <1>1, <1>6, <1>7, <1>8, <1>9 DEF TurnInv, IsRequest

\* A step of the agent that writes no request.
LEMMA QuietTurns ==
    ASSUME ClientInv, TurnInv, UNCHANGED work,
           \A t \in Turns : Reached(t) => Reached(t)',
           \A p \in Processes : \A i \in DOMAIN stdin'[p] :
               \/ i \in DOMAIN stdin[p] /\ stdin'[p][i] = stdin[p][i]
               \/ \A t \in Turns : ~IsRequest(stdin'[p][i], t),
           \A p \in Processes : \A i \in DOMAIN stdout'[p] :
               \E j \in DOMAIN stdout[p] : stdout'[p][i] = stdout[p][j],
           \A i \in DOMAIN reactions' : SaysSo(reactions'[i]),
           \A u \in Turns : byTurnId'[u] # None => byTurnId'[u] = u /\ u \in open' /\ Begun(u)
    PROVE  TurnInv'
<1>1. \A line : SaysSo(line) => SaysSo(line)'
    BY DEF SaysSo, Begun
<1>2. /\ \A p \in Processes : \A i \in DOMAIN stdout'[p] : SaysSo(stdout[p][i])'
      /\ \A i \in DOMAIN reactions' : SaysSo(reactions[i])'
    BY <1>1 DEF TurnInv, SaysSo, Begun
<1>3. \A t \in Turns : ~Reached(t)' => work'[t] = "none"
    BY DEF TurnInv
<1>4. \A u \in Turns : byTurnId'[u] # None => byTurnId'[u] = u /\ u \in open' /\ Begun(u)'
    BY DEF Begun
<1>5. /\ \A p \in Processes : \A i \in DOMAIN stdin'[p] : \A t \in Turns :
             IsRequest(stdin'[p][i], t) => Reached(t)' /\ work'[t] = "none"
      /\ \A p, q \in Processes : \A i \in DOMAIN stdin'[p], j \in DOMAIN stdin'[q] : \A t \in Turns :
             IsRequest(stdin'[p][i], t) /\ IsRequest(stdin'[q][j], t) => p = q /\ i = j
    BY DEF TurnInv
<1> QED BY <1>2, <1>3, <1>4, <1>5 DEF TurnInv, IsRequest

\* A decision is written, or nothing.
LEMMA DecisionTurns ==
    ASSUME ClientInv, NEW u \in Turns, NEW id,
           UNCHANGED stdin \/ Write([kind |-> "decision", of |-> u, id |-> id])
    PROVE  \A p \in Processes : \A i \in DOMAIN stdin'[p] :
               \/ i \in DOMAIN stdin[p] /\ stdin'[p][i] = stdin[p][i]
               \/ \A t \in Turns : ~IsRequest(stdin'[p][i], t)
<1> DEFINE message == [kind |-> "decision", of |-> u, id |-> id]
<1>1. \A t \in Turns : ~IsRequest(message, t)
    BY DEF IsRequest
<1>2. UNCHANGED stdin \/ Write(message)
    OBVIOUS
<1>3. \A p \in Processes : stdin[p] \in Seq(Orders)
    BY DEF ClientInv, TypeOK
<1> HIDE DEF message
<1>4. CASE UNCHANGED stdin
    BY <1>4
<1>5. CASE stdin' = [stdin EXCEPT ![current] = Append(@, message)]
  <2> SUFFICES ASSUME NEW p \in Processes, NEW i \in DOMAIN stdin'[p]
               PROVE  \/ i \in DOMAIN stdin[p] /\ stdin'[p][i] = stdin[p][i]
                      \/ \A t \in Turns : ~IsRequest(stdin'[p][i], t)
    OBVIOUS
  <2>1. stdin'[p] = stdin[p] \/ stdin'[p] = Append(stdin[p], message)
    BY <1>5 DEF ClientInv, TypeOK
  <2>2. stdin[p] \in Seq(Orders)
    BY <1>3
  <2>3. \/ i \in DOMAIN stdin[p] /\ stdin'[p][i] = stdin[p][i]
        \/ stdin'[p][i] = message
    BY <2>1, <2>2
  <2> QED BY <1>1, <2>3
<1> QED BY <1>2, <1>4, <1>5 DEF Write

\* The end of a pending turn: its id goes with it.
LEMMA FinalizeTurns ==
    ASSUME ClientInv, TurnInv, NEW u \in Turns, NEW how \in Final, byTurnId[u] # None,
           Finalize(byTurnId[u], u, how)
    PROVE  /\ byTurnId[u] = u /\ u \in open
           /\ \A v \in Turns : byTurnId'[v] # None => byTurnId'[v] = v /\ v \in open' /\ Begun(v)
           /\ \A t \in Turns : Reached(t) => Reached(t)'
<1>1. byTurnId[u] = u /\ u \in open
    BY DEF TurnInv
<1>2. /\ open' = open \ {u} /\ byTurnId' = [byTurnId EXCEPT ![u] = None]
      /\ phase' = [phase EXCEPT ![u] = IF @ \in Final THEN @ ELSE how]
    BY <1>1 DEF Finalize
<1>3. \A v \in Turns : byTurnId'[v] # None => v # u /\ byTurnId'[v] = byTurnId[v]
    BY <1>2 DEF ClientInv, TypeOK
<1>4. \A v \in Turns : byTurnId'[v] # None => byTurnId'[v] = v /\ v \in open' /\ Begun(v)
    BY <1>2, <1>3 DEF TurnInv
<1>5. \A t \in Turns : Reached(t) => Reached(t)'
    BY <1>2 DEF Reached, Final, ClientInv, TypeOK, Requests, Rpcs
<1> QED BY <1>1, <1>4, <1>5

\* A line is about the turn that started when no other of its thread is pending.
LEMMA ReadLineTurns ==
    ASSUME ThreadsTakeTurns, ClientInv, TurnInv, NEW p \in Processes, ReadLine(p)
    PROVE  TurnInv'
<1> USE CodexAssumption
<1> DEFINE line == Head(stdout[p])
           u == line.of
<1>1. /\ stdout[p] \in Seq(Lines) /\ stdout[p] # <<>>
      /\ line \in Lines /\ line = stdout[p][1] /\ 1 \in DOMAIN stdout[p]
      /\ \A i \in DOMAIN Tail(stdout[p]) :
            i + 1 \in DOMAIN stdout[p] /\ Tail(stdout[p])[i] = stdout[p][i + 1]
  <2>1. stdout[p] \in Seq(Lines) /\ stdout[p] # <<>>
    BY DEF ReadLine, ClientInv, TypeOK
  <2> QED BY <2>1, QueueFacts
<1>2. /\ stdout' = [stdout EXCEPT ![p] = Tail(@)] /\ work' = work
      /\ \/ line.kind \in {"reply", "error"} /\ Response(line)
         \/ line.kind = "started" /\ TurnStarted(u)
         \/ line.kind = "delta" /\ Delta(u)
         \/ line.kind = "ask" /\ ApprovalRequested(u)
         \/ line.kind = "done" /\ TurnCompleted(u)
    BY DEF ReadLine
<1>3. line.kind \in {"started", "delta", "ask", "done"} => u \in Turns
    BY <1>1 DEF Lines
<1>4. SaysSo(line)
    BY <1>1 DEF TurnInv
<1>5. \A q \in Processes : \A i \in DOMAIN stdout'[q] :
          \E j \in DOMAIN stdout[q] : stdout'[q][i] = stdout[q][j]
    BY <1>1, <1>2 DEF ClientInv, TypeOK
<1> HIDE DEF line, u
<1>6. \A v \in Turns : byTurnId[v] # None => byTurnId[v] = v /\ v \in open /\ Begun(v)
    BY DEF TurnInv
<1>7. \A i \in DOMAIN reactions' : SaysSo(reactions'[i])
  <2>0. \A i \in DOMAIN reactions : SaysSo(reactions[i])
    BY DEF TurnInv
  <2>1. CASE reactions' = reactions
    BY <2>0, <2>1
  <2>2. CASE reactions' = Append(reactions, line)
    <3>1. reactions \in Seq([kind : {"reply", "error"}, of : Rpcs \cup Processes])
      BY DEF ClientInv, TypeOK
    <3>2. \A i \in DOMAIN reactions' :
              (i \in DOMAIN reactions /\ reactions'[i] = reactions[i]) \/ reactions'[i] = line
      BY <2>2, <3>1
    <3> QED BY <1>4, <2>0, <3>2
  <2>3. reactions' = reactions \/ reactions' = Append(reactions, line)
    BY <1>2 DEF Response, TurnStarted, Delta, ApprovalRequested, TurnCompleted
  <2> QED BY <2>1, <2>2, <2>3
<1>8. /\ \A t \in Turns : Reached(t) => Reached(t)'
      /\ \A v \in Turns : byTurnId'[v] # None => byTurnId'[v] = v /\ v \in open' /\ Begun(v)
      /\ \A q \in Processes : \A i \in DOMAIN stdin'[q] :
               \/ i \in DOMAIN stdin[q] /\ stdin'[q][i] = stdin[q][i]
               \/ \A t \in Turns : ~IsRequest(stdin'[q][i], t)
  <2>1. CASE line.kind \in {"reply", "error"} /\ Response(line)
    BY <1>6, <2>1 DEF Response, turns, Reached
  <2>2. CASE line.kind = "started" /\ TurnStarted(u)
    <3>1. UNCHANGED <<stdin, phase, open>>
      BY <2>2 DEF TurnStarted
    <3>2. \A v \in Turns : byTurnId'[v] # None => byTurnId'[v] = v /\ v \in open /\ Begun(v)
      <4>1. CASE UNCHANGED byTurnId
        BY <1>6, <4>1
      <4>2. CASE \E i \in WithoutId(Thread[u]) : AttachTurnId(order[i], u)
        <5>1. PICK i \in WithoutId(Thread[u]) : AttachTurnId(order[i], u)
          BY <4>2
        <5>2. order[i] \in open /\ order[i] \in Turns /\ Thread[order[i]] = Thread[u]
          BY <5>1 DEF WithoutId, ClientInv, TypeOK
        <5>3. order[i] = u
          <6>1. phase[order[i]] = "sent"
            BY <5>2 DEF ClientInv, WaitInv
          <6>2. StartUnread(u)
            <7>1. line = [kind |-> "started", of |-> u]
              BY <1>1, <2>2 DEF Lines, u
            <7> QED BY <1>1, <7>1 DEF StartUnread
          <6> QED BY <1>3, <2>2, <5>2, <6>1, <6>2 DEF ThreadsTakeTurns
        <5>4. byTurnId' \in {byTurnId, [byTurnId EXCEPT ![u] = u]}
          BY <5>1, <5>3 DEF AttachTurnId
        <5>5. Begun(u)
          BY <1>3, <1>4, <2>2 DEF SaysSo, u
        <5> QED BY <1>6, <5>2, <5>3, <5>4, <5>5 DEF ClientInv, TypeOK
      <4> QED BY <2>2, <4>1, <4>2 DEF TurnStarted
    <3> QED BY <3>1, <3>2 DEF Reached
  <2>3. CASE line.kind = "delta" /\ Delta(u)
    BY <1>6, <2>3 DEF Delta, turns, Reached
  <2>4. CASE line.kind = "ask" /\ ApprovalRequested(u)
    <3>1. /\ UNCHANGED <<phase, open, byTurnId>>
          /\ UNCHANGED stdin \/ Write([kind |-> "decision", of |-> u, id |-> askId[u]])
      BY <2>4 DEF ApprovalRequested
    <3>2. \A q \in Processes : \A i \in DOMAIN stdin'[q] :
               \/ i \in DOMAIN stdin[q] /\ stdin'[q][i] = stdin[q][i]
               \/ \A t \in Turns : ~IsRequest(stdin'[q][i], t)
      BY <1>3, <2>4, <3>1, DecisionTurns
    <3> QED BY <1>6, <3>1, <3>2 DEF Reached
  <2>5. CASE line.kind = "done" /\ TurnCompleted(u)
    <3>1. CASE byTurnId[u] = None
      BY <1>6, <2>5, <3>1 DEF TurnCompleted, turns, Reached
    <3>2. CASE byTurnId[u] # None
      <4>1. /\ u \in Turns /\ Finalize(byTurnId[u], u, "done") /\ "done" \in Final
            /\ UNCHANGED stdin
        BY <1>3, <2>5, <3>2 DEF TurnCompleted, Final
      <4>2. /\ \A v \in Turns : byTurnId'[v] # None => byTurnId'[v] = v /\ v \in open' /\ Begun(v)
            /\ \A t \in Turns : Reached(t) => Reached(t)'
        BY <3>2, <4>1, FinalizeTurns
      <4> QED BY <4>1, <4>2
    <3> QED BY <3>1, <3>2
  <2> QED BY <1>2, <2>1, <2>2, <2>3, <2>4, <2>5
<1> QED BY <1>2, <1>5, <1>7, <1>8, QuietTurns

\* The interrupt fallback.
LEMMA FallbackTurns ==
    ASSUME ClientInv, TurnInv, NEW u \in Turns, FallbackFires(u)
    PROVE  TurnInv'
<1>1. UNCHANGED <<stdin, stdout, work, reactions>>
    BY DEF FallbackFires, codex, loop
<1>2. /\ \A v \in Turns : byTurnId'[v] # None => byTurnId'[v] = v /\ v \in open' /\ Begun(v)
      /\ \A t \in Turns : Reached(t) => Reached(t)'
  <2>1. CASE byTurnId[u] = None
    BY <2>1 DEF FallbackFires, turns, Reached, TurnInv
  <2>2. CASE byTurnId[u] # None
    <3>1. Finalize(byTurnId[u], u, "interrupted") /\ "interrupted" \in Final
      BY <2>2 DEF FallbackFires, Final
    <3> QED BY <2>2, <3>1, FinalizeTurns
  <2> QED BY <2>1, <2>2
<1>3. \A i \in DOMAIN reactions' : SaysSo(reactions'[i])
    BY <1>1 DEF TurnInv
<1> QED BY <1>1, <1>2, <1>3, QuietTurns

\* A reaction of a settled promise.
LEMMA ReactTurns ==
    ASSUME ClientInv, TurnInv, React
    PROVE  TurnInv'
<1> USE CodexAssumption
<1> DEFINE who == reactions[1].of
           kind == reactions[1].kind
<1>1. /\ reactions # <<>> /\ reactions' = Tail(reactions) /\ 1 \in DOMAIN reactions
      /\ UNCHANGED <<stdout, work, current>>
      /\ \/ who \in Processes /\ Initialized(who)
         \/ who \in Processes /\ InitializeRefused(who)
         \/ who \in Calls /\ CallAnswered(who, kind)
         \/ who \in Turns /\ TurnAcknowledged(who, kind)
         \/ who \in Stops /\ StopAcknowledged(who, kind)
      /\ \A i \in DOMAIN reactions' : i + 1 \in DOMAIN reactions /\ reactions'[i] = reactions[i + 1]
  <2>1. reactions \in Seq([kind : {"reply", "error"}, of : Rpcs \cup Processes]) /\ reactions # <<>>
    BY DEF React, ClientInv, TypeOK
  <2>2. /\ Head(reactions) = reactions[1] /\ 1 \in DOMAIN reactions
        /\ \A i \in DOMAIN Tail(reactions) :
              i + 1 \in DOMAIN reactions /\ Tail(reactions)[i] = reactions[i + 1]
    BY <2>1, QueueFacts
  <2> QED BY <2>1, <2>2 DEF React
<1>2. SaysSo(reactions[1]) /\ \A i \in DOMAIN reactions' : SaysSo(reactions'[i])
    BY <1>1 DEF TurnInv
<1>3. reactions[1].kind \in {"reply", "error"}
  <2> DEFINE S == [kind : {"reply", "error"}, of : Rpcs \cup Processes]
  <2>1. reactions \in Seq(S)
    BY DEF ClientInv, TypeOK
  <2> HIDE DEF S
  <2>2. reactions[1] \in S
    BY <1>1, <2>1, ElementFact
  <2> QED BY <2>2 DEF S
<1>4. \A v \in Turns : byTurnId[v] # None => byTurnId[v] = v /\ v \in open /\ Begun(v)
    BY DEF TurnInv
<1>5. CASE who \in Processes
  <2> DEFINE r == Starter(who)
  <2>1. r \in Requests /\ phase[r] = "starting" /\ current \in Processes
    BY <1>1, <1>5 DEF ClientInv, ProcessInv, HasStarter, Starter, TypeOK
  <2> HIDE DEF r
  <2>2. CASE Initialized(who)
    <3>1. Proceed(r)
      BY <2>2 DEF Initialized, r
    <3>2. r \in Decisions => askId[About[r]] # None
      BY <2>1 DEF ClientInv, AskInv
    <3>3. \A i \in DOMAIN reactions' : \E j \in DOMAIN reactions : reactions'[i] = reactions[j]
      BY <1>1
    <3> QED BY <1>1, <2>1, <3>1, <3>2, <3>3, ProceedTurns
  <2>3. CASE InitializeRefused(who)
    <3>1. /\ phase' = [phase EXCEPT ![r] = "failed"]
          /\ UNCHANGED <<stdin, open, byTurnId>>
      BY <2>3 DEF InitializeRefused, r, turns
    <3>2. \A t \in Turns : Reached(t) => Reached(t)'
      BY <3>1 DEF Reached, ClientInv, TypeOK, Requests, Rpcs
    <3> QED BY <1>1, <1>2, <1>4, <3>1, <3>2, QuietTurns
  <2> QED BY <1>1, <1>5, <2>2, <2>3 DEF Rpcs, Requests
<1>6. CASE who \in Calls \cup Stops
  <2>1. /\ UNCHANGED <<stdin, open, byTurnId>>
        /\ phase' \in {[phase EXCEPT ![who] = "done"], [phase EXCEPT ![who] = "failed"]}
    BY <1>1, <1>6 DEF CallAnswered, StopAcknowledged, turns, Rpcs, Requests
  <2>2. \A t \in Turns : Reached(t) => Reached(t)'
    BY <1>6, <2>1 DEF Reached, ClientInv, TypeOK, Requests, Rpcs
  <2> QED BY <1>1, <1>2, <1>4, <2>1, <2>2, QuietTurns
<1>7. CASE who \in Turns
  <2>1. TurnAcknowledged(who, kind) /\ UNCHANGED stdin
    BY <1>1, <1>7 DEF TurnAcknowledged, Rpcs, Requests
  <2>2. CASE kind = "reply"
    <3>1. /\ UNCHANGED <<open, phase>>
          /\ \/ UNCHANGED byTurnId
             \/ who \in open /\ AttachTurnId(who, who)
      BY <2>1, <2>2 DEF TurnAcknowledged
    <3>2. byTurnId' = byTurnId \/ (who \in open /\ byTurnId' = [byTurnId EXCEPT ![who] = who])
      BY <3>1 DEF AttachTurnId
    <3>3. Begun(who)
      BY <1>2, <1>7, <2>2 DEF SaysSo
    <3>4. \A v \in Turns : byTurnId'[v] # None => byTurnId'[v] = v /\ v \in open' /\ Begun(v)
      BY <1>4, <1>7, <3>1, <3>2, <3>3 DEF ClientInv, TypeOK
    <3> QED BY <1>1, <1>2, <2>1, <3>1, <3>4, QuietTurns DEF Reached
  <2>3. CASE kind = "error"
    <3>1. /\ open' = open \ {who} /\ UNCHANGED byTurnId
          /\ phase' = [phase EXCEPT ![who] = IF @ \in Final THEN @ ELSE "failed"]
      BY <2>1, <2>3 DEF TurnAcknowledged
    <3>2. ~Begun(who)
      BY <1>2, <1>7, <2>3 DEF SaysSo, Begun
    <3>3. \A v \in Turns : byTurnId'[v] # None => byTurnId'[v] = v /\ v \in open' /\ Begun(v)
      BY <1>4, <3>1, <3>2
    <3>4. \A t \in Turns : Reached(t) => Reached(t)'
      BY <3>1 DEF Reached, Final, ClientInv, TypeOK, Requests, Rpcs
    <3> QED BY <1>1, <1>2, <2>1, <3>3, <3>4, QuietTurns
  <2> QED BY <1>3, <2>2, <2>3
<1> QED BY <1>1, <1>5, <1>6, <1>7

\* A step of Codex: it may take an order of who, and begins or refuses who, or goes on with what it
\* has begun; what it says is true.
LEMMA WorkTurns ==
    ASSUME ClientInv, TurnInv, NEW who, UNCHANGED <<phase, open, byTurnId, reactions>>,
           who \in Turns => work[who] = "none" /\ Reached(who),
           \A t \in Turns : t # who => work'[t] = work[t] \/ (Begun(t) /\ Begun(t)'),
           NEW d \in [Processes -> {0, 1}],
           \A p \in Processes : \A i \in DOMAIN stdin'[p] :
               /\ i \in Int /\ i + d[p] \in DOMAIN stdin[p] /\ stdin'[p][i] = stdin[p][i + d[p]]
               /\ who \in Turns => ~IsRequest(stdin'[p][i], who),
           \A p \in Processes : \A i \in DOMAIN stdout'[p] :
               \/ SaysSo(stdout[p][i])'
               \/ \E j \in DOMAIN stdout[p] : stdout'[p][i] = stdout[p][j]
    PROVE  TurnInv'
<1>1. ASSUME NEW line, SaysSo(line)
      PROVE  /\ line.kind \in {"reply", "started"} /\ line.of \in Turns => Begun(line.of)'
             /\ line.kind = "error" /\ line.of \in Turns => work'[line.of] = "refused"
  <2>1. CASE line.of \in Turns /\ line.of = who
    BY <1>1, <2>1 DEF SaysSo, Begun
  <2>2. CASE line.of # who
    BY <1>1, <2>2 DEF SaysSo, Begun
  <2>3. CASE line.of \notin Turns
    BY <2>3
  <2> QED BY <2>1, <2>2, <2>3
<1>2. \A p \in Processes : \A i \in DOMAIN stdout'[p] : SaysSo(stdout[p][i])'
  <2> SUFFICES ASSUME NEW p \in Processes, NEW i \in DOMAIN stdout'[p] PROVE SaysSo(stdout[p][i])'
    OBVIOUS
  <2>1. CASE \E j \in DOMAIN stdout[p] : stdout'[p][i] = stdout[p][j]
    <3>1. PICK line : line = stdout'[p][i] /\ SaysSo(line)
      BY <2>1 DEF TurnInv
    <3>2. /\ line.kind \in {"reply", "started"} /\ line.of \in Turns => work'[line.of] \notin {"none", "refused"}
          /\ line.kind = "error" /\ line.of \in Turns => work'[line.of] = "refused"
      BY <1>1, <3>1 DEF Begun
    <3> QED BY <3>1, <3>2 DEF SaysSo, Begun
  <2> QED BY <2>1
<1>3. \A i \in DOMAIN reactions' : SaysSo(reactions[i])'
  <2>1. \A i \in DOMAIN reactions : SaysSo(reactions[i])
    BY DEF TurnInv
  <2> QED BY <1>1, <2>1 DEF SaysSo, Begun
<1>4. \A t \in Turns : ~Reached(t)' => work'[t] = "none"
    BY DEF TurnInv, Reached, Begun
<1>5. \A u \in Turns : byTurnId'[u] # None => byTurnId'[u] = u /\ u \in open' /\ Begun(u)'
    BY DEF TurnInv, Begun
<1>6. /\ \A p \in Processes : \A i \in DOMAIN stdin'[p] : \A t \in Turns :
             IsRequest(stdin'[p][i], t) => Reached(t)' /\ work'[t] = "none"
      /\ \A p, q \in Processes : \A i \in DOMAIN stdin'[p], j \in DOMAIN stdin'[q] : \A t \in Turns :
             IsRequest(stdin'[p][i], t) /\ IsRequest(stdin'[q][j], t) => p = q /\ i = j
  <2>1. ASSUME NEW p \in Processes, NEW i \in DOMAIN stdin'[p], NEW t \in Turns,
               IsRequest(stdin'[p][i], t)
        PROVE  Reached(t)' /\ work'[t] = "none"
    <3>1. t # who
      BY <2>1
    <3>2. Reached(t) /\ work[t] = "none"
      BY <2>1 DEF TurnInv
    <3> QED BY <3>1, <3>2 DEF Reached, Begun
  <2>2. ASSUME NEW p \in Processes, NEW q \in Processes, NEW i \in DOMAIN stdin'[p],
               NEW j \in DOMAIN stdin'[q], NEW t \in Turns,
               IsRequest(stdin'[p][i], t), IsRequest(stdin'[q][j], t)
        PROVE  p = q /\ i = j
    <3>1. p = q /\ i + d[p] = j + d[q]
      BY <2>2 DEF TurnInv
    <3>2. i \in Int /\ j \in Int /\ d[p] \in Int
      OBVIOUS
    <3> QED BY <3>1, <3>2
  <2> QED BY <2>1, <2>2
<1> QED BY <1>2, <1>3, <1>4, <1>5, <1>6 DEF TurnInv, IsRequest

\* What Codex answers is what it has done.
LEMMA AnswersTruly ==
    ASSUME ClientInv, NEW p \in Processes, NEW who \in Rpcs \cup Processes, CodexAnswers(p, who),
           who \in Turns => work[who] = "none"
    PROVE  /\ \A t \in Turns : t # who => work'[t] = work[t]
           /\ \A q \in Processes : \A i \in DOMAIN stdout'[q] :
                 \/ SaysSo(stdout[q][i])'
                 \/ \E j \in DOMAIN stdout[q] : stdout'[q][i] = stdout[q][j]
<1> DEFINE True(line) == /\ line.of = who
                         /\ line.kind \in {"reply", "started"} /\ who \in Turns => work'[who] = "running"
                         /\ line.kind = "error" /\ who \in Turns => work'[who] = "refused"
<1>1. Line("error", who) \in Lines /\ Line("reply", who) \in Lines
      /\ (who \in Turns => Line("started", who) \in Lines)
    BY DEF Line, Lines
<1>2. \E lines \in Seq(Lines) : Emits(p, lines) /\ \A i \in DOMAIN lines : True(lines[i])
  <2>1. CASE Emits(p, <<Line("error", who)>>)
             /\ work' = [t \in Turns |-> IF t = who THEN "refused" ELSE work[t]]
    <3>1. /\ <<Line("error", who)>> \in Seq(Lines)
          /\ \A i \in DOMAIN <<Line("error", who)>> : True(<<Line("error", who)>>[i])
      BY <1>1, <2>1 DEF Line
    <3> HIDE DEF True
    <3> QED BY <2>1, <3>1
  <2>2. CASE who \notin Turns /\ Emits(p, <<Line("reply", who)>>)
    <3>1. /\ <<Line("reply", who)>> \in Seq(Lines)
          /\ \A i \in DOMAIN <<Line("reply", who)>> : True(<<Line("reply", who)>>[i])
      BY <1>1, <2>2 DEF Line
    <3> HIDE DEF True
    <3> QED BY <2>2, <3>1
  <2>3. CASE /\ \/ Emits(p, <<Line("reply", who), Line("started", who)>>)
                \/ Emits(p, <<Line("started", who), Line("reply", who)>>)
             /\ who \in Turns /\ work' = [work EXCEPT ![who] = "running"]
    <3>1. work'[who] = "running"
      BY <2>3 DEF ClientInv, TypeOK
    <3>2. \A a, b \in {Line("reply", who), Line("started", who)} :
              <<a, b>> \in Seq(Lines) /\ \A i \in DOMAIN <<a, b>> : True(<<a, b>>[i])
      BY <1>1, <2>3, <3>1 DEF Line
    <3> HIDE DEF True
    <3> QED BY <2>3, <3>2
  <2> QED BY <2>1, <2>2, <2>3 DEF CodexAnswers
<1> HIDE DEF True
<1>3. PICK lines \in Seq(Lines) : Emits(p, lines) /\ \A i \in DOMAIN lines : True(lines[i])
    BY <1>2
<1>4. \A q \in Processes : \A i \in DOMAIN stdout'[q] :
         \/ i \in DOMAIN stdout[q] /\ stdout'[q][i] = stdout[q][i]
         \/ True(stdout'[q][i])
    BY <1>3, EmitsType DEF ClientInv
<1>5. \A q \in Processes : \A i \in DOMAIN stdout'[q] :
         \/ SaysSo(stdout[q][i])'
         \/ \E j \in DOMAIN stdout[q] : stdout'[q][i] = stdout[q][j]
    BY <1>4 DEF True, SaysSo, Begun
<1>6. \A t \in Turns : t # who => work'[t] = work[t]
    BY DEF CodexAnswers, ClientInv, TypeOK
<1> QED BY <1>5, <1>6

\* A process takes an order.
LEMMA TakesTurns ==
    ASSUME ClientInv, TurnInv, NEW p \in Processes, CodexTakes(p)
    PROVE  TurnInv'
<1> USE CodexAssumption
<1>1. /\ stdin[p] \in Seq(Orders) /\ Head(stdin[p]) = stdin[p][1] /\ stdin[p][1] \in Orders
      /\ 1 \in DOMAIN stdin[p]
      /\ \A i \in DOMAIN Tail(stdin[p]) :
            i + 1 \in DOMAIN stdin[p] /\ Tail(stdin[p])[i] = stdin[p][i + 1]
  <2>1. stdin[p] \in Seq(Orders) /\ stdin[p] # <<>>
    BY DEF CodexTakes, ClientInv, TypeOK
  <2> QED BY <2>1, QueueFacts
<1>2. /\ stdin' = [stdin EXCEPT ![p] = Tail(@)]
      /\ UNCHANGED <<phase, open, byTurnId, reactions>>
      /\ \/ stdin[p][1].kind = "request" /\ CodexAnswers(p, stdin[p][1].of)
         \/ stdin[p][1].kind = "decision" /\ CodexGoesOn(p, stdin[p][1].of, stdin[p][1].id)
    BY <1>1 DEF CodexTakes, turns, loop
<1>3. PICK d \in [Processes -> {0, 1}] : d = [q \in Processes |-> IF q = p THEN 1 ELSE 0]
    OBVIOUS
<1>4. \A q \in Processes : \A i \in DOMAIN stdin'[q] :
          /\ i \in Int /\ i >= 1 /\ i + d[q] \in DOMAIN stdin[q] /\ stdin'[q][i] = stdin[q][i + d[q]]
  <2> SUFFICES ASSUME NEW q \in Processes, NEW i \in DOMAIN stdin'[q]
               PROVE  i \in Int /\ i >= 1 /\ i + d[q] \in DOMAIN stdin[q] /\ stdin'[q][i] = stdin[q][i + d[q]]
    OBVIOUS
  <2>1. CASE q = p
    <3>1. stdin'[p] = Tail(stdin[p]) /\ d[p] = 1
      BY <1>2, <1>3 DEF ClientInv, TypeOK
    <3>2. i \in Int /\ i >= 1
      BY <1>1, <2>1, <3>1
    <3> QED BY <1>1, <2>1, <3>1, <3>2
  <2>2. CASE q # p
    <3>1. stdin'[q] = stdin[q] /\ d[q] = 0 /\ stdin[q] \in Seq(Orders)
      BY <1>2, <1>3, <2>2 DEF ClientInv, TypeOK
    <3> QED BY <3>1
  <2> QED BY <2>1, <2>2
<1>5. CASE stdin[p][1].kind = "request"
  <2>1. PICK who : who = stdin[p][1].of
    OBVIOUS
  <2>2. who \in Rpcs \cup Processes /\ CodexAnswers(p, who)
    BY <1>1, <1>2, <1>5, <2>1 DEF Orders
  <2>3. who \in Turns => IsRequest(stdin[p][1], who) /\ work[who] = "none" /\ Reached(who)
    BY <1>1, <1>5, <2>1 DEF IsRequest, TurnInv
  <2>4. \A q \in Processes : \A i \in DOMAIN stdin'[q] : who \in Turns => ~IsRequest(stdin'[q][i], who)
    <3> SUFFICES ASSUME NEW q \in Processes, NEW i \in DOMAIN stdin'[q], who \in Turns,
                        IsRequest(stdin'[q][i], who)
                 PROVE  FALSE
      OBVIOUS
    <3>1. IsRequest(stdin[q][i + d[q]], who) /\ i + d[q] \in DOMAIN stdin[q]
      BY <1>4
    <3>2. q = p /\ i + d[q] = 1
      BY <1>1, <2>3, <3>1 DEF TurnInv
    <3> QED BY <1>3, <1>4, <3>2
  <2>5. /\ \A t \in Turns : t # who => work'[t] = work[t]
        /\ \A q \in Processes : \A i \in DOMAIN stdout'[q] :
              \/ SaysSo(stdout[q][i])'
              \/ \E j \in DOMAIN stdout[q] : stdout'[q][i] = stdout[q][j]
    BY <2>2, <2>3, AnswersTruly
  <2> QED BY <1>2, <1>4, <2>3, <2>4, <2>5, WorkTurns
<1>6. CASE stdin[p][1].kind = "decision"
  <2>1. UNCHANGED stdout /\ \A t \in Turns : work'[t] = work[t] \/ (Begun(t) /\ Begun(t)')
    BY <1>2, <1>6 DEF CodexGoesOn, Begun
  <2>2. None \notin Turns
    BY DEF Requests, Rpcs
  <2> QED BY <1>2, <1>4, <2>1, <2>2, WorkTurns
<1> QED BY <1>2, <1>5, <1>6

\* It works, asks, finishes or ends.
LEMMA WorkingTurns ==
    ASSUME ClientInv, TurnInv,
           \/ \E p \in Processes : Ends(p)
           \/ \E t \in Turns : Streams(t) \/ Asks(t) \/ Finishes(t)
    PROVE  TurnInv'
<1> USE CodexAssumption
<1>1. UNCHANGED <<phase, open, byTurnId, reactions>>
    BY DEF Ends, Streams, Asks, Finishes, CodexOnly, turns, loop
<1>2. \A t \in Turns : work'[t] = work[t] \/ (Begun(t) /\ Begun(t)')
  <2>1. CASE \E p \in Processes : Ends(p)
    BY <2>1 DEF Ends, Begun
  <2>2. CASE \E t \in Turns : Streams(t)
    BY <2>2 DEF Streams
  <2>3. ASSUME NEW t \in Turns, Asks(t) \/ Finishes(t)
        PROVE  \A s \in Turns : work'[s] = work[s] \/ (Begun(s) /\ Begun(s)')
    <3>1. work[t] \in {"running", "waiting"} /\ \E w \in {"waiting", "over"} : work' = [work EXCEPT ![t] = w]
      BY <2>3 DEF Asks, Finishes
    <3> QED BY <3>1 DEF Begun, ClientInv, TypeOK
  <2> QED BY <2>1, <2>2, <2>3
<1>3. PICK d \in [Processes -> {0, 1}] : d = [q \in Processes |-> 0]
    OBVIOUS
<1>4. \A q \in Processes : \A i \in DOMAIN stdin'[q] :
          i \in Int /\ i + d[q] \in DOMAIN stdin[q] /\ stdin'[q][i] = stdin[q][i + d[q]]
  <2>1. \A q \in Processes : stdin'[q] \in {stdin[q], <<>>}
    BY DEF Ends, Streams, Asks, Finishes, CodexOnly, ClientInv, TypeOK
  <2>2. \A q \in Processes : stdin[q] \in Seq(Orders)
    BY DEF ClientInv, TypeOK
  <2> QED BY <1>3, <2>1, <2>2
<1>5. \A q \in Processes : \A i \in DOMAIN stdout'[q] :
         \/ SaysSo(stdout[q][i])'
         \/ \E j \in DOMAIN stdout[q] : stdout'[q][i] = stdout[q][j]
  <2>1. CASE \E p \in Processes : Ends(p)
    BY <2>1 DEF Ends
  <2>2. CASE \E t \in Turns : Streams(t) \/ Asks(t) \/ Finishes(t)
    <3>1. PICK t \in Turns, line \in Lines :
              Emits(home[t], <<line>>) /\ line.kind \in {"delta", "ask", "done"}
      <4>1. \A t \in Turns : \A k \in {"delta", "ask", "done"} : Line(k, t) \in Lines /\ Line(k, t).kind = k
        BY DEF Line, Lines
      <4> QED BY <2>2, <4>1 DEF Streams, Asks, Finishes
    <3>2. PICK lines \in Seq(Lines) : lines = <<line>> /\ \A i \in DOMAIN lines : lines[i] = line
      <4>1. <<line>> \in Seq(Lines) /\ \A i \in DOMAIN <<line>> : <<line>>[i] = line
        OBVIOUS
      <4> QED BY <4>1
    <3>3. PICK p \in Processes \cup {None} : p = home[t]
      BY DEF ClientInv, TypeOK, Requests, Rpcs
    <3>4. Emits(p, lines)
      BY <3>1, <3>2, <3>3
    <3>5. \A q \in Processes : \A i \in DOMAIN stdout'[q] :
              (i \in DOMAIN stdout[q] /\ stdout'[q][i] = stdout[q][i]) \/ stdout'[q][i] = line
      <4>1. TypeOK
        BY DEF ClientInv
      <4>2. \A q \in Processes : \A i \in DOMAIN stdout'[q] :
                \/ i \in DOMAIN stdout[q] /\ stdout'[q][i] = stdout[q][i]
                \/ q = p /\ i - Len(stdout[p]) \in DOMAIN lines
                   /\ stdout'[q][i] = lines[i - Len(stdout[p])]
        BY <3>4, <4>1, EmitsType
      <4> QED BY <3>2, <4>2
    <3>6. \A q \in Processes : \A i \in DOMAIN stdout'[q] : stdout'[q][i] = line => SaysSo(stdout[q][i])'
      BY <3>1 DEF SaysSo
    <3>7. \A q \in Processes : \A i \in DOMAIN stdout'[q] :
              \/ SaysSo(stdout[q][i])'
              \/ i \in DOMAIN stdout[q] /\ stdout'[q][i] = stdout[q][i]
      BY <3>5, <3>6
    <3> QED BY <3>7
  <2> QED BY <2>1, <2>2
<1>6. None \notin Turns
    BY DEF Requests, Rpcs
<1> QED BY <1>1, <1>2, <1>4, <1>5, <1>6, WorkTurns

LEMMA TurnInvStep ==
    ASSUME ThreadsTakeTurns, ClientInv, TurnInv, [Next]_vars
    PROVE  TurnInv'
<1>1. CASE \E r \in Requests : CommandMissing(r) \/ HandleWhenStarted(r) \/ HandleWhenNotStarted(r)
    BY <1>1, ArrivalTurns
<1>2. CASE (\E p \in Processes : Exits(p)) \/ Dies
    BY <1>2, EndTurns
<1>3. CASE \E p \in Processes : ReadLine(p)
    BY <1>3, ReadLineTurns
<1>4. CASE \E p \in Processes : CodexTakes(p)
    BY <1>4, TakesTurns
<1>5. CASE \/ \E p \in Processes : Ends(p)
           \/ \E t \in Turns : Streams(t) \/ Asks(t) \/ Finishes(t)
    BY <1>5, WorkingTurns
<1>6. CASE React
    BY <1>6, ReactTurns
<1>7. CASE \E t \in Turns : FallbackFires(t)
    BY <1>7, FallbackTurns
<1>8. CASE UNCHANGED vars
  <2>1. UNCHANGED <<stdin, stdout, work, phase, open, byTurnId, reactions>>
    BY <1>8 DEF vars, codex, turns, loop
  <2>2. \A i \in DOMAIN reactions' : SaysSo(reactions'[i])
    BY <2>1 DEF TurnInv
  <2> QED BY <2>1, <2>2, QuietTurns DEF TurnInv, Reached
<1> QED BY <1>1, <1>2, <1>3, <1>4, <1>5, <1>6, <1>7, <1>8 DEF Next

(***************************************************************************)
(* Every step is one that AgentService allows.                             *)
(***************************************************************************)
\* A request that was accepted stays so until it is answered, and then stays answered; what is said
\* of a turn is said before its answer or with it.
Orderly ==
    /\ \A r \in Relayed : phase[r] \in {"starting", "sent"} => phase'[r] \notin {"absent", "idle"}
    /\ \A r \in Relayed : phase[r] \in Final => phase'[r] \in Final
    /\ \A t \in Turns : told'[t] # told[t] => phase[t] \notin Final /\ phase'[t] \notin {"absent", "idle"}

\* The turn that an id leads to is pending.
LEMMA NamedIsPending ==
    ASSUME ClientInv, TurnInv, NEW u \in Turns, byTurnId[u] # None
    PROVE  byTurnId[u] = u /\ phase[u] = "sent"
BY DEF ClientInv, WaitInv, TurnInv

\* Something is said of such a turn.
LEMMA SayingIsOrderly ==
    ASSUME ClientInv, TurnInv, NEW t \in Turns, phase[t] = "sent",
           \A s \in Turns : s # t => told'[s] = told[s],
           \A r \in Requests : phase'[r] # phase[r] => phase[r] \notin Final /\ phase'[r] \notin {"absent", "idle"}
    PROVE  Orderly
BY DEF Orderly, Relayed, Final, Requests, Rpcs

\* Nothing is said.
LEMMA SilenceIsOrderly ==
    ASSUME UNCHANGED told,
           \A r \in Relayed : phase'[r] # phase[r] =>
               phase'[r] \notin {"absent", "idle"} /\ (phase[r] \in Final => phase'[r] \in Final)
    PROVE  Orderly
BY DEF Orderly, Final

LEMMA ProceedIsOrderly ==
    ASSUME ClientInv, TurnInv, NEW r \in Requests, phase[r] \in {"idle", "starting"}, Proceed(r)
    PROVE  Orderly
<1> USE CodexAssumption
<1>1. /\ \A s \in Requests : s # r => phase'[s] = phase[s]
      /\ phase'[r] \in {"sent", "done", "failed"}
      /\ r \in Rpcs => phase'[r] = "sent"
    BY ProceedEffect DEF ClientInv
<1>2. \A s \in Requests : phase'[s] # phase[s] => phase[s] \notin Final /\ phase'[s] \notin {"absent", "idle"}
    BY <1>1 DEF Final
<1>3. CASE r \in Turns
  <2>1. \E s : told' = [told EXCEPT ![r] = s]
    BY <1>3 DEF Proceed, TurnProceeds, Say, Rpcs, Requests
  <2>2. \A s \in Turns : s # r => told'[s] = told[s]
    BY <2>1 DEF ClientInv, TypeOK
  <2>3. phase'[r] \notin {"absent", "idle"} /\ phase[r] \notin Final
    BY <1>1 DEF Final
  <2> QED BY <1>2, <2>2, <2>3 DEF Orderly, Relayed, Final, Requests, Rpcs
<1>4. CASE r \in Stops /\ told' # told
  <2> DEFINE u == About[r]
  <2>1. u \in Turns /\ byTurnId[u] # None /\ \E s : told' = [told EXCEPT ![byTurnId[u]] = s]
    BY <1>4 DEF Proceed, StopProceeds, Say, Rpcs, Requests
  <2> HIDE DEF u
  <2>2. byTurnId[u] = u /\ phase[u] = "sent"
    BY <2>1, NamedIsPending
  <2>3. \A s \in Turns : s # u => told'[s] = told[s]
    BY <2>1, <2>2 DEF ClientInv, TypeOK
  <2> QED BY <1>2, <2>1, <2>2, <2>3, SayingIsOrderly
<1>5. CASE UNCHANGED told
    BY <1>2, <1>5, SilenceIsOrderly DEF Relayed, Final
<1> QED BY <1>3, <1>4, <1>5 DEF Proceed, BootProceeds, CallProceeds, DecisionProceeds, Requests, Rpcs

LEMMA FinalizeIsOrderly ==
    ASSUME ClientInv, TurnInv, NEW u \in Turns, NEW how \in Final, byTurnId[u] # None,
           Finalize(byTurnId[u], u, how)
    PROVE  Orderly
<1>1. byTurnId[u] = u /\ phase[u] = "sent"
    BY NamedIsPending
<1>2. /\ phase' = [phase EXCEPT ![u] = IF @ \in Final THEN @ ELSE how]
      /\ told' = [told EXCEPT ![u] = <<"ended", u>>]
    BY <1>1 DEF Finalize, Say
<1>3. /\ \A s \in Turns : s # u => told'[s] = told[s]
      /\ \A r \in Requests : phase'[r] # phase[r] => r = u /\ phase'[r] \in Final
    BY <1>1, <1>2 DEF ClientInv, TypeOK
<1>4. \A r \in Requests : phase'[r] # phase[r] => phase[r] \notin Final /\ phase'[r] \notin {"absent", "idle"}
    BY <1>1, <1>3 DEF Final
<1> QED BY <1>1, <1>3, <1>4, SayingIsOrderly

LEMMA ReadLineIsOrderly ==
    ASSUME ClientInv, TurnInv, NEW p \in Processes, ReadLine(p)
    PROVE  Orderly
<1> USE CodexAssumption
<1> DEFINE line == Head(stdout[p])
           u == line.of
<1>1. line \in Lines
  <2>1. stdout[p] \in Seq(Lines) /\ stdout[p] # <<>>
    BY DEF ReadLine, ClientInv, TypeOK
  <2> QED BY <2>1, QueueFacts
<1>2. \/ line.kind \in {"reply", "error"} /\ Response(line)
      \/ line.kind = "started" /\ TurnStarted(u)
      \/ line.kind = "delta" /\ Delta(u)
      \/ line.kind = "ask" /\ ApprovalRequested(u)
      \/ line.kind = "done" /\ TurnCompleted(u)
    BY DEF ReadLine
<1>3. line.kind \in {"delta", "ask", "done"} => u \in Turns
    BY <1>1 DEF Lines
<1> HIDE DEF line, u
<1>4. CASE UNCHANGED <<phase, told>>
    BY <1>4, SilenceIsOrderly
<1>5. CASE /\ u \in Turns /\ byTurnId[u] # None /\ UNCHANGED phase
           /\ \E s : told' = [told EXCEPT ![byTurnId[u]] = s]
  <2>1. byTurnId[u] = u /\ phase[u] = "sent"
    BY <1>5, NamedIsPending
  <2>2. \A s \in Turns : s # u => told'[s] = told[s]
    BY <1>5, <2>1 DEF ClientInv, TypeOK
  <2> QED BY <1>5, <2>1, <2>2, SayingIsOrderly
<1>6. CASE u \in Turns /\ byTurnId[u] # None /\ Finalize(byTurnId[u], u, "done")
    BY <1>6, FinalizeIsOrderly DEF Final
<1> QED BY <1>2, <1>3, <1>4, <1>5, <1>6
        DEF Response, TurnStarted, Delta, ApprovalRequested, TurnCompleted, turns, Say

LEMMA ReactIsOrderly ==
    ASSUME ClientInv, TurnInv, React
    PROVE  Orderly
<1> USE CodexAssumption
<1> DEFINE who == reactions[1].of
           kind == reactions[1].kind
<1>1. /\ 1 \in DOMAIN reactions
      /\ \/ who \in Processes /\ Initialized(who)
         \/ who \in Processes /\ InitializeRefused(who)
         \/ who \in Calls /\ CallAnswered(who, kind)
         \/ who \in Turns /\ TurnAcknowledged(who, kind)
         \/ who \in Stops /\ StopAcknowledged(who, kind)
  <2>1. reactions \in Seq([kind : {"reply", "error"}, of : Rpcs \cup Processes]) /\ reactions # <<>>
    BY DEF React, ClientInv, TypeOK
  <2>2. Head(reactions) = reactions[1] /\ 1 \in DOMAIN reactions
    BY <2>1, QueueFacts
  <2> QED BY <2>1, <2>2 DEF React
<1> HIDE DEF kind
<1>2. CASE who \in Processes
  <2> DEFINE r == Starter(who)
  <2>1. r \in Requests /\ phase[r] = "starting"
    BY <1>1, <1>2 DEF ClientInv, ProcessInv, HasStarter, Starter
  <2> HIDE DEF r
  <2>2. CASE Initialized(who)
    BY <2>1, <2>2, ProceedIsOrderly DEF Initialized, r
  <2>3. CASE InitializeRefused(who)
    <3>1. phase' = [phase EXCEPT ![r] = "failed"] /\ UNCHANGED told
      BY <2>3 DEF InitializeRefused, r
    <3>2. \A s \in Relayed : phase'[s] # phase[s] => phase'[s] = "failed"
      BY <3>1 DEF ClientInv, TypeOK, Relayed
    <3> QED BY <3>1, <3>2, SilenceIsOrderly DEF Final
  <2> QED BY <1>1, <1>2, <2>2, <2>3 DEF Rpcs, Requests
<1>3. CASE who \in Calls \cup Stops
  <2>1. /\ phase' \in {[phase EXCEPT ![who] = "done"], [phase EXCEPT ![who] = "failed"]}
        /\ UNCHANGED told
    BY <1>1, <1>3 DEF CallAnswered, StopAcknowledged, Rpcs, Requests
  <2>2. \A s \in Relayed : phase'[s] # phase[s] => phase'[s] \in {"done", "failed"}
    BY <2>1 DEF ClientInv, TypeOK, Relayed
  <2> QED BY <2>1, <2>2, SilenceIsOrderly DEF Final
<1>4. CASE who \in Turns
  <2>1. TurnAcknowledged(who, kind)
    BY <1>1, <1>4 DEF Rpcs, Requests
  <2>2. CASE UNCHANGED <<phase, told>>
    BY <2>2, SilenceIsOrderly
  <2>3. CASE who \in open /\ UNCHANGED phase /\ \E s : told' = [told EXCEPT ![who] = s]
    <3>1. phase[who] = "sent"
      BY <2>3 DEF ClientInv, WaitInv
    <3>2. \A s \in Turns : s # who => told'[s] = told[s]
      BY <2>3 DEF ClientInv, TypeOK
    <3> QED BY <1>4, <2>3, <3>1, <3>2, SayingIsOrderly
  <2>4. CASE UNCHANGED told /\ phase' = [phase EXCEPT ![who] = IF @ \in Final THEN @ ELSE "failed"]
    <3>1. \A s \in Relayed : phase'[s] # phase[s] => phase'[s] \in Final
      BY <2>4 DEF ClientInv, TypeOK, Relayed, Final
    <3> QED BY <2>4, <3>1, SilenceIsOrderly DEF Final
  <2> QED BY <2>1, <2>2, <2>3, <2>4 DEF TurnAcknowledged, Say
<1> QED BY <1>1, <1>2, <1>3, <1>4

LEMMA StepIsOrderly == ASSUME ClientInv, TurnInv, [Next]_vars PROVE Orderly
<1> USE CodexAssumption
<1>1. ASSUME NEW r \in Requests, CommandMissing(r) \/ HandleWhenStarted(r) \/ HandleWhenNotStarted(r)
      PROVE  Orderly
  <2>1. phase[r] = "idle"
    BY <1>1 DEF CommandMissing, HandleWhenStarted, HandleWhenNotStarted, MayArrive
  <2>2. CASE HandleWhenStarted(r)
    BY <2>1, <2>2, ProceedIsOrderly DEF HandleWhenStarted
  <2>3. CASE CommandMissing(r) \/ HandleWhenNotStarted(r)
    <3>1. /\ phase' \in {[phase EXCEPT ![r] = "failed"], [phase EXCEPT ![r] = "starting"]}
          /\ UNCHANGED told
      BY <2>3 DEF CommandMissing, HandleWhenNotStarted, Spawn
    <3>2. \A s \in Relayed : phase'[s] # phase[s] => s = r /\ phase'[s] \in {"failed", "starting"}
      BY <3>1 DEF ClientInv, TypeOK, Relayed
    <3> QED BY <2>1, <3>1, <3>2, SilenceIsOrderly DEF Final
  <2> QED BY <1>1, <2>2, <2>3
<1>2. CASE (\E p \in Processes : Exits(p)) \/ Dies
  <2>1. UNCHANGED told
    BY <1>2 DEF Exits, Dies
  <2>2. \A r \in Relayed : phase'[r] # phase[r] => phase[r] \notin Final /\ phase'[r] \in {"failed", "lost"}
    BY <1>2 DEF Exits, Dies, Relayed
  <2> QED BY <2>1, <2>2, SilenceIsOrderly
<1>3. CASE \E p \in Processes : ReadLine(p)
    BY <1>3, ReadLineIsOrderly
<1>4. CASE \/ \E p \in Processes : CodexTakes(p) \/ Ends(p)
           \/ \E t \in Turns : Streams(t) \/ Asks(t) \/ Finishes(t)
    BY <1>4, CodexStep, SilenceIsOrderly DEF ClientInv
<1>5. CASE React
    BY <1>5, ReactIsOrderly
<1>6. ASSUME NEW u \in Turns, FallbackFires(u) PROVE Orderly
  <2>1. CASE byTurnId[u] = None
    BY <1>6, <2>1, SilenceIsOrderly DEF FallbackFires
  <2>2. CASE byTurnId[u] # None
    BY <1>6, <2>2, FinalizeIsOrderly DEF FallbackFires, Final
  <2> QED BY <2>1, <2>2
<1>7. CASE UNCHANGED vars
    BY <1>7, SilenceIsOrderly DEF vars
<1> QED BY <1>1, <1>2, <1>3, <1>4, <1>5, <1>6, <1>7 DEF Next

LEMMA ServiceInit == Init => Service!Init
<1> SUFFICES ASSUME Init PROVE Service!Init
    OBVIOUS
<1>0. \A r \in Relayed : phase[r] \in {"absent", "idle"}
    BY DEF Init, Relayed, Requests, Rpcs
<1>1. \A r \in Relayed : Stage(r) = "idle"
    BY <1>0 DEF Stage, Final
<1>2. \A r \in Relayed : (IF r \in Turns THEN told[r] ELSE <<"none", None>>) = <<"none", None>>
    BY DEF Init
<1>3. <<"none", None>> \in Statuses \X (Turns \cup {None})
    BY DEF Statuses
<1> QED BY <1>1, <1>2, <1>3 DEF Service!Init

LEMMA ServiceStep == ASSUME ClientInv, ClientInv', TurnInv, [Next]_vars PROVE Service!Step
<1> USE CodexAssumption
<1>1. Orderly
    BY StepIsOrderly
<1> DEFINE Told(r) == IF r \in Turns THEN told[r] ELSE <<"none", None>>
<1>2. ASSUME NEW r \in Relayed
      PROVE  /\ Stage(r)' \in {"idle", "accepted", "answered"}
             /\ Told(r)' \in Statuses \X (Turns \cup {None})
             /\ Stage(r) = "accepted" => Stage(r)' # "idle"
             /\ Stage(r) = "answered" => Stage(r)' = "answered" /\ Told(r)' = Told(r)
             /\ Stage(r)' = "idle" => Told(r)' = Told(r)
  <2>1. /\ phase[r] \in {"absent", "idle", "starting", "sent"} \cup Final
        /\ phase'[r] \in {"absent", "idle", "starting", "sent"} \cup Final
    BY DEF ClientInv, TypeOK, Relayed
  <2>2. /\ Stage(r) = "idle" <=> phase[r] \in {"absent", "idle"}
        /\ Stage(r) = "accepted" <=> phase[r] \in {"starting", "sent"}
        /\ Stage(r) = "answered" <=> phase[r] \in Final
    BY <2>1 DEF Stage, Final
  <2>3. /\ Stage(r)' = "idle" <=> phase'[r] \in {"absent", "idle"}
        /\ Stage(r)' = "accepted" <=> phase'[r] \in {"starting", "sent"}
        /\ Stage(r)' = "answered" <=> phase'[r] \in Final
    BY <2>1 DEF Stage, Final
  <2>4. Told(r)' \in Statuses \X (Turns \cup {None})
    BY DEF ClientInv, TypeOK, Statuses
  <2>5. Told(r)' # Told(r) => phase[r] \notin Final /\ phase'[r] \notin {"absent", "idle"}
    BY <1>1 DEF Orderly
  <2> QED BY <1>1, <2>1, <2>2, <2>3, <2>4, <2>5 DEF Orderly
<1> QED BY <1>2 DEF Service!Step

\* The handlers implement AgentService as long as the phones start the turns of a thread one after the
\* other, however many they are: each request is answered once, and nothing is said of it before it is
\* accepted or after its answer, for any number of requests, turns and processes, however lines, exits,
\* interrupts and timers come.
THEOREM HandlersImplementService == Spec /\ []ThreadsTakeTurns => ImplementsService
<1>1. Init => ClientInv /\ TurnInv /\ Service!Init
    BY ClientInvInit, TurnInvInit, ServiceInit
<1>2. ThreadsTakeTurns /\ ClientInv /\ TurnInv /\ [Next]_vars => ClientInv' /\ TurnInv'
    BY ClientInvStep, TurnInvStep
<1>3. ClientInv /\ TurnInv /\ [Next]_vars /\ ClientInv' => [Service!Step]_Service!vars
    BY ServiceStep
<1> QED BY <1>1, <1>2, <1>3, PTL DEF Spec, ImplementsService, Service!Spec

(***************************************************************************)
(* Turns are not mixed up, while those of a thread follow each other.      *)
(***************************************************************************)
\* A turn is told to be completed by Codex when it is over, and what is said of a turn is about it.
MixInv ==
    /\ \A p \in Processes : \A i \in DOMAIN stdout[p] :
            stdout[p][i].kind = "done" => work[stdout[p][i].of] = "over"
    /\ \A t \in Turns : phase[t] = "done" => work[t] = "over"
    /\ \A t \in Turns : told[t][2] \in {t, None}

\* A step answers a turn as completed when Codex has ended it, and says of a turn what is about it.
Truthful ==
    /\ \A t \in Turns : phase'[t] = "done" => phase[t] = "done" \/ work[t] = "over"
    /\ \A t \in Turns : told'[t] = told[t] \/ told'[t][2] \in {t, None}

LEMMA LineEmitted ==
    ASSUME ClientInv, NEW p \in Processes \cup {None}, NEW line \in Lines, Emits(p, <<line>>)
    PROVE  \A q \in Processes : \A i \in DOMAIN stdout'[q] :
               \/ i \in DOMAIN stdout[q] /\ stdout'[q][i] = stdout[q][i]
               \/ q = p /\ i = Len(stdout[p]) + 1 /\ stdout'[q][i] = line
<1>1. CASE p \in Processes
  <2>1. stdout[p] \in Seq(Lines) /\ stdout' = [stdout EXCEPT ![p] = stdout[p] \o <<line>>]
    BY <1>1 DEF Emits, ClientInv, TypeOK
  <2>2. \A i \in DOMAIN (stdout[p] \o <<line>>) :
            \/ i \in DOMAIN stdout[p] /\ (stdout[p] \o <<line>>)[i] = stdout[p][i]
            \/ i = Len(stdout[p]) + 1 /\ (stdout[p] \o <<line>>)[i] = line
    BY <2>1
  <2> QED BY <1>1, <2>1, <2>2 DEF ClientInv, TypeOK
<1>2. CASE p \notin Processes
    BY <1>2 DEF Emits, ClientInv, TypeOK
<1> QED BY <1>1, <1>2

\* The lines of an answer.
LEMMA AnswerLines ==
    ASSUME ClientInv, NEW p \in Processes, NEW who \in Rpcs \cup Processes, CodexAnswers(p, who)
    PROVE  \A q \in Processes : \A i \in DOMAIN stdout'[q] :
               \/ i \in DOMAIN stdout[q] /\ stdout'[q][i] = stdout[q][i]
               \/ stdout'[q][i].kind \in {"reply", "error", "started"}
<1>1. Line("error", who) \in Lines /\ Line("reply", who) \in Lines
      /\ (who \in Turns => Line("started", who) \in Lines)
    BY DEF Line, Lines
<1> DEFINE Answer(line) == line.kind \in {"reply", "error", "started"}
<1>2. \A k \in {"reply", "error", "started"} : Answer(Line(k, who))
    BY DEF Line
<1> HIDE DEF Answer
<1>3. \E lines \in Seq(Lines) : Emits(p, lines) /\ \A i \in DOMAIN lines : Answer(lines[i])
  <2>1. CASE Emits(p, <<Line("error", who)>>)
    <3>1. <<Line("error", who)>> \in Seq(Lines)
          /\ \A i \in DOMAIN <<Line("error", who)>> : Answer(<<Line("error", who)>>[i])
      BY <1>1, <1>2
    <3> QED BY <2>1, <3>1
  <2>2. CASE Emits(p, <<Line("reply", who)>>)
    <3>1. <<Line("reply", who)>> \in Seq(Lines)
          /\ \A i \in DOMAIN <<Line("reply", who)>> : Answer(<<Line("reply", who)>>[i])
      BY <1>1, <1>2
    <3> QED BY <2>2, <3>1
  <2>3. CASE /\ \/ Emits(p, <<Line("reply", who), Line("started", who)>>)
                \/ Emits(p, <<Line("started", who), Line("reply", who)>>)
             /\ who \in Turns
    <3>1. \A a, b \in {Line("reply", who), Line("started", who)} :
              <<a, b>> \in Seq(Lines) /\ \A i \in DOMAIN <<a, b>> : Answer(<<a, b>>[i])
      BY <1>1, <1>2, <2>3
    <3> QED BY <2>3, <3>1
  <2> QED BY <2>1, <2>2, <2>3 DEF CodexAnswers
<1>4. PICK lines \in Seq(Lines) : Emits(p, lines) /\ \A i \in DOMAIN lines : Answer(lines[i])
    BY <1>3
<1>5. \A q \in Processes : \A i \in DOMAIN stdout'[q] :
         \/ i \in DOMAIN stdout[q] /\ stdout'[q][i] = stdout[q][i]
         \/ Answer(stdout'[q][i])
    BY <1>4, EmitsType DEF ClientInv
<1> QED BY <1>5 DEF Answer

\* The order that a process takes is the first of its input, and what remains is old.
LEMMA TakenOrder ==
    ASSUME ClientInv, NEW p \in Processes, CodexTakes(p)
    PROVE  \E message \in Orders :
               /\ \E i \in DOMAIN stdin[p] : stdin[p][i] = message
               /\ \/ message.kind = "request" /\ CodexAnswers(p, message.of)
                  \/ message.kind = "decision" /\ CodexGoesOn(p, message.of, message.id)
               /\ \A q \in Processes : \A i \in DOMAIN stdin'[q] :
                      \E j \in DOMAIN stdin[q] : stdin'[q][i] = stdin[q][j]
<1> DEFINE message == Head(stdin[p])
<1>1. stdin[p] \in Seq(Orders) /\ stdin[p] # <<>> /\ stdin' = [stdin EXCEPT ![p] = Tail(@)]
    BY DEF CodexTakes, ClientInv, TypeOK
<1>2. /\ message \in Orders /\ message = stdin[p][1] /\ 1 \in DOMAIN stdin[p]
      /\ \A i \in DOMAIN Tail(stdin[p]) :
            i + 1 \in DOMAIN stdin[p] /\ Tail(stdin[p])[i] = stdin[p][i + 1]
    BY <1>1, QueueFacts
<1>3. \A q \in Processes : \A i \in DOMAIN stdin'[q] :
          \E j \in DOMAIN stdin[q] : stdin'[q][i] = stdin[q][j]
    BY <1>1, <1>2 DEF ClientInv, TypeOK
<1>4. \/ message.kind = "request" /\ CodexAnswers(p, message.of)
      \/ message.kind = "decision" /\ CodexGoesOn(p, message.of, message.id)
    BY DEF CodexTakes
<1> HIDE DEF message
<1> QED BY <1>2, <1>3, <1>4

\* What Codex says: answers and deltas, that a turn is done when it is over, and one question.
LEMMA CodexSays ==
    ASSUME ClientInv,
           \/ \E p \in Processes : CodexTakes(p) \/ Ends(p)
           \/ \E t \in Turns : Streams(t) \/ Asks(t) \/ Finishes(t)
    PROVE  \A q \in Processes : \A i \in DOMAIN stdout'[q] :
               \/ i \in DOMAIN stdout[q] /\ stdout'[q][i] = stdout[q][i]
               \/ stdout'[q][i].kind \in {"reply", "error", "started", "delta"}
               \/ stdout'[q][i].kind = "done" /\ work'[stdout'[q][i].of] = "over"
               \/ \E t \in Turns : /\ Asks(t) /\ q = home[t]
                                   /\ i = Len(stdout[q]) + 1 /\ stdout'[q][i] = Line("ask", t)
<1>1. ASSUME NEW p \in Processes, CodexTakes(p)
      PROVE  \A q \in Processes : \A i \in DOMAIN stdout'[q] :
               \/ i \in DOMAIN stdout[q] /\ stdout'[q][i] = stdout[q][i]
               \/ stdout'[q][i].kind \in {"reply", "error", "started"}
  <2>1. PICK message \in Orders :
               \/ message.kind = "request" /\ CodexAnswers(p, message.of)
               \/ message.kind = "decision" /\ CodexGoesOn(p, message.of, message.id)
    BY <1>1, TakenOrder
  <2>2. CASE message.kind = "request"
    <3>1. message.of \in Rpcs \cup Processes /\ CodexAnswers(p, message.of)
      BY <2>1, <2>2 DEF Orders
    <3> QED BY <3>1, AnswerLines
  <2>3. CASE message.kind = "decision"
    BY <2>1, <2>3 DEF CodexGoesOn
  <2> QED BY <2>1, <2>2, <2>3
<1>2. CASE \E p \in Processes : Ends(p)
    BY <1>2 DEF Ends
<1>3. ASSUME NEW t \in Turns, Streams(t) \/ Asks(t) \/ Finishes(t)
      PROVE  \A q \in Processes : \A i \in DOMAIN stdout'[q] :
               \/ i \in DOMAIN stdout[q] /\ stdout'[q][i] = stdout[q][i]
               \/ stdout'[q][i].kind = "delta"
               \/ stdout'[q][i].kind = "done" /\ work'[stdout'[q][i].of] = "over"
               \/ Asks(t) /\ q = home[t] /\ i = Len(stdout[q]) + 1 /\ stdout'[q][i] = Line("ask", t)
  <2>1. home[t] \in Processes \cup {None} /\ work \in [Turns -> {"none", "running", "waiting", "over", "refused"}]
    BY DEF ClientInv, TypeOK, Requests, Rpcs
  <2>2. \A k \in {"delta", "ask", "done"} :
            Line(k, t) \in Lines /\ Line(k, t).kind = k /\ Line(k, t).of = t
    BY DEF Line, Lines
  <2>3. CASE Streams(t)
    BY <2>1, <2>2, <2>3, LineEmitted DEF Streams
  <2>4. CASE Asks(t)
    BY <2>1, <2>2, <2>4, LineEmitted DEF Asks
  <2>5. CASE Finishes(t)
    <3>1. work'[t] = "over" /\ Emits(home[t], <<Line("done", t)>>)
      BY <2>1, <2>5 DEF Finishes
    <3> QED BY <2>1, <2>2, <3>1, LineEmitted
  <2> QED BY <1>3, <2>3, <2>4, <2>5
<1> QED BY <1>1, <1>2, <1>3

\* What the agent reads is removed; it writes nothing there.
LEMMA AgentReads ==
    ASSUME ClientInv,
           \/ \E r \in Requests : CommandMissing(r) \/ HandleWhenStarted(r) \/ HandleWhenNotStarted(r)
           \/ \E p \in Processes : ReadLine(p) \/ Exits(p)
           \/ React \/ Dies
           \/ \E t \in Turns : FallbackFires(t)
           \/ UNCHANGED vars
    PROVE  \E d \in [Processes -> {0, 1}] : \A q \in Processes : \A i \in DOMAIN stdout'[q] :
               i \in Int /\ i >= 1 /\ i + d[q] \in DOMAIN stdout[q] /\ stdout'[q][i] = stdout[q][i + d[q]]
<1>0. \A q \in Processes : stdout[q] \in Seq(Lines)
    BY DEF ClientInv, TypeOK
<1>1. ASSUME NEW p \in Processes, ReadLine(p)
      PROVE  \E d \in [Processes -> {0, 1}] : \A q \in Processes : \A i \in DOMAIN stdout'[q] :
               i \in Int /\ i >= 1 /\ i + d[q] \in DOMAIN stdout[q] /\ stdout'[q][i] = stdout[q][i + d[q]]
  <2>1. stdout[p] # <<>> /\ stdout' = [stdout EXCEPT ![p] = Tail(@)]
    BY <1>1 DEF ReadLine
  <2>2. PICK d \in [Processes -> {0, 1}] : d = [q \in Processes |-> IF q = p THEN 1 ELSE 0]
    OBVIOUS
  <2>3. \A i \in DOMAIN Tail(stdout[p]) :
            i \in Int /\ i >= 1 /\ i + 1 \in DOMAIN stdout[p] /\ Tail(stdout[p])[i] = stdout[p][i + 1]
    BY <1>0, <2>1
  <2>4. ASSUME NEW q \in Processes, NEW i \in DOMAIN stdout'[q]
        PROVE  i \in Int /\ i >= 1 /\ i + d[q] \in DOMAIN stdout[q] /\ stdout'[q][i] = stdout[q][i + d[q]]
    <3>1. CASE q = p
      <4>1. stdout'[q] = Tail(stdout[p]) /\ d[q] = 1
        BY <2>1, <2>2, <3>1 DEF ClientInv, TypeOK
      <4> QED BY <2>3, <3>1, <4>1
    <3>2. CASE q # p
      <4>1. stdout'[q] = stdout[q] /\ d[q] = 0
        BY <2>1, <2>2, <3>2 DEF ClientInv, TypeOK
      <4> QED BY <1>0, <4>1
    <3> QED BY <3>1, <3>2
  <2> QED BY <2>4
<1>2. CASE \A q \in Processes : stdout'[q] = stdout[q] \/ stdout'[q] = <<>>
  <2>1. PICK d \in [Processes -> {0, 1}] : d = [q \in Processes |-> 0]
    OBVIOUS
  <2>2. \A q \in Processes : d[q] = 0
    BY <2>1
  <2>3. ASSUME NEW q \in Processes, NEW i \in DOMAIN stdout'[q]
        PROVE  i \in Int /\ i >= 1 /\ i + d[q] \in DOMAIN stdout[q] /\ stdout'[q][i] = stdout[q][i + d[q]]
    <3>1. stdout'[q] = stdout[q]
      BY <1>2
    <3> QED BY <1>0, <2>2, <3>1
  <2> QED BY <2>3
<1>3. \/ \E p \in Processes : ReadLine(p)
      \/ \A q \in Processes : stdout'[q] = stdout[q] \/ stdout'[q] = <<>>
    BY DEF CommandMissing, HandleWhenStarted, HandleWhenNotStarted, Exits, React, Dies,
           FallbackFires, vars, codex
<1> QED BY <1>1, <1>2, <1>3

\* What has begun is not refused, and what is over stays over.
LEMMA WorkGoesOn ==
    ASSUME ClientInv, TurnInv, [Next]_vars
    PROVE  \A t \in Turns : (Begun(t) => Begun(t)') /\ (work[t] = "over" => work'[t] = "over")
<1>1. ASSUME NEW p \in Processes, CodexTakes(p)
      PROVE  \A t \in Turns : (Begun(t) => Begun(t)') /\ (work[t] = "over" => work'[t] = "over")
  <2>1. PICK message \in Orders :
               /\ \E i \in DOMAIN stdin[p] : stdin[p][i] = message
               /\ \/ message.kind = "request" /\ CodexAnswers(p, message.of)
                  \/ message.kind = "decision" /\ CodexGoesOn(p, message.of, message.id)
    BY <1>1, TakenOrder
  <2>2. CASE message.kind = "request" /\ CodexAnswers(p, message.of)
    <3>1. message.of \in Turns => work[message.of] = "none"
      BY <2>1, <2>2 DEF TurnInv, IsRequest
    <3>2. \A t \in Turns : t # message.of => work'[t] = work[t]
      BY <2>2 DEF CodexAnswers, ClientInv, TypeOK
    <3> QED BY <3>1, <3>2 DEF Begun
  <2>3. CASE CodexGoesOn(p, message.of, message.id)
    BY <2>3 DEF CodexGoesOn, Begun
  <2> QED BY <2>1, <2>2, <2>3
<1>2. ASSUME NEW t \in Turns, Asks(t) \/ Finishes(t)
      PROVE  \A s \in Turns : (Begun(s) => Begun(s)') /\ (work[s] = "over" => work'[s] = "over")
    BY <1>2 DEF Asks, Finishes, Begun, ClientInv, TypeOK
<1>3. CASE (\E p \in Processes : Ends(p)) \/ Dies
    BY <1>3 DEF Ends, Dies, Begun
<1>4. CASE UNCHANGED work
    BY <1>4 DEF Begun
<1> QED BY <1>1, <1>2, <1>3, <1>4
        DEF Next, CommandMissing, HandleWhenStarted, HandleWhenNotStarted, ReadLine, Exits, React,
            FallbackFires, Streams, vars, codex

LEMMA SayTruly ==
    ASSUME ClientInv, NEW t \in Turns, NEW status, NEW u \in {t, None}, Say(t, status, u)
    PROVE  \A s \in Turns : told'[s] = told[s] \/ told'[s][2] \in {s, None}
BY DEF Say, ClientInv, TypeOK

\* What an id leads to is the turn itself.
LEMMA SayByIdTruly ==
    ASSUME ClientInv, TurnInv, NEW u \in Turns, byTurnId[u] # None, NEW status,
           Say(byTurnId[u], status, u)
    PROVE  \A s \in Turns : told'[s] = told[s] \/ told'[s][2] \in {s, None}
<1>1. byTurnId[u] = u
    BY NamedIsPending
<1> QED BY <1>1, SayTruly

LEMMA ProceedTruthful ==
    ASSUME ClientInv, TurnInv, NEW r \in Requests, Proceed(r)
    PROVE  Truthful
<1> USE CodexAssumption
<1>1. \A t \in Turns : phase'[t] = "done" => phase[t] = "done"
  <2>1. /\ \A s \in Requests : s # r => phase'[s] = phase[s]
        /\ r \in Rpcs => phase'[r] = "sent"
    BY ProceedEffect DEF ClientInv
  <2> QED BY <2>1 DEF Requests, Rpcs
<1>2. \A t \in Turns : told'[t] = told[t] \/ told'[t][2] \in {t, None}
  <2>1. CASE r \in Turns
    <3>1. Say(r, "starting", None)
      BY <2>1 DEF Proceed, TurnProceeds, Rpcs, Requests
    <3> QED BY <2>1, <3>1, SayTruly
  <2>2. CASE r \in Stops
    <3>1. \/ UNCHANGED told
          \/ byTurnId[About[r]] # None /\ Say(byTurnId[About[r]], "interrupting", About[r])
      BY <2>2 DEF Proceed, StopProceeds, Rpcs, Requests
    <3> QED BY <2>2, <3>1, SayByIdTruly
  <2>3. CASE r \notin Turns \cup Stops
    BY <2>3 DEF Proceed, BootProceeds, CallProceeds, DecisionProceeds
  <2> QED BY <2>1, <2>2, <2>3
<1> QED BY <1>1, <1>2 DEF Truthful

LEMMA FinalizeTruthful ==
    ASSUME ClientInv, TurnInv, NEW u \in Turns, NEW how, byTurnId[u] # None,
           Finalize(byTurnId[u], u, how), how = "done" => work[u] = "over"
    PROVE  Truthful
<1>1. byTurnId[u] = u
    BY NamedIsPending
<1>2. phase' = [phase EXCEPT ![u] = IF @ \in Final THEN @ ELSE how] /\ Say(u, "ended", u)
    BY <1>1 DEF Finalize
<1>3. \A t \in Turns : phase'[t] = "done" => phase[t] = "done" \/ work[t] = "over"
    BY <1>2 DEF ClientInv, TypeOK, Requests, Rpcs
<1> QED BY <1>2, <1>3, SayTruly DEF Truthful

LEMMA ReadLineTruthful ==
    ASSUME ClientInv, TurnInv, MixInv, NEW p \in Processes, ReadLine(p)
    PROVE  Truthful
<1> DEFINE line == Head(stdout[p])
           u == line.of
<1>1. line \in Lines /\ line = stdout[p][1] /\ 1 \in DOMAIN stdout[p]
  <2>1. stdout[p] \in Seq(Lines) /\ stdout[p] # <<>>
    BY DEF ReadLine, ClientInv, TypeOK
  <2> QED BY <2>1, QueueFacts
<1>2. \/ line.kind \in {"reply", "error"} /\ Response(line)
      \/ line.kind = "started" /\ TurnStarted(u)
      \/ line.kind = "delta" /\ Delta(u)
      \/ line.kind = "ask" /\ ApprovalRequested(u)
      \/ line.kind = "done" /\ TurnCompleted(u)
    BY DEF ReadLine
<1>3. line.kind \in {"delta", "ask", "done"} => u \in Turns
    BY <1>1 DEF Lines
<1>4. line.kind = "done" => work[u] = "over"
    BY <1>1 DEF MixInv
<1> HIDE DEF line, u
<1>5. CASE UNCHANGED <<phase, told>>
    BY <1>5 DEF Truthful
<1>6. CASE u \in Turns /\ byTurnId[u] # None /\ UNCHANGED phase /\ \E s : Say(byTurnId[u], s, u)
  <2>1. PICK s : Say(byTurnId[u], s, u)
    BY <1>6
  <2> QED BY <1>6, <2>1, SayByIdTruly DEF Truthful
<1>7. CASE u \in Turns /\ byTurnId[u] # None /\ Finalize(byTurnId[u], u, "done") /\ work[u] = "over"
    BY <1>7, FinalizeTruthful
<1> QED BY <1>2, <1>3, <1>4, <1>5, <1>6, <1>7
        DEF Response, TurnStarted, Delta, ApprovalRequested, TurnCompleted

LEMMA ReactTruthful ==
    ASSUME ClientInv, TurnInv, React
    PROVE  Truthful
<1> USE CodexAssumption
<1> DEFINE who == reactions[1].of
           kind == reactions[1].kind
<1>1. /\ 1 \in DOMAIN reactions
      /\ \/ who \in Processes /\ Initialized(who)
         \/ who \in Processes /\ InitializeRefused(who)
         \/ who \in Calls /\ CallAnswered(who, kind)
         \/ who \in Turns /\ TurnAcknowledged(who, kind)
         \/ who \in Stops /\ StopAcknowledged(who, kind)
  <2>1. reactions \in Seq([kind : {"reply", "error"}, of : Rpcs \cup Processes]) /\ reactions # <<>>
    BY DEF React, ClientInv, TypeOK
  <2>2. Head(reactions) = reactions[1] /\ 1 \in DOMAIN reactions
    BY <2>1, QueueFacts
  <2> QED BY <2>1, <2>2 DEF React
<1> HIDE DEF kind
<1>2. CASE who \in Processes
  <2> DEFINE r == Starter(who)
  <2>1. r \in Requests
    BY <1>1, <1>2 DEF ClientInv, ProcessInv, HasStarter, Starter
  <2> HIDE DEF r
  <2>2. CASE Initialized(who)
    BY <2>1, <2>2, ProceedTruthful DEF Initialized, r
  <2>3. CASE InitializeRefused(who)
    <3>1. phase' = [phase EXCEPT ![r] = "failed"] /\ UNCHANGED told
      BY <2>3 DEF InitializeRefused, r
    <3> QED BY <3>1 DEF Truthful, ClientInv, TypeOK, Requests, Rpcs
  <2> QED BY <1>1, <1>2, <2>2, <2>3 DEF Rpcs, Requests
<1>3. CASE who \in Calls \cup Stops
  <2>1. /\ phase' \in {[phase EXCEPT ![who] = "done"], [phase EXCEPT ![who] = "failed"]}
        /\ UNCHANGED told
    BY <1>1, <1>3 DEF CallAnswered, StopAcknowledged, Rpcs, Requests
  <2>2. \A t \in Turns : phase'[t] = phase[t]
    BY <1>3, <2>1 DEF ClientInv, TypeOK, Requests, Rpcs
  <2> QED BY <2>1, <2>2 DEF Truthful
<1>4. CASE who \in Turns
  <2>1. TurnAcknowledged(who, kind)
    BY <1>1, <1>4 DEF Rpcs, Requests
  <2>2. \A t \in Turns : phase'[t] = "done" => phase[t] = "done"
    BY <2>1 DEF TurnAcknowledged, ClientInv, TypeOK, Requests, Rpcs
  <2>3. UNCHANGED told \/ Say(who, "starting", who)
    BY <2>1 DEF TurnAcknowledged
  <2> QED BY <1>4, <2>2, <2>3, SayTruly DEF Truthful
<1> QED BY <1>1, <1>2, <1>3, <1>4

LEMMA StepTruthful == ASSUME ClientInv, TurnInv, MixInv, [Next]_vars PROVE Truthful
<1> USE CodexAssumption
<1>1. ASSUME NEW r \in Requests, CommandMissing(r) \/ HandleWhenStarted(r) \/ HandleWhenNotStarted(r)
      PROVE  Truthful
  <2>1. CASE HandleWhenStarted(r)
    BY <2>1, ProceedTruthful DEF HandleWhenStarted
  <2>2. CASE CommandMissing(r) \/ HandleWhenNotStarted(r)
    <3>1. /\ phase' \in {[phase EXCEPT ![r] = "failed"], [phase EXCEPT ![r] = "starting"]}
          /\ UNCHANGED told
      BY <2>2 DEF CommandMissing, HandleWhenNotStarted, Spawn
    <3> QED BY <3>1 DEF Truthful, ClientInv, TypeOK, Requests, Rpcs
  <2> QED BY <1>1, <2>1, <2>2
<1>2. CASE (\E p \in Processes : Exits(p)) \/ Dies
    BY <1>2 DEF Exits, Dies, Truthful, Requests, Rpcs
<1>3. CASE \E p \in Processes : ReadLine(p)
    BY <1>3, ReadLineTruthful
<1>4. CASE \/ \E p \in Processes : CodexTakes(p) \/ Ends(p)
           \/ \E t \in Turns : Streams(t) \/ Asks(t) \/ Finishes(t)
    BY <1>4, CodexStep DEF ClientInv, Truthful
<1>5. CASE React
    BY <1>5, ReactTruthful
<1>6. ASSUME NEW u \in Turns, FallbackFires(u) PROVE Truthful
  <2>1. CASE byTurnId[u] = None
    BY <1>6, <2>1 DEF FallbackFires, Truthful
  <2>2. CASE byTurnId[u] # None
    BY <1>6, <2>2, FinalizeTruthful DEF FallbackFires
  <2> QED BY <2>1, <2>2
<1>7. CASE UNCHANGED vars
    BY <1>7 DEF vars, Truthful
<1> QED BY <1>1, <1>2, <1>3, <1>4, <1>5, <1>6, <1>7 DEF Next

LEMMA MixInvInit == Init => MixInv
<1>1. ASSUME Init PROVE \A p \in Processes : DOMAIN stdout[p] = {}
    BY <1>1 DEF Init
<1>2. ASSUME Init PROVE \A t \in Turns : phase[t] # "done" /\ told[t][2] = None
    BY <1>2 DEF Init, Requests, Rpcs
<1> QED BY <1>1, <1>2 DEF MixInv

LEMMA MixInvStep == ASSUME ClientInv, TurnInv, MixInv, [Next]_vars PROVE MixInv'
<1>1. Truthful /\ \A t \in Turns : work[t] = "over" => work'[t] = "over"
    BY StepTruthful, WorkGoesOn
<1>2. \A p \in Processes : \A i \in DOMAIN stdout'[p] :
          stdout'[p][i].kind = "done" =>
              \/ \E j \in DOMAIN stdout[p] : stdout'[p][i] = stdout[p][j]
              \/ work'[stdout'[p][i].of] = "over"
  <2>1. CASE \/ \E p \in Processes : CodexTakes(p) \/ Ends(p)
             \/ \E t \in Turns : Streams(t) \/ Asks(t) \/ Finishes(t)
    <3>1. \A t \in Turns : Line("ask", t).kind # "done"
      BY DEF Line
    <3> QED BY <2>1, <3>1, CodexSays
  <2>2. CASE \/ \E r \in Requests : CommandMissing(r) \/ HandleWhenStarted(r) \/ HandleWhenNotStarted(r)
             \/ \E p \in Processes : ReadLine(p) \/ Exits(p)
             \/ React \/ Dies
             \/ \E t \in Turns : FallbackFires(t)
             \/ UNCHANGED vars
    BY <2>2, AgentReads
  <2> QED BY <2>1, <2>2 DEF Next
<1>3. \A p \in Processes : \A i \in DOMAIN stdout[p] :
          stdout[p][i].kind = "done" => work'[stdout[p][i].of] = "over"
  <2> SUFFICES ASSUME NEW p \in Processes, NEW i \in DOMAIN stdout[p], stdout[p][i].kind = "done"
               PROVE  work'[stdout[p][i].of] = "over"
    OBVIOUS
  <2>1. stdout[p][i] \in Lines
    BY ElementFact DEF ClientInv, TypeOK
  <2>2. stdout[p][i].of \in Turns
    BY <2>1 DEF Lines
  <2> QED BY <1>1, <2>2 DEF MixInv
<1>4. \A p \in Processes : \A i \in DOMAIN stdout'[p] :
          stdout'[p][i].kind = "done" => work'[stdout'[p][i].of] = "over"
    BY <1>2, <1>3
<1>5. /\ \A t \in Turns : phase'[t] = "done" => work'[t] = "over"
      /\ \A t \in Turns : told'[t][2] \in {t, None}
    BY <1>1 DEF Truthful, MixInv
<1> QED BY <1>4, <1>5 DEF MixInv

\* Turns are not mixed up as long as the phones start those of a thread one after the other: none is
\* answered as completed that Codex has not ended, and what is reported on a turn is about it, be the
\* others of its thread or of another, whatever lines, interrupts and exits come between.
THEOREM TurnsStayApart == Spec /\ []ThreadsTakeTurns => []TurnsAreNotMixed
<1>1. Init => ClientInv /\ TurnInv /\ MixInv
    BY ClientInvInit, TurnInvInit, MixInvInit
<1>2. ThreadsTakeTurns /\ ClientInv /\ TurnInv /\ MixInv /\ [Next]_vars => ClientInv' /\ TurnInv' /\ MixInv'
    BY ClientInvStep, TurnInvStep, MixInvStep
<1>3. TurnInv /\ MixInv => TurnsAreNotMixed
    BY DEF TurnInv, MixInv, TurnsAreNotMixed
<1> QED BY <1>1, <1>2, <1>3, PTL DEF Spec
=============================================================================
