----------------------------- MODULE CodexClient -----------------------------
(***************************************************************************)
(* The desktop agent's client of the Codex app-server (runtime-apps/        *)
(* desktop-agent, src/codex/codex-client.ts), the request handlers that    *)
(* use it (src/main.ts, runServeCommand) and the health they report (src/  *)
(* health).  The Codex process itself is external: it reads its requests   *)
(* in order, answers each or ends, and runs turns side by side.            *)
(*                                                                         *)
(* An action of the agent is one callback of its event loop.  The lines of *)
(* one chunk of a process's output are handled one after the other; the    *)
(* promises they settle react only when the chunk is done.                 *)
(***************************************************************************)
EXTENDS Integers, Sequences, FiniteSets

CONSTANTS
    Boot,       \* the agent's own ensureRuntimeReady after it has connected
    Calls,      \* requests to list, create, archive or resume a thread
    Turns,      \* requests to start a turn; also the Codex turn each starts
    Stops,      \* requests to interrupt a turn
    Decisions,  \* requests to resolve an approval
    Scenarios,  \* sets of requests of which one arrives
    About,      \* the turn that a stop or a decision is about
    Thread,     \* the thread of each turn
    Processes,  \* Codex processes; the bound on how many are started
    Threshold,  \* failed requests in a row that make the agent degraded
    MaxLines,   \* bound on the lines of output that have not been read
    None

Rpcs == Calls \cup Turns \cup Stops
Requests == Rpcs \cup Decisions \cup {Boot}
Ids == 0 .. Cardinality(Turns) - 1

ASSUME CodexAssumption ==
    /\ {Boot} \cap (Rpcs \cup Decisions) = {}
    /\ Calls \cap (Turns \cup Stops \cup Decisions) = {}
    /\ Turns \cap (Stops \cup Decisions) = {} /\ Stops \cap Decisions = {}
    /\ Requests \cap Processes = {}
    /\ About \in [Stops \cup Decisions -> Turns]
    /\ Threshold \in Nat \ {0}
    /\ None \notin Requests \cup Processes \cup Int
    /\ IsFiniteSet(Calls) /\ IsFiniteSet(Turns)

VARIABLES
    child,       \* the state of each process
    stdin,       \* what a process has not read
    stdout,      \* what the agent has not read of a process
    work,        \* what Codex does for each turn
    askId,       \* the id under which a turn's process has asked for approval
    current,     \* this.process
    started,     \* this.started
    pending,     \* keys of this.pending: requests, and processes for their initialize
    phase,       \* how far the handler of each request has come
    home,        \* the process that a request initialises or was written to
    open,        \* pendingTurnsByRpcId
    order,       \* the turns of this map and of before, in the order of their insertion
    turnId,      \* turnId of a pending turn
    byTurnId,    \* pendingTurnsByTurnId
    approvals,   \* pendingApprovalsById
    approvalIds, \* approvalIds of a pending turn
    fallback,    \* turns whose interrupt fallback timer is armed
    reading,     \* the process whose chunk of output is being handled
    reactions,   \* settled promises whose reactions have not run
    broken,      \* a write has hit a process that has ended
    health,      \* runtimeAvailable, "unknown" before hasRuntimeObservation
    failures,    \* consecutiveRequestFailures, up to the threshold
    told,        \* what was last reported on a turn, and the turn it speaks of
    shown,       \* history: turns whose approval a phone has seen
    applied      \* history: the turn that the decision applied to a turn was made for

codex == <<child, stdin, stdout, work, askId>>
starting == <<current, started>>
turns == <<open, order, turnId, byTurnId, approvals, approvalIds>>
loop == <<reading, reactions, broken>>
report == <<health, failures>>
history == <<shown, applied>>
vars == <<codex, starting, pending, phase, home, turns, fallback, loop, report, told, history>>

Final == {"done", "failed", "interrupted", "lost"}
Statuses == {"none", "starting", "streaming", "asked", "interrupting", "ended"}
Lines == [kind : {"reply", "error"}, of : Rpcs \cup Processes]
         \cup [kind : {"started", "delta", "ask", "done"}, of : Turns]
Orders == [kind : {"request"}, of : Rpcs \cup Processes]
          \cup [kind : {"decision"}, of : Turns, id : Ids]

TypeOK ==
    /\ child \in [Processes -> {"free", "running", "failed", "ended", "gone"}]
    /\ stdin \in [Processes -> Seq(Orders)]
    /\ stdout \in [Processes -> Seq(Lines)]
    /\ work \in [Turns -> {"none", "running", "waiting", "over", "refused"}]
    /\ askId \in [Turns -> Ids \cup {None}]
    /\ current \in Processes \cup {None}
    /\ started \in {"no", "yes"}
    /\ pending \subseteq Rpcs \cup Processes
    /\ phase \in [Requests -> {"absent", "idle", "starting", "sent"} \cup Final]
    /\ home \in [Requests -> Processes \cup {None}]
    /\ open \subseteq Turns
    /\ order \in Seq(Turns)
    /\ turnId \in [Turns -> Turns \cup {None}]
    /\ byTurnId \in [Turns -> Turns \cup {None}]
    /\ approvals \in [Ids -> Turns \cup {None}]
    /\ approvalIds \in [Turns -> SUBSET Ids]
    /\ fallback \subseteq Turns
    /\ reading \in Processes \cup {None}
    /\ reactions \in Seq([kind : {"reply", "error"}, of : Rpcs \cup Processes])
    /\ broken \in {"no", "yes"}
    /\ health \in {"unknown", "available", "unavailable"}
    /\ failures \in 0 .. Threshold
    /\ told \in [Turns -> Statuses \X (Turns \cup {None})]
    /\ shown \subseteq Turns
    /\ applied \in [Turns -> Turns \cup {None}]

Init ==
    /\ child = [p \in Processes |-> "free"]
    /\ stdin = [p \in Processes |-> <<>>] /\ stdout = [p \in Processes |-> <<>>]
    /\ work = [t \in Turns |-> "none"] /\ askId = [t \in Turns |-> None]
    /\ current = None /\ started = "no"
    /\ pending = {}
    /\ \E s \in Scenarios : phase = [r \in Requests |-> IF r \in s THEN "idle" ELSE "absent"]
    /\ home = [r \in Requests |-> None]
    /\ open = {} /\ order = <<>>
    /\ turnId = [t \in Turns |-> None] /\ byTurnId = [t \in Turns |-> None]
    /\ approvals = [i \in Ids |-> None] /\ approvalIds = [t \in Turns |-> {}]
    /\ fallback = {}
    /\ reading = None /\ reactions = <<>> /\ broken = "no"
    /\ health = "unknown" /\ failures = 0
    /\ told = [t \in Turns |-> <<"none", None>>]
    /\ shown = {} /\ applied = [t \in Turns |-> None]

\* A callback can run: no chunk is being handled, no reaction is due and no error is about to be
\* emitted that nothing listens to.
Idle == reading = None /\ reactions = <<>> /\ broken = "no"

(***************************************************************************)
(* Writing to Codex.                                                       *)
(***************************************************************************)
\* write: a process that has ended breaks the pipe, one that was never spawned takes nothing.
Write(message) ==
    /\ stdin' = IF child[current] = "running"
                THEN [stdin EXCEPT ![current] = Append(@, message)] ELSE stdin
    /\ broken' = IF child[current] = "ended" THEN "yes" ELSE broken

Say(t, status, u) == told' = [told EXCEPT ![t] = <<status, u>>]

SendRpc(r) ==
    /\ Write([kind |-> "request", of |-> r])
    /\ pending' = pending \cup {r}
    /\ phase' = [phase EXCEPT ![r] = "sent"]
    /\ home' = [home EXCEPT ![r] = current]

CallProceeds(r) ==
    /\ SendRpc(r)
    /\ UNCHANGED <<turns, told>>

TurnProceeds(t) ==
    /\ SendRpc(t)
    /\ open' = open \cup {t} /\ order' = Append(order, t)
    /\ Say(t, "starting", None)
    /\ UNCHANGED <<turnId, byTurnId, approvals, approvalIds>>

StopProceeds(s) ==
    /\ SendRpc(s)
    /\ IF byTurnId[About[s]] = None THEN UNCHANGED told
       ELSE Say(byTurnId[About[s]], "interrupting", About[s])
    /\ UNCHANGED turns

\* The approval is looked up by its id alone.
DecisionProceeds(d) ==
    LET id == askId[About[d]]
        turn == approvals[id]
    IN  /\ IF turn = None
           THEN /\ phase' = [phase EXCEPT ![d] = "failed"]
                /\ UNCHANGED <<stdin, broken, approvals, approvalIds>>
           ELSE /\ phase' = [phase EXCEPT ![d] = "done"]
                /\ Write([kind |-> "decision", of |-> About[d], id |-> id])
                /\ approvals' = [approvals EXCEPT ![id] = None]
                /\ approvalIds' = [approvalIds EXCEPT ![turn] = @ \ {id}]
        /\ UNCHANGED <<pending, home, open, order, turnId, byTurnId, told>>

BootProceeds ==
    /\ phase' = [phase EXCEPT ![Boot] = "done"]
    /\ UNCHANGED <<stdin, broken, pending, home, turns, told>>

\* The rest of a handler once the runtime is ready: the call of the Codex client.
Proceed(r) ==
    \/ r = Boot /\ BootProceeds
    \/ r \in Calls /\ CallProceeds(r)
    \/ r \in Turns /\ TurnProceeds(r)
    \/ r \in Stops /\ StopProceeds(r)
    \/ r \in Decisions /\ DecisionProceeds(r)

(***************************************************************************)
(* A request of the relay arrives.                                         *)
(***************************************************************************)
\* A stop or a decision answers what the phone has seen of the turn.
MayArrive(r) ==
    /\ phase[r] = "idle"
    /\ r \in Stops => \E t \in Turns : told[t][2] = About[r]
    /\ r \in Decisions => About[r] \in shown

\* resolveRuntimeCommandPath finds no codex command.
CommandMissing(r) ==
    /\ Idle /\ MayArrive(r)
    /\ phase' = [phase EXCEPT ![r] = "failed"]
    /\ health' = "unavailable"
    /\ UNCHANGED <<codex, starting, pending, home, turns, fallback, loop, failures, told, history>>

\* start returns at once.
HandleWhenStarted(r) ==
    /\ Idle /\ MayArrive(r)
    /\ started = "yes"
    /\ Proceed(r)
    /\ UNCHANGED <<child, stdout, work, askId, starting, fallback, reading, reactions, report,
                   history>>

\* Mutant of Spawn: the runtime is reported available when its process has been spawned.
SpawnAvailable(r, p) ==
    /\ child' = [child EXCEPT ![p] = "running"]
    /\ stdin' = [stdin EXCEPT ![p] = <<[kind |-> "request", of |-> p]>>]
    /\ health' = "available"
    /\ current' = p
    /\ pending' = pending \cup {p}
    /\ phase' = [phase EXCEPT ![r] = "starting"]
    /\ home' = [home EXCEPT ![r] = p]

\* start: a process is spawned and initialised; a spawn that fails emits an error but no exit.
Spawn(r, p) ==
    /\ \/ /\ child' = [child EXCEPT ![p] = "running"]
          /\ stdin' = [stdin EXCEPT ![p] = <<[kind |-> "request", of |-> p]>>]
          /\ UNCHANGED health
       \/ /\ child' = [child EXCEPT ![p] = "failed"]
          /\ health' = "unavailable"
          /\ UNCHANGED stdin
    /\ current' = p
    /\ pending' = pending \cup {p}
    /\ phase' = [phase EXCEPT ![r] = "starting"]
    /\ home' = [home EXCEPT ![r] = p]

\* Mutant of HandleWhenNotStarted: started is not tested, each request starts a process.
HandleAnyway(r) ==
    /\ Idle /\ MayArrive(r)
    /\ \E p \in Processes : child[p] = "free"
    /\ LET p == CHOOSE q \in Processes : child[q] = "free" IN Spawn(r, p)
    /\ UNCHANGED <<stdout, work, askId, started, turns, fallback, loop, failures, told, history>>

\* The handler spawns a process, whatever process another handler is initialising, and waits for
\* the answer to initialize.
HandleWhenNotStarted(r) ==
    /\ Idle /\ MayArrive(r)
    /\ started = "no"
    /\ \E p \in Processes : child[p] = "free"
    /\ LET p == CHOOSE q \in Processes : child[q] = "free" IN Spawn(r, p)
    /\ UNCHANGED <<stdout, work, askId, started, turns, fallback, loop, failures, told, history>>

(***************************************************************************)
(* A line of a process's output.                                           *)
(***************************************************************************)
\* A response: its waiter, if there is one, will react.
Response(line) ==
    /\ IF line.of \in pending
       THEN /\ pending' = pending \ {line.of}
            /\ reactions' = Append(reactions, line)
       ELSE UNCHANGED <<pending, reactions>>
    /\ UNCHANGED <<stdin, phase, turns, report, told, shown, broken>>

AttachTurnId(t, u) ==
    IF turnId[t] = u THEN UNCHANGED <<turnId, byTurnId>>
    ELSE /\ turnId' = [turnId EXCEPT ![t] = u]
         /\ byTurnId' = [byTurnId EXCEPT ![u] = t]

\* Mutant of WithoutId: the turns that have no id yet, of any thread.
WithoutIdAnywhere(thread) == {i \in DOMAIN order : order[i] \in open /\ turnId[order[i]] = None}

\* findPendingTurnByThread looks for the first of these: the thread's turns that have no id yet.
WithoutId(thread) ==
    {i \in DOMAIN order :
        order[i] \in open /\ Thread[order[i]] = thread /\ turnId[order[i]] = None}

TurnStarted(u) ==
    /\ \/ WithoutId(Thread[u]) = {} /\ UNCHANGED <<turnId, byTurnId>>
       \/ \E i \in WithoutId(Thread[u]) :
             (\A j \in WithoutId(Thread[u]) : i <= j) /\ AttachTurnId(order[i], u)
    /\ UNCHANGED <<stdin, pending, phase, open, order, approvals, approvalIds, reactions, report,
                   told, shown, broken>>

Delta(u) ==
    /\ IF byTurnId[u] = None THEN UNCHANGED told ELSE Say(byTurnId[u], "streaming", u)
    /\ UNCHANGED <<stdin, pending, phase, turns, reactions, report, shown, broken>>

\* Mutant of Finalize: the turn stays in pendingTurnsByTurnId.
FinalizeKeepsId(t, u, how) ==
    /\ open' = open \ {t}
    /\ approvals' = [i \in Ids |-> IF i \in approvalIds[t] THEN None ELSE approvals[i]]
    /\ phase' = [phase EXCEPT ![t] = IF @ \in Final THEN @ ELSE how]
    /\ failures' = IF phase[t] \in Final THEN failures ELSE 0
    /\ Say(t, "ended", u)
    /\ UNCHANGED <<order, turnId, byTurnId, approvalIds>>

\* Mutant of Finalize: the approvals of the turn stay on offer.
FinalizeKeepsApprovals(t, u, how) ==
    /\ byTurnId' = [byTurnId EXCEPT ![u] = None]
    /\ open' = open \ {t}
    /\ phase' = [phase EXCEPT ![t] = IF @ \in Final THEN @ ELSE how]
    /\ failures' = IF phase[t] \in Final THEN failures ELSE 0
    /\ turnId' = [turnId EXCEPT ![t] = None]
    /\ Say(t, "ended", u)
    /\ UNCHANGED <<order, approvals, approvalIds>>

\* The end of a pending turn: its approvals go with it, and its promise is resolved.
Finalize(t, u, how) ==
    /\ byTurnId' = [byTurnId EXCEPT ![u] = None]
    /\ open' = open \ {t}
    /\ approvals' = [i \in Ids |-> IF i \in approvalIds[t] THEN None ELSE approvals[i]]
    /\ phase' = [phase EXCEPT ![t] = IF @ \in Final THEN @ ELSE how]
    /\ failures' = IF phase[t] \in Final THEN failures ELSE 0
    /\ turnId' = [turnId EXCEPT ![t] = None]
    /\ Say(t, "ended", u)
    /\ UNCHANGED <<order, approvalIds>>

TurnCompleted(u) ==
    /\ IF byTurnId[u] = None THEN UNCHANGED <<turns, phase, failures, told>>
       ELSE Finalize(byTurnId[u], u, "done")
    /\ UNCHANGED <<stdin, pending, reactions, health, shown, broken>>

\* An approval request for a turn that is not pending is declined to whatever process is current.
ApprovalRequested(u) ==
    LET t == byTurnId[u]
        id == askId[u]
    IN  /\ IF t = None
           THEN /\ IF current = None THEN broken' = "yes" /\ UNCHANGED stdin
                   ELSE Write([kind |-> "decision", of |-> u, id |-> id])
                /\ UNCHANGED <<approvals, approvalIds, told, shown>>
           ELSE /\ approvals' = [approvals EXCEPT ![id] = t]
                /\ approvalIds' = [approvalIds EXCEPT ![t] = @ \cup {id}]
                /\ Say(t, "asked", u)
                /\ shown' = shown \cup {u}
                /\ UNCHANGED <<stdin, broken>>
        /\ UNCHANGED <<pending, phase, open, order, turnId, byTurnId, reactions, report>>

\* handleStdoutLine; the chunk ends with the line or goes on.
ReadLine(p) ==
    /\ Idle \/ (reading = p /\ broken = "no")
    /\ stdout[p] # <<>>
    /\ LET line == Head(stdout[p])
       IN  /\ stdout' = [stdout EXCEPT ![p] = Tail(@)]
           /\ reading' \in IF Tail(stdout[p]) = <<>> THEN {None} ELSE {None, p}
           /\ \/ line.kind \in {"reply", "error"} /\ Response(line)
              \/ line.kind = "started" /\ TurnStarted(line.of)
              \/ line.kind = "delta" /\ Delta(line.of)
              \/ line.kind = "ask" /\ ApprovalRequested(line.of)
              \/ line.kind = "done" /\ TurnCompleted(line.of)
    /\ UNCHANGED <<child, work, askId, starting, home, fallback, applied>>

(***************************************************************************)
(* Reactions of promises, in the order in which they were settled.         *)
(***************************************************************************)
Starter(p) == CHOOSE r \in Requests : phase[r] = "starting" /\ home[r] = p

\* The rest of start, and of the handler that called it; initialized goes to the current process.
Initialized(p) ==
    /\ started' = "yes" /\ health' = "available"
    /\ Proceed(Starter(p))
    /\ UNCHANGED <<failures, fallback>>

InitializeRefused(p) ==
    /\ phase' = [phase EXCEPT ![Starter(p)] = "failed"]
    /\ health' = "unavailable"
    /\ UNCHANGED <<stdin, broken, started, pending, home, turns, fallback, failures, told>>

Failures(n) == IF failures + n > Threshold THEN Threshold ELSE failures + n

CallAnswered(r, kind) ==
    /\ phase' = [phase EXCEPT ![r] = IF kind = "reply" THEN "done" ELSE "failed"]
    /\ failures' = IF kind = "reply" THEN 0 ELSE Failures(1)
    /\ UNCHANGED <<stdin, broken, started, pending, home, turns, fallback, health, told>>

\* The turn is attached to the id of the response, or it has failed to start.
TurnAcknowledged(t, kind) ==
    /\ IF kind = "reply"
       THEN /\ IF t \in open THEN AttachTurnId(t, t) /\ Say(t, "starting", t)
               ELSE UNCHANGED <<turnId, byTurnId, told>>
            /\ UNCHANGED <<open, phase, failures>>
       ELSE /\ open' = open \ {t}
            /\ phase' = [phase EXCEPT ![t] = IF @ \in Final THEN @ ELSE "failed"]
            /\ failures' = IF phase[t] \in Final THEN failures ELSE Failures(1)
            /\ UNCHANGED <<turnId, byTurnId, told>>
    /\ UNCHANGED <<stdin, broken, started, pending, home, order, approvals, approvalIds, fallback,
                   health>>

StopAcknowledged(s, kind) ==
    /\ phase' = [phase EXCEPT ![s] = IF kind = "reply" THEN "done" ELSE "failed"]
    /\ fallback' = IF kind = "reply" THEN fallback \cup {About[s]} ELSE fallback
    /\ UNCHANGED <<stdin, broken, started, pending, home, turns, report, told>>

React ==
    /\ reading = None /\ reactions # <<>> /\ broken = "no"
    /\ reactions' = Tail(reactions)
    /\ LET who == Head(reactions).of
           kind == Head(reactions).kind
       IN  \/ who \in Processes /\ kind = "reply" /\ Initialized(who)
           \/ who \in Processes /\ kind = "error" /\ InitializeRefused(who)
           \/ who \in Calls /\ CallAnswered(who, kind)
           \/ who \in Turns /\ TurnAcknowledged(who, kind)
           \/ who \in Stops /\ StopAcknowledged(who, kind)
    /\ UNCHANGED <<child, stdout, work, askId, current, reading, history>>

(***************************************************************************)
(* The interrupt fallback, the exit of a process and of the agent.         *)
(***************************************************************************)
FallbackFires(u) ==
    /\ Idle /\ u \in fallback
    /\ fallback' = fallback \ {u}
    /\ IF byTurnId[u] = None THEN UNCHANGED <<turns, phase, failures, told>>
       ELSE Finalize(byTurnId[u], u, "interrupted")
    /\ UNCHANGED <<codex, starting, pending, home, loop, health, history>>

\* Mutant of Rejected: the starts that wait for their initialize are forgotten.
RejectedWithoutStarts == {r \in Requests : r \in pending \/ r \in open}

\* Requests whose promise an exit rejects: those that wait for a response, the starts that wait for
\* theirs, and the turns.
Rejected == {r \in Requests : \/ r \in pending \/ r \in open
                              \/ phase[r] = "starting" /\ home[r] \in pending}

\* The exit event, of whatever process: it ends all that is pending.
Exits(p) ==
    /\ Idle
    /\ child[p] = "ended"
    /\ child' = [child EXCEPT ![p] = "gone"]
    /\ current' = None /\ started' = "no"
    /\ health' = "unavailable"
    /\ failures' = Failures(Cardinality({r \in Calls \cup Turns :
                                            r \in Rejected /\ phase[r] = "sent"}))
    /\ phase' = [r \in Requests |-> IF r \in Rejected /\ phase[r] \notin Final THEN "failed"
                                    ELSE phase[r]]
    /\ pending' = {}
    /\ open' = {} /\ order' = <<>>
    /\ turnId' = [t \in Turns |-> None] /\ byTurnId' = [t \in Turns |-> None]
    /\ approvals' = [i \in Ids |-> None] /\ approvalIds' = [t \in Turns |-> {}]
    /\ UNCHANGED <<stdin, stdout, work, askId, home, fallback, loop, told, history>>

\* An exception that nothing catches ends the agent: a broken pipe, a write without a process in a
\* line handler, a send without a connection.  Its processes end with it; launchd starts it again.
Dies ==
    /\ child' = [p \in Processes |-> IF child[p] = "free" THEN "free" ELSE "gone"]
    /\ stdin' = [p \in Processes |-> <<>>] /\ stdout' = [p \in Processes |-> <<>>]
    /\ work' = [t \in Turns |-> IF work[t] \in {"running", "waiting"} THEN "over" ELSE work[t]]
    /\ current' = None /\ started' = "no"
    /\ pending' = {}
    /\ phase' = [r \in Requests |->
                    IF r = Boot /\ phase[r] # "absent" THEN "idle"
                    ELSE IF phase[r] \in Final \cup {"absent", "idle"} THEN phase[r] ELSE "lost"]
    /\ open' = {} /\ order' = <<>>
    /\ turnId' = [t \in Turns |-> None] /\ byTurnId' = [t \in Turns |-> None]
    /\ approvals' = [i \in Ids |-> None] /\ approvalIds' = [t \in Turns |-> {}]
    /\ fallback' = {}
    /\ reading' = None /\ reactions' = <<>> /\ broken' = "no"
    /\ health' = "unknown" /\ failures' = 0
    /\ UNCHANGED <<askId, home, told, history>>

(***************************************************************************)
(* The Codex process (external).                                           *)
(***************************************************************************)
\* What Codex does during a callback is seen after it: it may as well do it between two.
Between == reading = None /\ reactions = <<>>
Emits(p, lines) == stdout' = [stdout EXCEPT ![p] = @ \o lines]
Line(kind, who) == [kind |-> kind, of |-> who]

\* It refuses a request or answers it.  The response to turn/start and turn/started come in either
\* order.
CodexAnswers(p, who) ==
    /\ \/ /\ Emits(p, <<Line("error", who)>>)
          /\ work' = [t \in Turns |-> IF t = who THEN "refused" ELSE work[t]]
       \/ /\ who \notin Turns
          /\ Emits(p, <<Line("reply", who)>>)
          /\ UNCHANGED work
       \/ /\ who \in Turns
          /\ \/ Emits(p, <<Line("reply", who), Line("started", who)>>)
             \/ Emits(p, <<Line("started", who), Line("reply", who)>>)
          /\ work' = [work EXCEPT ![who] = "running"]
    /\ UNCHANGED applied

\* Its turn that has asked under this id goes on with the decision made for who.
CodexGoesOn(p, who, id) ==
    /\ LET asking == {t \in Turns : home[t] = p /\ work[t] = "waiting" /\ askId[t] = id}
       IN  /\ work' = [t \in Turns |-> IF t \in asking THEN "running" ELSE work[t]]
           /\ applied' = [t \in Turns |-> IF t \in asking THEN who ELSE applied[t]]
    /\ UNCHANGED stdout

\* It takes an order.
CodexTakes(p) ==
    /\ Between
    /\ child[p] = "running" /\ stdin[p] # <<>>
    /\ stdin' = [stdin EXCEPT ![p] = Tail(@)]
    /\ LET message == Head(stdin[p])
       IN  \/ message.kind = "request" /\ CodexAnswers(p, message.of)
           \/ message.kind = "decision" /\ CodexGoesOn(p, message.of, message.id)
    /\ UNCHANGED <<child, askId, starting, pending, phase, home, turns, fallback, loop, report,
                   told, shown>>

CodexOnly == UNCHANGED <<stdin, starting, pending, phase, home, turns, fallback, loop, report,
                         told, history>>

Streams(t) ==
    /\ Between
    /\ work[t] = "running"
    /\ Len(stdout[home[t]]) < MaxLines
    /\ Emits(home[t], <<Line("delta", t)>>)
    /\ CodexOnly /\ UNCHANGED <<child, work, askId>>

\* Each process numbers its own requests.
Asks(t) ==
    /\ Between
    /\ work[t] = "running" /\ askId[t] = None
    /\ askId' = [askId EXCEPT ![t] =
                    Cardinality({u \in Turns : home[u] = home[t] /\ askId[u] # None})]
    /\ work' = [work EXCEPT ![t] = "waiting"]
    /\ Emits(home[t], <<Line("ask", t)>>)
    /\ CodexOnly /\ UNCHANGED child

Finishes(t) ==
    /\ work[t] \in {"running", "waiting"}
    /\ work' = [work EXCEPT ![t] = "over"]
    /\ Emits(home[t], <<Line("done", t)>>)
    /\ CodexOnly /\ UNCHANGED <<child, askId>>

Ends(p) ==
    /\ Between
    /\ child[p] = "running"
    /\ child' = [child EXCEPT ![p] = "ended"]
    /\ stdin' = [stdin EXCEPT ![p] = <<>>]
    /\ work' = [t \in Turns |-> IF home[t] = p /\ work[t] \in {"running", "waiting"} THEN "over"
                              ELSE work[t]]
    /\ UNCHANGED <<stdout, askId, starting, pending, phase, home, turns, fallback, loop, report,
                   told, history>>

Next ==
    \/ \E r \in Requests : CommandMissing(r) \/ HandleWhenStarted(r) \/ HandleWhenNotStarted(r)
    \/ \E p \in Processes : ReadLine(p) \/ Exits(p) \/ CodexTakes(p) \/ Ends(p)
    \/ React
    \/ \E t \in Turns : FallbackFires(t) \/ Streams(t) \/ Asks(t) \/ Finishes(t)
    \/ Dies

Spec == Init /\ [][Next]_vars

\* The agent handles what has happened, Codex answers what it has read and ends a turn that it works
\* on.  A turn that waits for an approval waits as long as nobody decides: no fairness makes Codex give
\* it up, a process end, a phone decide, a request arrive or a timer fire.
Progress ==
    \/ React
    \/ \E p \in Processes : ReadLine(p) \/ Exits(p) \/ CodexTakes(p)
    \/ broken = "yes" /\ Dies

Fairness == WF_vars(Progress) /\ \A t \in Turns : WF_vars(work[t] = "running" /\ Finishes(t))

FairSpec == Spec /\ Fairness
-----------------------------------------------------------------------------
(***************************************************************************)
(* What the phones do.                                                     *)
(***************************************************************************)
\* turn/started of u is still to be written or to be read.
StartUnread(u) ==
    \E p \in Processes :
        \/ \E i \in DOMAIN stdin[p] : stdin[p][i] = [kind |-> "request", of |-> u]
        \/ \E i \in DOMAIN stdout[p] : stdout[p][i] = [kind |-> "started", of |-> u]

\* The phones start the turns of a thread one after the other: none while an earlier one has no answer
\* or its start has not been seen.  Both apps hold a message back as a draft while the thread's turn is
\* active; the agent does not see to it, and findPendingTurnByThread relies on it.
ThreadsTakeTurns ==
    \A t, u \in Turns :
        t # u /\ Thread[t] = Thread[u] /\ phase[t] \in {"starting", "sent"} =>
            phase[u] \in {"absent", "idle"} \cup Final /\ ~StartUnread(u)

(***************************************************************************)
(* Safety.  The last three hold where the turns of a thread follow each    *)
(* other; two pending turns of one thread can be mixed up, by turn/started *)
(* of the first or by the refusal of one.                                  *)
(***************************************************************************)
\* Whatever processes were started side by side, all that waits for Codex waits for this.process,
\* whose exit has not been handled, and a start has succeeded since the last exit: no exit leaves
\* anybody waiting.
WaitersAreOnCurrent ==
    \A r \in Rpcs : r \in pending \/ r \in open =>
        started = "yes" /\ home[r] = current /\ child[current] # "gone"

\* A relay that is told "online" can rely on this: since the last exit of any Codex one has answered
\* initialize, and this.process, be it that one or a later one, is there.
HonestHealth == health = "available" => started = "yes" /\ child[current] # "gone"

\* An approval is on offer only while its turn is pending and Codex waits for it, or has gone on
\* without the agent knowing yet: the turn is over, or was given the decision of another.
ApprovalsOpen ==
    \A i \in Ids : approvals[i] # None =>
        /\ approvals[i] \in open
        /\ askId[approvals[i]] = i
        /\ work[approvals[i]] = "running" => applied[approvals[i]] # approvals[i]

\* A turn is answered as completed only when Codex has ended it, and what is reported on it is
\* about itself.
TurnsAreNotMixed ==
    \A t \in Turns :
        /\ phase[t] = "done" => work[t] = "over"
        /\ told[t][2] \in {t, None}
        /\ byTurnId[t] \in {t, None}

(***************************************************************************)
(* The promise to the relay.                                               *)
(***************************************************************************)
Relayed == Requests \ {Boot}
Stage(r) == CASE phase[r] \in {"absent", "idle"} -> "idle"
              [] phase[r] \in {"starting", "sent"} -> "accepted"
              [] phase[r] \in Final -> "answered"

Service == INSTANCE AgentService WITH
    Requests <- Relayed,
    Statuses <- Statuses \X (Turns \cup {None}),
    stage <- [r \in Relayed |-> Stage(r)],
    said <- [r \in Relayed |-> IF r \in Turns THEN told[r] ELSE <<"none", None>>]

\* The handlers implement AgentService: one answer, and no status, delta or question after it,
\* whatever chunks, exits and timers come between.
ImplementsService == Service!Spec

\* From every state on, a request that was accepted is answered in the end, unless a process could not
\* be spawned, or it is a turn that comes to wait for the decision of an approval, which nothing forces.
RequestsAreAnswered ==
    \A r \in Relayed :
        Stage(r) = "accepted" ~>
            \/ Stage(r) = "answered"
            \/ \E p \in Processes : child[p] = "failed"
            \/ r \in Turns /\ work[r] = "waiting"
=============================================================================
