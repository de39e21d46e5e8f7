# KodexLink: TLA+ development

KodexLink lets a phone drive the Codex agent that runs on a desktop computer. Phones and desktop
agents never talk to each other directly: each holds one WebSocket to a relay server, which
routes requests by binding (an agent paired with a phone) and streams the agent's answers back.
This directory holds TLA+ models of that system, the TLC configurations that check them, and
TLAPS proofs. Paths below are relative to the repository; `relay/` stands for
`runtime-apps/relay-server/src/`, `agent/` for `runtime-apps/desktop-agent/src/`.

    tlc -config relay_server.cfg MCRelayRoutes.tla     # one run; PROJECT.json lists them all
    tlapm RelayServerProofs.tla                        # the proofs of one module

## 1. The system

| component | code | state | operations | modelled in |
|---|---|---|---|---|
| connection plane | relay/server.ts | sessions, the socket of each device, heartbeat timers, controllers, presence (maps of one Node process) | login, close, heartbeat, takeover, health report, dev reset | RelaySessions |
| request routing | relay/server.ts | pendingClients, handlers waiting on PostgreSQL or Redis, idempotency keys in Redis | route a request, forward an answer or a stream | RelayServer |
| presence broadcast | relay/server.ts | none; messages in flight | broadcast, presence query | - |
| pairing | relay/pairing, relay/db/store.ts, redis-store.ts, postgres.ts | codes in Redis, device_bindings in PostgreSQL | create and claim a code | PairingClaim |
| token store | relay/auth, relay/db/postgres.ts | devices, device_tokens | bootstrap, validate, refresh, revoke | TokenStore |
| HTTP API, configuration, CLI | relay/server.ts, relay/config | none | parsing, status codes | - |
| migrator | relay/db/migrator.ts | schema_migrations, an advisory lock | migrate | - |
| agent's relay client, heartbeat | agent/relay/relay-client.ts, packages/shared heartbeat | socket, connectPromise, reconnect timer, latest health | connect, callbacks of sockets, reportHealth, answers | AgentRelayClient |
| codex client and the request handlers around it | agent/codex/codex-client.ts, agent/main.ts | child process, pending RPCs, turns, approvals, fallback timers | start, call, turn, interrupt, approval, lines, exit | CodexClient, which implements AgentService |
| health controller | agent/health | observation, failure counter | record, probe | CodexClient |
| thread resume window | agent/relay/thread-resume-window.ts | none | paging | - |
| pairing manager, profile and credential stores | agent/pairing, agent/product | profile file, keychain, QR code in memory | resolve an identity, renew its tokens, create a code, reset | AgentIdentity |
| settings, service state and panel stores | agent/product | three files | load, write, clear, touch | DesktopService |
| service, connection monitor | agent/service, agent/main.ts | LaunchAgent, environment file, launchd's job, notification timer | start, install, restart, stop, remove, status; notices | DesktopService; progress of the connection in AgentRelayClient |
| local panel | agent/local-panel | the panel's process, its requests | QR code, refresh, reset, restart, heartbeat, close | requests in AgentIdentity, lifetime in DesktopService; page and wording left out |
| terminal UI, preflight | agent/codex, agent/main.ts | - | presentation, sequential I/O | - |
| phones: relay connection, tokens, pairing, conversation | ios/, android/ | connection state, pending requests, tokens, cached threads | connect, request, refresh, resume | - |
| phones: screens, purchases, advertising; scripts; test drivers | ios/, android/, scripts/ | - | - | not planned |

Interaction. A phone claims a pairing code over HTTP, which writes a binding; both sides log in to
the relay with an access token that the token store validates; a phone's request goes through the
relay's handler (binding lookup in PostgreSQL, control check, idempotency key in Redis) to the
agent's socket; the agent hands it to Codex and sends answers and streams back by request id.
Control of an agent belongs to one phone at a time; reads need none. On the desktop, the service that
launchd keeps alive, the commands of the terminal and the requests of the local panel are separate
processes, or callbacks side by side in one: they share a profile file, the keychain, three state
files and launchd's job, and no lock guards any of them.

What is hard. The relay and the agent are event loops: a handler runs alone up to its next
`await`, then anything may run before it goes on. A chunk of a process's output is handled line by
line before the promises that it settles react. Processes write back profiles that they read several
awaits ago. Sockets are replaced by reconnects while callbacks of the old ones are still due.
PostgreSQL transactions interleave query by query. Redis keys expire between calls of one operation.
Calls fail before or after they took effect. Peers vanish without closing. Files are truncated before
they are filled, and read in between. The hazards of the code, each at its line with the properties
that would catch it, are listed in PROJECT.json.

What makes each component correct:

- connection plane: one socket speaks for a device; registry, sessions and timers agree; presence
  and control survive late close events; a vanished peer is dropped in the end.
- routing: one terminal reply per request, no stream after it, one forward per idempotency key,
  every request settles.
- pairing: one phone per code, one default binding per phone, no code locked for ever.
- token store: one working pair per device, a refresh token good once, dead tokens stay dead, a
  reset that leaves nothing, and no query left hanging.
- relay client: one connection, retried after every loss, supervised, truly reported.
- codex client: one answer per request, nothing said of a turn after it, no waiter left on a dead
  process, no approval on offer that nobody waits for, honest health.
- identity: a service comes to an identity in the end, whatever was lost before. That a pair stays with
  its agent, or that an identity that was given up stays so, the code does not guarantee (section 5).
- service: one LaunchAgent, running what was installed last, files that tell of it, and outages
  announced.

## 2. Modules

A component's module declares CONSTANTS and their assumptions, the variables, one action per
handler step, the specification with fairness apart, properties, and next to each action that a
property depends on its mutants: plausible bugs that the runs are known to catch.
`MC<module>.tla` gives TLC definitions for the constants and bounds, `<module>Proofs.tla` holds
the theorems. PROJECT.json maps every definition to the lines it models.

**RelaySessions** (connection plane). An action is the code between two awaits; a waiting handler
is a value of `authenticating` or `takeovers`. `agentSockets` and `mobileSockets` are one map.
A socket is used once: a reconnect is another socket. It is unused, open, closing or closed;
messages arrive also while it closes, so a login can complete on a socket that is no longer open.
The registry then keeps a dead entry until the device's next login: the code lets this happen and
the properties are about open sockets. `silent` sockets are those whose peer has vanished.
TakeoverGranted takes the grant and the revocation notice together: the await between them reads
bindings, and changes no state that is modelled.

**RelayServer** EXTENDS it with routing. `stage` says at which await a request's handler is; what
the handler carries across is in `issuer`, `sender`, `route`, all else is read anew, as in the
code: a write checked under a phone's control is forwarded although control has gone meanwhile. A key
may be consumed by a SET whose answer is lost, and expires. An agent that has a request may answer it
any number of times, over any of its sockets, and stream before and after; the relay forwards what
comes while pendingClients has the id. `replies` is all that a requester is sent.

**PairingClaim**. One action per awaited call of Redis or PostgreSQL. A call may throw before or
after it was executed, the key may expire, and the relay may crash between any two steps.
A key in its last half second is `ending`: Redis rounds its TTL to 0, with which the lock script deletes
it and a release leaves it locked. createBinding's INSERT computes whether the phone has a default, and the unique index decides when
two do so at once. ioredis keeps one connection and answers in order, so a resent SET or DEL is
not reordered and is not modelled apart.

**TokenStore**. One device, its calls as transactions under READ COMMITTED: a statement chooses
rows among those committed when it starts, locks them one by one, waits for holders and tests its
condition again. Deadlocks occur and PostgreSQL breaks them. The unique indexes on active tokens
are not assumed: they would never be hit, which OneActivePair shows. The last INSERT is taken
with its COMMIT. A crash of the relay is every call's failing query.

**AgentRelayClient**. One action per callback of the agent's event loop, with the promise
reactions that run before the next: a rejected attempt schedules the reconnect at once. A socket
is connecting, open, closing (the agent closed it; messages still arrive) or ending (its close
event is due). `connectPromise` is the socket whose attempt it stands for. `send` throws without
an open socket; where nothing catches it the process ends, and launchd starts it again with
refreshed tokens. In the foreground mode of the command line nobody restarts it. Heartbeat ticks
are counted up to `MaxMisses`; the backoff's delays are not. `LoginInv` puts together what a login
owes: an agent that says online has logged in, is watched by the heartbeat, and has told the relay its
health.

**CodexClient** (codex client, handlers, health). An action of the agent is one callback of its
event loop. A chunk of output is handled line by line (`reading`) and the promises that it settles
wait in `reactions` until it is done: so a turn's answer and its end, in one chunk, are handled before
the code behind `await sendRpc` runs. Handlers that find the runtime not started each spawn a process
and wait for its initialize; the last spawned is `current`, and the exit of any of them ends all that
is pending, as in the code. A write to a process that has ended breaks the agent (`broken`), and
`Dies` is its end. Codex itself is external: it reads in order, answers or refuses, streams, asks,
finishes in any order, or ends. **AgentService** says what the agent promises the relay, one answer per
request and nothing said of it afterwards; CodexClient implements it under the mapping of phases to
stages (`ImplementsService` is `Service!Spec`), and `RequestsAreAnswered` is its `Promise` where every
spawn succeeds.

**AgentIdentity** (pairing manager, profile, credentials, the relay's tokens for one machine). Each
task is the sequence of awaited calls that it has still to make, on what it holds in its hands; an
action makes the first of them. So a service that starts, a command, a QR code's refresh and a reset
interleave call by call on one file, one keychain and the relay's tokens; the requests of a panel
overlap as they come, with one another and with the service. A write truncates the file before it fills
it: whoever reads it in between makes a new identity, and what is filled in over a longer record that
another has written meanwhile leaves a file that cannot be read (`Torn`). Tokens grow old one threshold
at a time. One call of a behaviour fails, in one of the ways of `Failures`: a load or save of the
keychain, a call refused or its answer lost, a process that ends; "half" lets others come between the
two halves of a write.

**DesktopService** (LaunchAgent, launchd, monitor, state files). Each command is its program of
launchctl calls and file accesses; `Look` decides from what launchctl print tells which calls
follow. launchd starts a service whenever the job is loaded and none runs, and the service reads
environment and settings at that moment only. The older version's LaunchAgent is loaded, a file only,
or gone; a login loads every file that is there. The service's writes of its state are started and
not awaited: those in `writes` have not opened the file, those in `filling` have truncated it, and they
go on in any order, so that the file may be `Empty`, or `Mixed` of two texts. `serve` runs a relay
client of its own and reports into the same file. A panel writes its file when it opens and at every
request; SIGINT stops it in three steps (the server, the file, the process), and a heartbeat under way
may write after the file was removed. Readers of a state file who find a dead process remove the file in
a second step; a file that cannot be read counts as none.

## 3. Runs

| run | instance | question |
|---|---|---|
| relay_server | 1 agent, 2 phones, 4 sockets, 2 of them the agent's; a write and its retry, or one keyless write, or one read | one reply and one forward per key, however often the agent answers and either side reconnects |
| relay_server_live | 1 agent, 1 phone, 2 sockets, 1 keyed write | safety of logins, closes and presence in any order; silent peers are dropped, closing sockets forgotten, requests settle and are answered |
| pairing | 2 codes of 2 agents, 2 claims, 2 phones | all of pairing's properties |
| token_store | 3 calls | all of the token store's properties |
| agent_client | 3 sockets, 2 requests, 2 reports, 3 misses | the agent's connection |
| codex | 3 turns, two of one thread, 1 call, 1 interrupt, 1 decision, the agent's own start, 2 processes | waiters, health, approvals, turns kept apart; the refinement of AgentService; requests are answered |
| identity | 3 tasks, 2 agents, 3 pairs, 9 mixtures of tasks and failures | a service resolves an identity in the end |
| service | 3 commands, 4 services, 5 published states, 8 mixtures of commands and faults | one LaunchAgent, running what was installed last; when files go wrong; outages are announced |
| relay_archive | violation | the answer of thread_archive_req is never forwarded |
| agent_zombie | violation | after a heartbeat timeout the agent stays away and says "Online" |
| agent_outage | violation | a ping of the heartbeat while the connection closes ends the process, with nothing in progress |
| identity_foreground | violation | a first start in the foreground bootstraps twice and ends |

Bounds and why they are enough. Two logins of one device need two sockets, and a late close event
of the first next to a third participant needs three; control needs two phones. Agents do not
share state except through phones' defaults, which is why pairing has two. A key's race needs two
writes with one key; more of them repeat the second. relay_server looks only at behaviours (`Focus`) in
which sockets are assigned to sides, peers do not vanish and presence is not degraded, since
relay_server_live explores those in full, a key expires at most once, keyless requests come alone, and
next to a retry one of the two sides reconnects. What an agent says is bounded nowhere.
Two claims show every race for one code; a third repeats the second, and the theorems have no bound.
Three token calls are the smallest instance with a bootstrap and two calls against its pair; the
theorems have no bound here either. Three sockets let an agent have one that is current, one that
closes late and one that failed. No run with liveness uses symmetry,
and only codex a constraint: it stops behaviours at the arrival of a request, which no fairness asks
for, so that none is cut off where something had still to happen.

codex: two processes are one that ends and one started beside or after it; `MaxLines` bounds the
unread lines before another delta, so that two lines still share a chunk where their order matters
(a turn's answer and its start, a delta and its end); `Threshold` is 2 where the code has 3. A
scenario takes the requests that can meet: two turns of two threads and a decision; a turn, its
interrupt and a decision; two turns of one thread; a turn or the agent's start beside a call. The
constraint `ThreadsTakeTurns` lets a turn arrive when the earlier one of its thread has been answered
and its start been read: the apps hold a message back while the thread's turn is active
(ConversationViewModel.swift:220). Nothing in the agent enforces it, and without it TLC finds
TurnsAreNotMixed violated (section 5). identity: a reset makes the second agent; a pair at the start,
the one a task issues and the one that another issues beside it or after its loss are three.
`ServiceResolves` stops where the pairs are used up, or where a reset lost its record and no agent is
left to make another; in the scenarios of a later start the service is serving, and what is checked is
that it serves again after what the others do to it. Resets beside refreshes are modelled, but too large
to run with failures. service: two services side by side with two restarts are four processes; an
outage, a recovery and a second outage need five states, and where a scenario restarts the service, or
has `serve` beside it, the first one or two of them were published before. Scenarios pair the commands
whose steps touch the same state, and allow one fault of each kind, where it bites.

A run whose specification may stop says CHECK_DEADLOCK FALSE: all sockets, requests, claims or
calls of the instance are used up.

Fairness. The relay: awaited calls return one way or another, a closing socket closes (ws destroys
it after 30 s), the timer of a socket that sends nothing fires, an agent that has a request answers
it. Clients are under no obligation. Pairing: awaited calls return, Redis removes expired keys.
Token store: a call whose query can run goes on, PostgreSQL breaks a deadlock. Agent: timers fire,
launchd restarts, a handshake and a login end one way or another, closing sockets close; and,
strongly fair, an attempt made again and again opens and is accepted now and then. The code has
no timeout on opening or login, so a peer that accepts and then says nothing would break this
assumption and stop the agent: the assumption is about the network, not about the code.
Codex client: the agent handles what has happened and Codex what it has read, and a turn that runs
ends; one that waits for an approval need not, since nothing makes a phone decide and neither side
gives an approval up. So RequestsAreAnswered says: answered, or a spawn has failed, or the turn came to
wait for a decision. Nothing makes a process end or a fallback timer fire. Identity: awaited calls
return, launchd starts the service again, time passes. Service: commands go on, launchd starts a
service whose job is loaded, the monitor's timer fires, writes end; no fairness makes a connection
change its state.

What the violations show is in PROJECT.json under findings, with the lines.
`AgentComesBack` excepts two ways to stay away that the code has: the heartbeat has given up (the
agent_zombie run), or the access token, read once per process, has expired.

## 4. Proofs

The theorems hold for every value of the constants that the ASSUMEs admit; those say that ids of
different kinds differ, that functions have their types, and that MaxMisses is positive.

- RelaySessionsProofs: `SessionInv` is types, NoEarlySession (a socket not accepted has
  nothing, one whose auth is still being checked has no session) and the properties of the registry; it is inductive because registering, arming and
  displacing are one step. From it OneSocketSpeaksForDevice, ConnectedAgentPresence; ControlStability
  is an action property of each step.
- RelayServerProofs: `RouteInv`: a handler's stage determines its replies (ReplyState), what it
  carries (HandlerState), and its claim on an idempotency slot (KeyState). KeyState is the
  strengthening: until its key expires the owner's slot stays taken and nobody else owns it. That a
  request with an entry in pendingClients has had no terminal reply is in ReplyState; from it
  OneReplyPerRequest, with an agent that says what it likes as often as it likes. The lemma
  ServerRefinesSessions (a step of routing is one of the connection plane or none) holds by construction, and
  only carries SessionSafety over to ServerSessionSafety.
- PairingClaimProofs: `PairingInv` adds to the properties that a holder's key is locked or gone,
  that success is final, and the election of the default. LocksAreOwned excepts a key in its last half
  second, which a release leaves locked.
- TokenStoreProofs: `TokenInv` says who holds the device's row, what newer versions of rows exist
  (VersionInv), that every active token is ended by the call about to commit or still to be taken
  by it (ClearInv), that a pair appears when its call commits (FreshInv), and what a rotation or a
  reset has still to take (RedeemInv, ResetInv).
- AgentRelayClientProofs: `ClientInv` says that the current socket's events are still to come, what
  connectPromise and the one timer stand for, and that a socket closed by the heartbeat is the only
  one left to hear of; from it OneConnection, LossIsRetried, LoginIsComplete.
- CodexClientProofs: `ClientInv` is types and four parts. ProcessInv: the current process has not
  exited, a runtime that is started or available has one, each initialize has one handler. PromiseInv:
  what is settled is pending no more, is settled once, and answers a call that waits for it. WaitInv:
  whoever waits was written to the current process. AskInv: a decision is about an approval that was
  asked for. PromiseInv is needed because a reaction runs some callbacks after its line was read, and
  must not start a runtime that has gone meanwhile. From it NobodyWaitsForTheDead and HealthIsHonest,
  for any number of turns, calls and processes.
  HandlersImplementService is the refinement of AgentService, under the hypothesis that the phones start
  the turns of one thread one after the other (`[]ThreadsTakeTurns`), any number of them in each thread.
  Without it one can be answered for the other (section 5). `TurnInv` strengthens ClientInv for it: a
  turn's id is its own and known only while it is pending; its request is written once, and neither
  begun nor refused before it is read; a line, or the promise it settles, says only what Codex has done.
  A turn/started is matched by its thread, and the hypothesis makes the one that is found the right one.
  Each step is then Orderly (what is said of a turn is said before its answer, and an answer is final),
  and an orderly step is a step of AgentService or leaves its variables alone. Under the same hypothesis
  TurnsStayApart: `MixInv` adds to TurnInv that a line of a turn's end is there only when Codex has ended
  it and that what was told of a turn is about it.
- DesktopServiceProofs: a program is `Careful` of the older LaunchAgent in state l if every step that
  installs or starts comes after an erase, or l is gone, and every erase after a stop, or it is not
  loaded. `CleanupInv` says that what each command has still to do is careful, and that while this
  LaunchAgent is installed or loaded the older one is gone; it is inductive because a step leaves the
  rest careful of the state that it makes, and the others' rest too, since no command brings the older
  one back and a login loads it only as long as its file is there, which no careful program minds. From
  it OneLaunchAgent, for any number of commands, kills and logins; ServiceTypes are the types.
  RunsWhatIsInstalled needs `RunInv`: while no command was refused or killed, a service that runs with
  something older than what is installed has a restart ahead of it in some command's program, and a job
  that should be loaded and is not has a load ahead; so how programs are laid out (PlanInv) is part of
  it. When all have ended nothing is ahead, and RunsLatest is what remains.

Only model-checked: everything under fairness, which the prover does not reach (ServiceResolves, all that
is known of AgentIdentity, among it); ApprovalsOpen, FilesDrift; and the properties of the runs that
expect a violation.

## 5. What the models leave out, and what comes next

Behaviour of the code met on the way that no run states, because no comment, document or test
contradicts it plainly:

- `start --relay X` next to a running service whose options have not changed stores X and does not
  restart the service, which goes on with the old relay (agent/main.ts:519); RunsLatest exempts it.
- A start that fails between writing the environment and restarting leaves the next start nothing that
  has changed: it says "already running" over a service with old options. RunsLatest speaks of commands
  that were not refused or killed.
- A state file goes wrong where two write or remove it at once, or `serve` reports beside the service,
  and a panel's file where of two panels one is stopped or killed: FilesDrift names these races, and
  checks that nothing else spoils a file. A heartbeat under way when a panel stops may leave a file of a
  panel that is gone; the next reader removes it.
- A release in the last half second of a code's key reads a TTL of 0 and leaves the code locked with no
  claim at work on it, for that half second (redis-store.ts:133).
- A service restarted during an outage that it has announced never announces the recovery.
- A refresh of the QR code, a status command or the end of a process next to a reset of the identity may
  store the pair of one agent under the other, or bring the old record back (every writer of the
  profile reads it, awaits, and writes back: profile-store.ts:261, and the panel serves its requests
  side by side). So may a profile that is read half-written, and two tasks that each find none and make
  one. All of it is in AgentIdentity, and no property says otherwise.
- A pair may be lost: where a late task stores an older one over it, where a QR code is refused after
  the rotation, where the service is restarted or the identity reset in the middle, and where a foreground
  start writes back what it read before its page's refresh. The agent is then locked out until the pair's
  refresh token dies; ServiceResolves says that it recovers.
- A decision that was made before a Codex process ended may be given to the question of the next process
  with the same number (codex-client.ts:791); ApprovalsOpen names the case.
- The control check of a write is not repeated after the await of Redis (relay/server.ts:1266).
- Two pending turns of one thread can be mixed up, by turn/started of the first or the refusal of one.
- A retried write gets an error where the first attempt is under way; an answer that comes after a
  reconnect is sent on a socket that has not logged in.

Hazards of the relay without a property: a login that completes on a closed socket (relay/server.ts:1022)
or after a dev reset (498), a takeover after its socket has closed (974), an older presence snapshot
after a newer one (829), a health report of a replaced socket (1312). The first is modelled; the properties
are about open sockets.

Next, in this order:

1. MobileConnection (RelayConnection.swift and .kt): connection generations, pending requests and
   their timeouts, control, token refresh after a refused login; its composition with the relay.
2. Dev reset against a login in flight (RelaySessions with TokenStore).
3. RelayPresence: the order in which presence snapshots reach phones across getBindingsForAgent.
4. Migrator under its advisory lock; ThreadResumeWindow against a reference definition of paging.

Left out: the HTTP layer (parsing around operations that are modelled), the relay's command line
client, configuration, preflight, logging, the page, translations and wording of the panel, purchases
and advertising, test drivers and scripts: they keep no state that the properties could be about.
`RelayClient.disconnect` has no caller. A torn read of the settings counts as
no file and is not modelled apart; torn profiles and state files are. `isIgnorableBootoutError` takes a
bootout that fails with nothing on stderr for a success (launch-agent.ts:232-235); the model's refused
calls say something.
