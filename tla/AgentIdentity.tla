--------------------------- MODULE AgentIdentity ---------------------------
(***************************************************************************)
(* The identity of a desktop agent and the token pair that proves it.      *)
(*                                                                         *)
(* The service, the commands of the terminal and the requests of the local *)
(* panel are tasks of several processes.  They share a profile file, a     *)
(* keychain and the relay's tokens, and take no lock on any of them: each  *)
(* reads a profile, awaits the keychain, the relay and the file in turn,   *)
(* and writes back what it made of the profile it had read.                *)
(*                                                                         *)
(* A task is the sequence of awaited calls it has still to make; an action *)
(* makes the next one.  Agents and pairs are numbers given out in order.   *)
(***************************************************************************)
EXTENDS Integers, Sequences

CONSTANTS
    None,       \* no pair, no record
    Missing,    \* there is no profile file
    Torn,       \* the file has been truncated and is not yet written
    Tasks,
    Scenarios,  \* what runs, what is stored and what may fail in a behaviour
    MaxAgents,
    MaxPairs


VARIABLES
    kind,       \* task -> what it runs
    todo,       \* task -> the calls it has still to make
    file,       \* the profile file: a record, Missing or Torn
    keychain,   \* agent -> the pair stored for it, or None
    profile,    \* task -> the profile in its hands
    opened,     \* task -> the profile a command read when it began
    cred,       \* task -> the pair it works with
    writing,    \* task -> the record it is about to write
    serving,    \* task -> the pair its service runs with
    qr,         \* the agent whose QR code the panel shows, or None
    agents,     \* identities made so far
    owner,      \* sequence of the agents that the pairs were issued to
    age,        \* pair -> how much of its time is over
    active,     \* agent -> the pair the relay accepts, or None
    may         \* the failures one of which may still happen

local == <<profile, opened, cred, writing>>
relay == <<owner, age, active>>
vars == <<kind, todo, file, keychain, local, serving, qr, agents, relay, may>>

Agents == 1..MaxAgents
Pairs == 1..MaxPairs
Failures == {"half", "load", "save", "call", "answer", "crash"}
Kinds == {"idle", "service", "start", "foreground", "pair", "refresh", "reset", "status"}

\* More than 300 s of the access token are left; less; it has expired; the refresh token has.
Times == {"fresh", "ending", "expired", "dead"}

Record == [machine : Agents, agent : Agents, shown : BOOLEAN, auth : Pairs \cup {None}]

\* A scenario starts from nothing, or from what one agent left: its record and, in the record or in
\* the keychain, the pair issued to it.
Stores(s) ==
    /\ s.file \in Record \cup {Missing}
    /\ s.file # Missing => s.file.machine = 1 /\ s.file.agent = 1
    /\ s.pair \in {None, 1} /\ s.serving \in {None, 1} /\ s.keychain \in {None, s.pair}
    /\ s.file # Missing => s.file.auth \in {None, s.pair}

ASSUME IdentityAssumption ==
    /\ MaxAgents \in Nat \ {0} /\ MaxPairs \in Nat \ {0}
    /\ None \notin Record \cup Agents \cup Pairs
    /\ Missing \notin Record \cup {Torn} /\ Torn \notin Record
    /\ \A s \in Scenarios : s.kind \in [Tasks -> Kinds] /\ Stores(s)

Snapshot == <<"create", "hydrate", "ensure", "renew", "post", "load", "hydrate", "persist", "show">>

\* A foreground start resolves its identity a second time, with the profile it read first.
Foreground == <<"create", "hydrate", "open", "current">> \o Snapshot \o <<"shown", "ensure", "serve">>

Program(k) ==
    CASE k = "service" -> <<"create", "hydrate", "ensure", "serve">>
      [] k = "start" -> <<"create", "hydrate", "launch", "current">> \o Snapshot \o <<"shown">>
      [] k = "pair" -> <<"create", "hydrate", "open", "current">> \o Snapshot \o <<"shown">>
      [] k = "foreground" -> Foreground
      [] k = "refresh" -> <<"visit">> \o Snapshot
      [] k = "reset" -> <<"visit", "check", "clear", "reset", "restart", "load", "hydrate">> \o Snapshot
      [] k = "status" -> <<"load", "hydrate">>
      [] k = "idle" -> <<>>

\* FileCredentialStore keeps pairs in the profile; it is used where there is no service.
HasKeychain == \A t \in Tasks : kind[t] # "foreground"

Init ==
    \E s \in Scenarios :
        /\ kind = s.kind
        /\ todo = [t \in Tasks |-> IF s.kind[t] = "service" THEN <<>> ELSE Program(s.kind[t])]
        /\ file = s.file
        /\ keychain = [a \in Agents |-> IF a = 1 THEN s.keychain ELSE None]
        /\ profile = [t \in Tasks |-> None]
        /\ opened = [t \in Tasks |-> None]
        /\ cred = [t \in Tasks |-> None]
        /\ writing = [t \in Tasks |-> None]
        /\ serving = [t \in Tasks |-> IF s.kind[t] = "service" THEN s.serving ELSE None]
        /\ qr = None
        /\ agents = IF s.file = Missing THEN 0 ELSE 1
        /\ owner = IF s.pair = None THEN <<>> ELSE <<1>>
        /\ age = [p \in Pairs |-> "fresh"]
        /\ active = [a \in Agents |-> IF a = 1 THEN s.pair ELSE None]
        /\ may = s.may
-----------------------------------------------------------------------------
(***************************************************************************)
(* Tasks.                                                                  *)
(***************************************************************************)
Now(t, step) == todo[t] # <<>> /\ Head(todo[t]) = step

\* The call is made; steps come before the rest.
Then(t, steps) == todo' = [todo EXCEPT ![t] = steps \o Tail(@)]

Ahead(t, step) == \E i \in DOMAIN todo[t] : todo[t][i] = step

\* What is left of t's calls from step on.
From(t, step) ==
    IF Ahead(t, step)
    THEN LET i == CHOOSE i \in DOMAIN todo[t] : todo[t][i] = step IN SubSeq(todo[t], i, Len(todo[t]))
    ELSE <<>>

\* The service tries again from the profile on, a command goes on without a QR code, and a request
\* of the panel, or a command past its QR code, ends.
Throws(t) ==
    todo' = [todo EXCEPT ![t] = IF kind[t] = "service" THEN Program("service") ELSE From(t, "shown")]

\* One call of a behaviour fails, in the way f.
Failing(f) == f \in may /\ may' = {}
Succeeding == UNCHANGED may

HasRecord == file \notin {Missing, Torn}

\* What a writer makes of the profile p it holds: only the machine is read again.
Rewritten(p, shown, auth) ==
    [machine |-> IF HasRecord THEN file.machine ELSE p.machine, agent |-> p.agent,
     shown |-> shown, auth |-> auth]

New(a) == [machine |-> a, agent |-> a, shown |-> FALSE, auth |-> None]

\* writeFile truncates the file before it fills it.
Fill(t) ==
    /\ Now(t, "fill")
    /\ \/ /\ Succeeding
          /\ file' = writing[t]
          /\ writing' = [writing EXCEPT ![t] = None]
          /\ Then(t, <<>>)
       \/ Failing("half") /\ file' = Torn /\ Then(t, <<"write">>) /\ UNCHANGED writing
    /\ UNCHANGED <<kind, keychain, profile, opened, cred, serving, qr, agents, relay>>

\* The text of r is longer than that of next: it has a pair, or says false where next says true.
Longer(r, next) ==
    \/ r.auth # None /\ next.auth = None
    \/ (r.auth = None <=> next.auth = None) /\ ~r.shown /\ next.shown

\* Another task has read or written the file in between: what is left of a longer record makes the file
\* unreadable.
FillRest(t) ==
    /\ Now(t, "write")
    /\ file' = IF HasRecord /\ Longer(file, writing[t]) THEN Torn ELSE writing[t]
    /\ writing' = [writing EXCEPT ![t] = None]
    /\ Then(t, <<>>)
    /\ UNCHANGED <<kind, keychain, profile, opened, cred, serving, qr, agents, relay, may>>

-----------------------------------------------------------------------------
(***************************************************************************)
(* The profile: a reader who finds no record, or half of one, makes a new  *)
(* identity.                                                               *)
(***************************************************************************)
Create(t) ==
    /\ Now(t, "create")
    /\ IF HasRecord
       THEN /\ profile' = [profile EXCEPT ![t] = file]
            /\ Then(t, <<>>)
            /\ UNCHANGED <<writing, agents>>
       ELSE /\ agents < MaxAgents
            /\ agents' = agents + 1
            /\ profile' = [profile EXCEPT ![t] = New(agents + 1)]
            /\ writing' = [writing EXCEPT ![t] = New(agents + 1)]
            /\ Then(t, <<"fill">>)
    /\ UNCHANGED <<kind, file, keychain, opened, cred, serving, qr, relay, may>>

\* Without a record there is nothing to hydrate, nor to persist.
Load(t) ==
    /\ Now(t, "load")
    /\ IF HasRecord
       THEN profile' = [profile EXCEPT ![t] = file] /\ Then(t, <<>>)
       ELSE /\ LET rest == Tail(Tail(todo[t]))
               IN  todo' = [todo EXCEPT ![t] = IF rest # <<>> /\ Head(rest) = "persist"
                                               THEN Tail(rest) ELSE rest]
            /\ UNCHANGED profile
    /\ UNCHANGED <<kind, file, keychain, opened, cred, writing, serving, qr, agents, relay, may>>

\* Pairs found in the file are moved to the keychain, whose own pair wins.
Hydrate(t) ==
    LET p == profile[t]
        stored == keychain[p.agent]
    IN  /\ Now(t, "hydrate")
        /\ \/ ~HasKeychain /\ Succeeding /\ Then(t, <<>>) /\ UNCHANGED profile
           \/ HasKeychain /\ Failing("load") /\ Then(t, <<>>) /\ UNCHANGED profile
           \/ /\ HasKeychain
              /\ Succeeding
              /\ profile' = [profile EXCEPT ![t].auth = IF stored # None THEN stored ELSE @]
              /\ Then(t, IF p.auth = None THEN <<>> ELSE <<"migrate">>)
        /\ UNCHANGED <<kind, file, keychain, opened, cred, writing, serving, qr, agents, relay>>

\* A keychain that refuses to store leaves the pairs in the file.
Migrate(t) ==
    /\ Now(t, "migrate")
    /\ \/ /\ Succeeding
          /\ keychain' = [keychain EXCEPT ![profile[t].agent] = profile[t].auth]
          /\ Then(t, <<"strip">>)
       \/ Failing("save") /\ Then(t, <<>>) /\ UNCHANGED keychain
    /\ UNCHANGED <<kind, file, profile, opened, cred, writing, serving, qr, agents, relay>>

\* stripSensitiveAuth: the file is left without pairs.
Strip(t) ==
    /\ Now(t, "strip")
    /\ writing' = [writing EXCEPT ![t] = Rewritten(profile[t], profile[t].shown, None)]
    /\ Then(t, <<"fill">>)
    /\ UNCHANGED <<kind, file, keychain, profile, opened, cred, serving, qr, agents, relay, may>>

\* persistIdentity: the keychain, or failing that the file.
Persist(t) ==
    /\ Now(t, "persist")
    /\ profile' = [profile EXCEPT ![t].auth = cred[t]]
    /\ \/ /\ HasKeychain
          /\ Succeeding
          /\ keychain' = [keychain EXCEPT ![profile[t].agent] = cred[t]]
          /\ Then(t, <<"strip">>)
       \/ /\ IF HasKeychain THEN Failing("save") ELSE Succeeding
          /\ Then(t, <<"saveIdentity">>)
          /\ UNCHANGED keychain
    /\ UNCHANGED <<kind, file, opened, cred, writing, serving, qr, agents, relay>>

SaveIdentity(t) ==
    /\ Now(t, "saveIdentity")
    /\ writing' = [writing EXCEPT ![t] = Rewritten(profile[t], profile[t].shown, cred[t])]
    /\ Then(t, <<"fill">>)
    /\ UNCHANGED <<kind, file, keychain, profile, opened, cred, serving, qr, agents, relay, may>>

\* markInitialPairingShown, with the profile the command read when it began.
Shown(t) ==
    LET p == opened[t]
    IN  /\ Now(t, "shown")
        /\ profile' = [profile EXCEPT ![t] = p]
        /\ IF p.shown
           THEN Then(t, <<>>) /\ UNCHANGED writing
           ELSE /\ writing' = [writing EXCEPT ![t] =
                                  Rewritten(p, TRUE, IF HasRecord THEN file.auth ELSE p.auth)]
                /\ Then(t, <<"fill">>)
        /\ UNCHANGED <<kind, file, keychain, opened, cred, serving, qr, agents, relay, may>>

-----------------------------------------------------------------------------
(***************************************************************************)
(* The relay's tokens, as PairingManager asks for them.                    *)
(***************************************************************************)
\* The relay knows the pair and its refresh token has not expired.
Valid(p) == p # None /\ active[owner[p]] = p /\ age[p] # "dead"

\* A pair is issued to a and the one before it is rotated; None is lost on its way to the task.
Issue(t, a) ==
    /\ Len(owner) < MaxPairs
    /\ owner' = Append(owner, a)
    /\ active' = [active EXCEPT ![a] = Len(owner) + 1]
    /\ UNCHANGED age

\* The call's answer, steps to make next, arrives; or it is lost; or the call never arrived.
Issued(t, a, steps) ==
    /\ Issue(t, a)
    /\ \/ Succeeding /\ cred' = [cred EXCEPT ![t] = Len(owner) + 1] /\ Then(t, steps)
       \/ Failing("answer") /\ Throws(t) /\ UNCHANGED cred

Refused(t) == Succeeding /\ UNCHANGED <<cred, relay>>

NotCalled(t) == Failing("call") /\ Throws(t) /\ UNCHANGED <<cred, relay>>

\* ensureAgentIdentity: the stored pair is used as it is while its access token lasts, and is not
\* stored again.
Ensure(t) ==
    LET p == profile[t].auth
    IN  /\ Now(t, "ensure")
        /\ cred' = [cred EXCEPT ![t] = p]
        /\ Then(t, IF p = None \/ age[p] = "dead" THEN <<"bootstrap">>
                   ELSE IF age[p] = "expired" THEN <<"refresh">> ELSE <<>>)
        /\ UNCHANGED <<kind, file, keychain, profile, opened, writing, serving, qr, agents, relay,
                       may>>

\* refreshAgentIdentity for ensureAgentIdentity, which starts afresh when the relay refuses.
Refresh(t) ==
    /\ Now(t, "refresh")
    /\ \/ Valid(cred[t]) /\ Issued(t, owner[cred[t]], <<"persist">>)
       \/ ~Valid(cred[t]) /\ Refused(t) /\ Then(t, <<"bootstrap">>)
       \/ NotCalled(t)
    /\ UNCHANGED <<kind, file, keychain, profile, opened, writing, serving, qr, agents>>

\* Mutant of Initialized: a pair counts although its tokens have expired.
InitializedForEver(a) == active[a] # None
Initialized(a) == active[a] # None /\ age[active[a]] # "dead"

\* bootstrapAgentIdentity: refused with 409 while the agent has a pair that works.
Bootstrap(t) ==
    LET a == profile[t].agent
    IN  /\ Now(t, "bootstrap")
        /\ \/ ~Initialized(a) /\ Issued(t, a, <<"persist">>)
           \/ Initialized(a) /\ Refused(t) /\ Throws(t)
           \/ NotCalled(t)
        /\ UNCHANGED <<kind, file, keychain, profile, opened, writing, serving, qr, agents>>

\* ensureFreshAccessToken: a QR code is asked for with a token that lasts 300 s more.
Renew(t) ==
    /\ Now(t, "renew")
    /\ \/ age[cred[t]] = "fresh" /\ Then(t, <<>>)
       \/ age[cred[t]] \in {"ending", "expired"} /\ Then(t, <<"rotate">>)
       \/ age[cred[t]] = "dead" /\ Throws(t)
    /\ UNCHANGED <<kind, file, keychain, local, serving, qr, agents, relay, may>>

Rotate(t) ==
    /\ Now(t, "rotate")
    /\ \/ Valid(cred[t]) /\ Issued(t, owner[cred[t]], <<>>)
       \/ ~Valid(cred[t]) /\ Refused(t) /\ Throws(t)
       \/ NotCalled(t)
    /\ UNCHANGED <<kind, file, keychain, profile, opened, writing, serving, qr, agents>>

Post(t) ==
    LET p == cred[t]
    IN  /\ Now(t, "post")
        /\ \/ /\ Refused(t)
              /\ IF active[owner[p]] = p /\ age[p] \in {"fresh", "ending"} THEN Then(t, <<>>) ELSE Throws(t)
           \/ NotCalled(t)
        /\ UNCHANGED <<kind, file, keychain, profile, opened, writing, serving, qr, agents>>

\* Tokens grow old; of two pairs the one issued first is the older.
GrowsOld(p) ==
    LET next == [fresh |-> "ending", ending |-> "expired", expired |-> "dead"]
    IN  /\ p <= Len(owner)
        /\ age[p] # "dead"
        /\ \A q \in 1..p : q < p => age[q] # age[p]
        /\ age' = [age EXCEPT ![p] = next[@]]
        /\ UNCHANGED <<kind, todo, file, keychain, local, serving, qr, agents, owner, active, may>>

-----------------------------------------------------------------------------
(***************************************************************************)
(* Processes.                                                              *)
(***************************************************************************)
Panel == {t \in Tasks : kind[t] \in {"start", "pair", "foreground"}}
PanelIsOpen == \A t \in Panel : ~Ahead(t, "launch") /\ ~Ahead(t, "open")

\* launchd starts the service, or starts it again: a new process has nothing in its hands.
ServiceStarts(t) ==
    /\ kind[t] = "service" /\ todo[t] = <<>> /\ serving[t] = None
    /\ \A u \in Tasks : ~Ahead(u, "launch")
    /\ todo' = [todo EXCEPT ![t] = Program("service")]
    /\ profile' = [profile EXCEPT ![t] = None]
    /\ opened' = [opened EXCEPT ![t] = None]
    /\ cred' = [cred EXCEPT ![t] = None]
    /\ writing' = [writing EXCEPT ![t] = None]
    /\ UNCHANGED <<kind, file, keychain, serving, qr, agents, relay, may>>

\* t goes on, and the service begins again if restarted says so.
RestartsService(t, restarted) ==
    /\ todo' = [u \in Tasks |-> IF u = t THEN Tail(todo[t])
                                ELSE IF kind[u] = "service" /\ restarted THEN <<>> ELSE todo[u]]
    /\ serving' = [u \in Tasks |-> IF kind[u] = "service" /\ restarted THEN None ELSE serving[u]]

\* start installs the service and restarts it if its files have changed.
Launch(t) ==
    /\ Now(t, "launch")
    /\ opened' = [opened EXCEPT ![t] = profile[t]]
    /\ \E changed \in BOOLEAN : RestartsService(t, changed)
    /\ UNCHANGED <<kind, file, keychain, profile, cred, writing, qr, agents, relay, may>>

Open(t) ==
    /\ Now(t, "open")
    /\ opened' = [opened EXCEPT ![t] = profile[t]]
    /\ Then(t, <<>>)
    /\ UNCHANGED <<kind, file, keychain, profile, cred, writing, serving, qr, agents, relay, may>>

\* The browser asks as soon as the panel is there; its requests are handled side by side.
Visit(t) ==
    /\ Now(t, "visit")
    /\ PanelIsOpen
    /\ Then(t, <<>>)
    /\ UNCHANGED <<kind, file, keychain, local, serving, qr, agents, relay, may>>

\* getCurrentSnapshot: a QR code that is there is used again.
CurrentSnapshot(t) ==
    /\ Now(t, "current")
    /\ IF qr = None THEN Then(t, <<>>) ELSE todo' = [todo EXCEPT ![t] = From(t, "shown")]
    /\ UNCHANGED <<kind, file, keychain, local, serving, qr, agents, relay, may>>

Show(t) ==
    /\ Now(t, "show")
    /\ qr' = owner[cred[t]]
    /\ Then(t, <<>>)
    /\ UNCHANGED <<kind, file, keychain, local, serving, agents, relay, may>>

Serve(t) ==
    /\ Now(t, "serve")
    /\ serving' = [serving EXCEPT ![t] = cred[t]]
    /\ Then(t, <<>>)
    /\ UNCHANGED <<kind, file, keychain, local, qr, agents, relay, may>>

\* resetIdentityAndRestart: the profile, the keychain, a new record, the service.
Check(t) ==
    /\ Now(t, "check")
    /\ IF HasRecord THEN profile' = [profile EXCEPT ![t] = file] /\ Then(t, <<>>)
                    ELSE Throws(t) /\ UNCHANGED profile
    /\ UNCHANGED <<kind, file, keychain, opened, cred, writing, serving, qr, agents, relay, may>>

Clear(t) ==
    /\ Now(t, "clear")
    /\ \/ Succeeding /\ keychain' = [keychain EXCEPT ![profile[t].agent] = None]
       \/ HasKeychain /\ Failing("save") /\ UNCHANGED keychain
    /\ Then(t, <<>>)
    /\ UNCHANGED <<kind, file, local, serving, qr, agents, relay>>

Reset(t) ==
    /\ Now(t, "reset")
    /\ agents < MaxAgents
    /\ agents' = agents + 1
    /\ profile' = [profile EXCEPT ![t] = New(agents + 1)]
    /\ writing' = [writing EXCEPT ![t] = New(agents + 1)]
    /\ Then(t, <<"fill">>)
    /\ UNCHANGED <<kind, file, keychain, opened, cred, serving, qr, relay, may>>

Restart(t) ==
    /\ Now(t, "restart")
    /\ qr' = None
    /\ RestartsService(t, TRUE)
    /\ UNCHANGED <<kind, file, keychain, local, agents, relay, may>>

\* The service's process ends, or the one that the panel and its requests run in.
Crash(ended) ==
    /\ \E t \in ended : todo[t] # <<>> \/ serving[t] # None
    /\ Failing("crash")
    /\ todo' = [t \in Tasks |-> IF t \in ended THEN <<>> ELSE todo[t]]
    /\ serving' = [t \in Tasks |-> IF t \in ended THEN None ELSE serving[t]]
    /\ qr' = IF ended \cap Panel # {} THEN None ELSE qr
    /\ UNCHANGED <<kind, file, keychain, local, agents, relay>>

Step(t) ==
    \/ Create(t) \/ Load(t) \/ Hydrate(t) \/ Migrate(t) \/ Strip(t) \/ Persist(t) \/ SaveIdentity(t)
    \/ Shown(t) \/ Fill(t) \/ FillRest(t) \/ Ensure(t) \/ Refresh(t) \/ Bootstrap(t) \/ Renew(t) \/ Rotate(t)
    \/ Post(t) \/ Launch(t) \/ Open(t) \/ Visit(t) \/ CurrentSnapshot(t) \/ Show(t) \/ Serve(t)
    \/ Check(t) \/ Clear(t) \/ Reset(t) \/ Restart(t)

Services == {t \in Tasks : kind[t] = "service"}

Next ==
    \/ \E t \in Tasks : Step(t) \/ ServiceStarts(t)
    \/ \E p \in Pairs : GrowsOld(p)
    \/ \E ended \in {Services, Tasks \ Services} : Crash(ended)

Spec == Init /\ [][Next]_vars

\* Awaited calls return, launchd keeps the service running, and time passes.
Fairness ==
    /\ \A t \in Tasks : WF_vars(Step(t)) /\ WF_vars(ServiceStarts(t))
    /\ \A p \in Pairs : WF_vars(GrowsOld(p))

FairSpec == Spec /\ Fairness

-----------------------------------------------------------------------------
(***************************************************************************)
(* Properties.                                                             *)
(***************************************************************************)
TypeOK ==
    /\ kind \in [Tasks -> Kinds]
    /\ file \in Record \cup {Missing, Torn}
    /\ keychain \in [Agents -> Pairs \cup {None}]
    /\ profile \in [Tasks -> Record \cup {None}] /\ opened \in [Tasks -> Record \cup {None}]
    /\ cred \in [Tasks -> Pairs \cup {None}] /\ serving \in [Tasks -> Pairs \cup {None}]
    /\ writing \in [Tasks -> Record \cup {None}]
    /\ qr \in Agents \cup {None}
    /\ agents \in 0..MaxAgents
    /\ owner \in Seq(Agents) /\ Len(owner) <= MaxPairs
    /\ age \in [Pairs -> Times]
    /\ active \in [Agents -> Pairs \cup {None}]
    /\ may \subseteq Failures

\* A service that has no identity resolves one in the end, again after each restart, whatever calls
\* fail, requests overlap and records are caught half written: even one whose pair is lost is served
\* again when that pair has died.  The bounds on agents and pairs end the promise.
ServiceResolves ==
    \A t \in Tasks : kind[t] = "service" =>
        []<>(serving[t] # None \/ Len(owner) = MaxPairs \/ (~HasRecord /\ agents = MaxAgents))

ForegroundServes == \A t \in Tasks : kind[t] = "foreground" /\ todo[t] = <<>> => serving[t] # None
=============================================================================
