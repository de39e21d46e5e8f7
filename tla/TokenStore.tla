----------------------------- MODULE TokenStore -----------------------------
(***************************************************************************)
(* The tokens of one device (runtime-apps/relay-server/src/db/postgres.ts: *)
(* bootstrapDevice, validateDevice, refreshDeviceTokens and                *)
(* revokeActiveTokensForDevice) under PostgreSQL's READ COMMITTED          *)
(* isolation, which the code does not change.                              *)
(*                                                                         *)
(* Every awaited query is a step.  A plain SELECT and the choice of the    *)
(* rows of an UPDATE see the rows committed when the statement starts, and *)
(* the transaction's own; an UPDATE then takes its rows one by one, waits  *)
(* for the transaction that holds a row, and tests its condition again on  *)
(* the version that one left.  Locks are held to the end of a transaction. *)
(* Nothing is assumed of the unique indexes on active tokens: they would   *)
(* never be hit.                                                           *)
(*                                                                         *)
(* A call stands for its transaction and for the pair of tokens it issues. *)
(***************************************************************************)
EXTENDS FiniteSets

CONSTANTS
    Calls,  \* calls of the four operations for the device
    None

ASSUME CallsAssumption == None \notin Calls

Kinds == {"access", "refresh"}
Tokens == Calls \X Kinds
Ops == {"bootstrap", "validate", "refresh", "revoke"}
Statuses == {"none", "active", "rotated", "revoked", "expired"}

VARIABLES
    status,       \* the committed status of each token's row, "none" before its INSERT
    dirty,        \* the newest version of it, which its holder sees
    holder,       \* the transaction that has locked the row
    deviceHolder, \* the transaction that has locked the row of devices
    lapsed,       \* tokens whose expires_at has come
    stage,        \* the query each call awaits
    op,           \* the operation of each call
    presented,    \* the pair whose token it carries, None if it is no token of the device
    due,          \* the tokens that have expired by the call's nowSeconds
    todo,         \* the rows that its UPDATE has still to take
    before        \* history: the pairs that were committed when a revoke was called

lockVars == <<dirty, holder, deviceHolder>>
callVars == <<op, presented, due, before>>
vars == <<status, lockVars, lapsed, stage, callVars, todo>>

Updating == {"expiring", "rotating", "revoking"}
Checked == {"rotate", "rotating", "commit"}
InFlight == {"expire", "device", "count", "token", "revoke"} \cup Updating \cup Checked
Stages == InFlight \cup {"idle", "accepted", "rejected", "failed"}

TypeOK ==
    /\ status \in [Tokens -> Statuses]
    /\ dirty \in [Tokens -> Statuses]
    /\ holder \in [Tokens -> Calls \cup {None}]
    /\ deviceHolder \in Calls \cup {None}
    /\ lapsed \subseteq Tokens
    /\ stage \in [Calls -> Stages]
    /\ op \in [Calls -> Ops \cup {None}]
    /\ presented \in [Calls -> Calls \cup {None}]
    /\ due \in [Calls -> SUBSET Tokens]
    /\ todo \in [Calls -> SUBSET Tokens]
    /\ before \in [Calls -> SUBSET Calls]
    /\ \A x \in Calls : stage[x] \in Checked /\ op[x] # "bootstrap" => presented[x] \in Calls

Init ==
    /\ status = [t \in Tokens |-> "none"]
    /\ dirty = status
    /\ holder = [t \in Tokens |-> None]
    /\ deviceHolder = None
    /\ lapsed = {}
    /\ stage = [x \in Calls |-> "idle"]
    /\ op = [x \in Calls |-> None]
    /\ presented = op
    /\ due = [x \in Calls |-> {}]
    /\ todo = due
    /\ before = due

Committed == {p \in Calls : \E k \in Kinds : status[<<p, k>>] # "none"}
Delivered == {p \in Calls : stage[p] = "accepted" /\ op[p] \in {"bootstrap", "refresh"}}
GoesTo(x, next) == stage' = [stage EXCEPT ![x] = next]

\* What x reads of a row without locking it.
Sees(x, t) == IF holder[t] = x THEN dirty[t] ELSE status[t]
Free(x, t) == holder[t] \in {None, x}
DeviceFree(x) == deviceHolder \in {None, x}

(***************************************************************************)
(* Calls and clocks.                                                       *)
(***************************************************************************)
Begin(x, o, p) ==
    /\ stage[x] = "idle"
    /\ p # None => o \in {"validate", "refresh"} /\ p \in Delivered
    /\ GoesTo(x, CASE o = "bootstrap" -> "device"
                   [] o = "revoke" -> "revoke"
                   [] OTHER -> "expire")
    /\ op' = [op EXCEPT ![x] = o]
    /\ presented' = [presented EXCEPT ![x] = p]
    /\ due' = IF o = "revoke" THEN due ELSE [due EXCEPT ![x] = lapsed]
    /\ before' = IF o = "revoke" THEN [before EXCEPT ![x] = Committed] ELSE before
    /\ UNCHANGED <<status, lockVars, lapsed, todo>>

\* ACCESS_TOKEN_TTL_SECONDS is shorter than REFRESH_TOKEN_TTL_SECONDS.
Lapse(p, k) ==
    /\ p \in Committed
    /\ <<p, k>> \notin lapsed
    /\ k = "refresh" => <<p, "access">> \in lapsed
    /\ lapsed' = lapsed \cup {<<p, k>>}
    /\ UNCHANGED <<status, lockVars, stage, callVars, todo>>

(***************************************************************************)
(* The UPDATE statements.                                                  *)
(***************************************************************************)
\* Mutant of Matches: expireTokensForDevice also takes tokens that are not active.
MatchesAnyStatus(x, stmt, s, t) ==
    IF stmt = "expiring" THEN t \in due[x] /\ s # "none" ELSE s = "active"

\* Mutant of Matches: revokeActiveTokensForDevice leaves the refresh token.
MatchesAccessOnly(x, stmt, s, t) ==
    s = "active" /\ (stmt = "expiring" => t \in due[x]) /\ (stmt = "revoking" => t[2] = "access")

\* The condition of the statement, of a row t whose status reads s.
Matches(x, stmt, s, t) ==
    /\ s = "active"
    /\ stmt = "expiring" => t \in due[x]

Written(stmt) ==
    CASE stmt = "expiring" -> "expired"
      [] stmt = "rotating" -> "rotated"
      [] stmt = "revoking" -> "revoked"

Starts(x, stmt) ==
    /\ GoesTo(x, stmt)
    /\ todo' = [todo EXCEPT ![x] = {t \in Tokens : Matches(x, stmt, Sees(x, t), t)}]
    /\ UNCHANGED <<status, lockVars, lapsed, callVars>>

ExpireStarts(x) == stage[x] = "expire" /\ Starts(x, "expiring")
RotateStarts(x) == stage[x] = "rotate" /\ Starts(x, "rotating")
RevokeStarts(x) == stage[x] = "revoke" /\ Starts(x, "revoking")

UpdateRow(x, t) ==
    /\ stage[x] \in Updating
    /\ t \in todo[x]
    /\ Free(x, t)
    /\ holder' = [holder EXCEPT ![t] = x]
    /\ dirty' = IF Matches(x, stage[x], dirty[t], t)
                THEN [dirty EXCEPT ![t] = Written(stage[x])] ELSE dirty
    /\ todo' = [todo EXCEPT ![x] = @ \ {t}]
    /\ UNCHANGED <<status, deviceHolder, lapsed, stage, callVars>>

ExpireEnds(x) ==
    /\ stage[x] = "expiring"
    /\ todo[x] = {}
    /\ GoesTo(x, IF op[x] = "bootstrap" THEN "count" ELSE "device")
    /\ UNCHANGED <<status, lockVars, lapsed, callVars, todo>>

RotateEnds(x) ==
    /\ stage[x] = "rotating"
    /\ todo[x] = {}
    /\ GoesTo(x, "commit")
    /\ UNCHANGED <<status, lockVars, lapsed, callVars, todo>>

(***************************************************************************)
(* COMMIT and ROLLBACK.  The pair is inserted just before the COMMIT,      *)
(* seen by nobody in between.                                              *)
(***************************************************************************)
Issued(x) == IF op[x] \in {"bootstrap", "refresh"} THEN {x} \X Kinds ELSE {}

Unlocks(x) ==
    /\ holder' = [t \in Tokens |-> IF holder[t] = x THEN None ELSE holder[t]]
    /\ deviceHolder' = IF deviceHolder = x THEN None ELSE deviceHolder

CommitsAs(x, next) ==
    /\ GoesTo(x, next)
    /\ status' = [t \in Tokens |-> IF t \in Issued(x) THEN "active" ELSE Sees(x, t)]
    /\ dirty' = [t \in Tokens |-> IF t \in Issued(x) THEN "active" ELSE dirty[t]]
    /\ Unlocks(x)
    /\ todo' = [todo EXCEPT ![x] = {}]
    /\ UNCHANGED <<lapsed, callVars>>

\* Mutant of RollsBackAs: a rejected call returns its connection with the transaction open.
RollsBackAsIfFailed(x, next) ==
    /\ GoesTo(x, next)
    /\ IF next = "failed"
       THEN /\ dirty' = [t \in Tokens |-> IF holder[t] = x THEN status[t] ELSE dirty[t]]
            /\ Unlocks(x)
       ELSE UNCHANGED lockVars
    /\ todo' = [todo EXCEPT ![x] = {}]
    /\ UNCHANGED <<status, lapsed, callVars>>

RollsBackAs(x, next) ==
    /\ GoesTo(x, next)
    /\ dirty' = [t \in Tokens |-> IF holder[t] = x THEN status[t] ELSE dirty[t]]
    /\ Unlocks(x)
    /\ todo' = [todo EXCEPT ![x] = {}]
    /\ UNCHANGED <<status, lapsed, callVars>>

Commit(x) == stage[x] = "commit" /\ CommitsAs(x, "accepted")

\* The COMMIT was executed, but not answered: nobody learns the new tokens.
CommitAnswerLost(x) == stage[x] = "commit" /\ CommitsAs(x, "failed")

\* revokeActiveTokensForDevice is one statement, its own transaction.
RevokeEnds(x) ==
    /\ stage[x] = "revoking"
    /\ todo[x] = {}
    /\ \E next \in {"accepted", "failed"} : CommitsAs(x, next)

\* A query throws, or the relay or its connection dies: PostgreSQL rolls back.
QueryThrows(x) == stage[x] \in InFlight /\ RollsBackAs(x, "failed")

(***************************************************************************)
(* The device row and the presented token.                                 *)
(***************************************************************************)
\* Mutant of LocksDevice: bootstrapDevice reads the device without locking it.
LocksDeviceUnlessBootstrap(x) ==
    IF op[x] = "bootstrap" THEN UNCHANGED deviceHolder ELSE deviceHolder' = x
LocksDevice(x) == deviceHolder' = x

\* bootstrapDevice: the upsert makes or updates the device's row and locks it.
UpsertDevice(x) ==
    /\ stage[x] = "device" /\ op[x] = "bootstrap"
    /\ DeviceFree(x)
    /\ LocksDevice(x)
    /\ GoesTo(x, "expire")
    /\ UNCHANGED <<status, dirty, holder, lapsed, callVars, todo>>

\* The device exists as soon as a bootstrap, and its pair with it, is committed; validateDevice may
\* look for one of the other type.
SelectDevice(x) ==
    /\ stage[x] = "device" /\ op[x] # "bootstrap"
    /\ \/ /\ Committed = {} \/ op[x] = "validate"
          /\ RollsBackAs(x, "rejected")
       \/ /\ Committed # {}
          /\ DeviceFree(x)
          /\ LocksDevice(x)
          /\ GoesTo(x, "token")
          /\ UNCHANGED <<status, dirty, holder, lapsed, callVars, todo>>

\* DeviceAlreadyInitializedError when an active token is left.
CountActive(x) ==
    /\ stage[x] = "count"
    /\ IF \E t \in Tokens : Sees(x, t) = "active"
       THEN RollsBackAs(x, "rejected")
       ELSE GoesTo(x, "commit") /\ UNCHANGED <<status, lockVars, lapsed, callVars, todo>>

PresentedToken(x) == <<presented[x], IF op[x] = "validate" THEN "access" ELSE "refresh">>

\* Mutant of LocksToken: the token is read without FOR UPDATE.
LocksTokenNot(x) == UNCHANGED holder
LocksToken(x) == holder' = [holder EXCEPT ![PresentedToken(x)] = x]

\* Mutant of Works: refreshDeviceTokens does not look at the token's status.
WorksAnyStatus(x) == op[x] = "refresh" \/ dirty[PresentedToken(x)] = "active"
Works(x) == dirty[PresentedToken(x)] = "active"

UnknownToken(x) == RollsBackAs(x, "rejected")

SelectToken(x) ==
    /\ stage[x] = "token"
    /\ \/ presented[x] = None /\ UnknownToken(x)
       \/ /\ presented[x] # None
          /\ Free(x, PresentedToken(x))
          /\ IF Works(x)
             THEN /\ LocksToken(x)
                  /\ GoesTo(x, IF op[x] = "validate" THEN "commit" ELSE "rotate")
                  /\ UNCHANGED <<status, dirty, deviceHolder, lapsed, callVars, todo>>
             ELSE RollsBackAs(x, "rejected")

(***************************************************************************)
(* Deadlocks, which PostgreSQL breaks.                                     *)
(***************************************************************************)
\* The transactions x waits for; empty when its query can go on.
Blockers(x) ==
    CASE stage[x] = "device" /\ (op[x] = "bootstrap" \/ Committed # {}) -> {deviceHolder} \ {None, x}
      [] stage[x] = "token" /\ presented[x] # None -> {holder[PresentedToken(x)]} \ {None, x}
      [] stage[x] \in Updating /\ \A t \in todo[x] : ~Free(x, t) -> {holder[t] : t \in todo[x]}
      [] OTHER -> {}

\* x is one of a set of transactions each of which waits for another of them.
Deadlocked(x) ==
    \E cycle \in SUBSET Calls :
        /\ x \in cycle
        /\ \A y \in cycle : Blockers(y) \cap cycle # {} /\ \E z \in cycle : y \in Blockers(z)

DeadlockBroken(x) == Deadlocked(x) /\ RollsBackAs(x, "failed")

CallContinues(x) ==
    \/ ExpireStarts(x) \/ RotateStarts(x) \/ RevokeStarts(x)
    \/ \E t \in Tokens : UpdateRow(x, t)
    \/ ExpireEnds(x) \/ RotateEnds(x) \/ RevokeEnds(x)
    \/ UpsertDevice(x) \/ SelectDevice(x) \/ CountActive(x) \/ SelectToken(x)
    \/ Commit(x) \/ CommitAnswerLost(x) \/ DeadlockBroken(x)

Next ==
    \/ \E x \in Calls, o \in Ops, p \in Calls \cup {None} : Begin(x, o, p)
    \/ \E p \in Calls, k \in Kinds : Lapse(p, k)
    \/ \E x \in Calls : CallContinues(x) \/ QueryThrows(x)

Spec == Init /\ [][Next]_vars

\* PostgreSQL executes the queries it can, and lets one of a deadlock fail.
FairSpec == Spec /\ \A x \in Calls : WF_vars(CallContinues(x))
-----------------------------------------------------------------------------
(***************************************************************************)
(* Safety.                                                                 *)
(***************************************************************************)
\* The active tokens of a device are of one pair: bootstraps and refreshes that run at once never
\* leave two clients of it with tokens that work.
OneActivePair ==
    \A t, u \in Tokens : status[t] = "active" /\ status[u] = "active" => t[1] = u[1]

\* A refresh token is redeemed once, although the calls that carry it all find it active when they
\* start.
RefreshUsedOnce ==
    \A x, y \in Calls :
        /\ op[x] = "refresh" /\ op[y] = "refresh"
        /\ x \in Committed /\ y \in Committed
        /\ presented[x] = presented[y]
        => x = y

\* After a reset no pair works that had been committed when it was called; only a pair of a call
\* that ran at the same time survives it.
ResetRevokesAll ==
    \A r \in Calls : op[r] = "revoke" /\ stage[r] = "accepted" =>
        \A p \in before[r], k \in Kinds : status[<<p, k>>] # "active"

\* A token that has left "active" never changes again: why a token died is kept for its answer,
\* tokenExpired or tokenRevoked.
DeadTokensStay ==
    [][\A t \in Tokens : status[t] \notin {"none", "active"} => status'[t] = status[t]]_vars

\* When a call is accepted its token is active still: no reset or rotation comes between the
\* check and the commit.
AcceptedWhileActive ==
    [][\A x \in Calls : stage[x] = "commit" /\ stage'[x] # "commit" /\ op[x] = "validate" =>
        status[PresentedToken(x)] = "active"]_vars

(***************************************************************************)
(* Liveness.                                                               *)
(***************************************************************************)
\* Every call ends: what they wait for is released, or PostgreSQL breaks the deadlock.
CallsEnd == \A x \in Calls : stage[x] \in InFlight ~> stage[x] \notin InFlight
=============================================================================
