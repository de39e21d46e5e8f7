---------------------------- MODULE PairingClaim ----------------------------
(***************************************************************************)
(* Pairing a phone with an agent (runtime-apps/relay-server,               *)
(* src/db/store.ts, redis-store.ts and postgres.ts).  A pairing code is a  *)
(* Redis key that lives for five minutes; a claim locks it with a script,  *)
(* writes the binding to PostgreSQL and deletes it, or gives it back.      *)
(*                                                                         *)
(* Every call to Redis and PostgreSQL is an await and so a step of its     *)
(* own, between which other claims run, the key expires, or the relay      *)
(* crashes.  A call may throw before or after it was executed.             *)
(***************************************************************************)
EXTENDS FiniteSets

CONSTANTS
    Codes,      \* pairing ids, fresh uuids: none is issued twice
    Claims,     \* ids of POST /v1/pairings/claim calls
    Agents, Mobiles,
    CodeAgent,  \* the agent that a code was issued for
    None

ASSUME CodesAssumption ==
    /\ CodeAgent \in [Codes -> Agents]
    /\ None \notin Codes \cup Mobiles

VARIABLES
    codes,       \* the status in the key of each code
    ending,      \* keys in their last half second: Redis rounds their TTL to 0
    lapsed,      \* codes whose expiresAt lies in the past
    stage,       \* the call each claim awaits
    code,        \* the code of each claim
    mobile,      \* the phone of each claim
    wrongSecret, \* claims that carry a wrong secret
    late,        \* claims that arrived after expiresAt
    sawDefault,  \* claims whose INSERT saw a default binding of their phone
    bindings,    \* active rows of device_bindings, pairs <<agent, mobile>>
    defaults,    \* those with is_default
    bound,       \* history: claims whose phone PostgreSQL holds a binding for
    thrown,      \* history: claims during which a call has thrown
    orphaned     \* history: codes whose claim lost the key to a crash or an error of Redis

claimVars == <<stage, code, mobile, wrongSecret, late, sawDefault>>
storeVars == <<bindings, defaults>>
pastVars == <<bound, thrown, orphaned>>
vars == <<codes, ending, lapsed, claimVars, storeVars, pastVars>>

Releasing == {"releaseGet", "releaseTtl", "releaseSet"}
Writing == {"finding", "touching", "creating", "inserting", "fallback", "consuming"}
Holding == Writing \cup Releasing
Waiting == Holding \cup {"locking"}
Stages == Waiting \cup {"idle", "rejected", "succeeded"}

TypeOK ==
    /\ codes \in [Codes -> {"unissued", "pending", "claiming", "gone"}]
    /\ ending \subseteq Codes
    /\ lapsed \subseteq Codes
    /\ stage \in [Claims -> Stages]
    /\ code \in [Claims -> Codes \cup {None}]
    /\ mobile \in [Claims -> Mobiles \cup {None}]
    /\ \A c \in Claims : stage[c] # "idle" => code[c] \in Codes /\ mobile[c] \in Mobiles
    /\ wrongSecret \subseteq Claims
    /\ late \subseteq Claims
    /\ sawDefault \subseteq Claims
    /\ bindings \subseteq Agents \X Mobiles
    /\ defaults \subseteq bindings
    /\ bound \subseteq Claims
    /\ thrown \subseteq Claims
    /\ orphaned \subseteq Codes

Init ==
    /\ codes = [p \in Codes |-> "unissued"]
    /\ ending = {} /\ lapsed = {}
    /\ stage = [c \in Claims |-> "idle"]
    /\ code = [c \in Claims |-> None]
    /\ mobile = [c \in Claims |-> None]
    /\ wrongSecret = {} /\ late = {} /\ sawDefault = {}
    /\ bindings = {} /\ defaults = {}
    /\ bound = {} /\ thrown = {} /\ orphaned = {}

Row(c) == <<CodeAgent[code[c]], mobile[c]>>
HasDefault(m) == \E row \in defaults : row[2] = m
GoesTo(c, next) == stage' = [stage EXCEPT ![c] = next]

(***************************************************************************)
(* The life of a code outside claims.                                      *)
(***************************************************************************)
CreatePairing(p) ==
    /\ codes[p] = "unissued"
    /\ codes' = [codes EXCEPT ![p] = "pending"]
    /\ UNCHANGED <<ending, lapsed, claimVars, storeVars, pastVars>>

\* The relay's clock passes expiresAt; Redis counts its own five minutes.
ExpiryPasses(p) ==
    /\ codes[p] # "unissued"
    /\ p \notin lapsed
    /\ lapsed' = lapsed \cup {p}
    /\ UNCHANGED <<codes, ending, claimVars, storeVars, pastVars>>

\* The TTL of a key falls below 500 ms.
KeyEnds(p) ==
    /\ codes[p] \in {"pending", "claiming"}
    /\ p \notin ending
    /\ ending' = ending \cup {p}
    /\ UNCHANGED <<codes, lapsed, claimVars, storeVars, pastVars>>

\* Mutant of KeyExpires: the script's SET dropped the TTL of the key it locks.
KeyExpiresPendingOnly(p) ==
    /\ codes[p] = "pending"
    /\ p \in ending
    /\ codes' = [codes EXCEPT ![p] = "gone"]
    /\ ending' = ending \ {p}
    /\ UNCHANGED <<lapsed, claimVars, storeVars, pastVars>>

KeyExpires(p) ==
    /\ codes[p] \in {"pending", "claiming"}
    /\ p \in ending
    /\ codes' = [codes EXCEPT ![p] = "gone"]
    /\ ending' = ending \ {p}
    /\ UNCHANGED <<lapsed, claimVars, storeVars, pastVars>>

(***************************************************************************)
(* claimPairing: lock, check, write, consume.                              *)
(***************************************************************************)
\* The request arrives and its time is taken; lockPairing is on its way.
ClaimArrives(c, p, m) ==
    /\ stage[c] = "idle"
    /\ codes[p] # "unissued"
    /\ GoesTo(c, "locking")
    /\ code' = [code EXCEPT ![c] = p]
    /\ mobile' = [mobile EXCEPT ![c] = m]
    /\ wrongSecret' \in {wrongSecret, wrongSecret \cup {c}}
    /\ late' = IF p \in lapsed THEN late \cup {c} ELSE late
    /\ UNCHANGED <<codes, ending, lapsed, sawDefault, storeVars, pastVars>>

Accepts(c) == c \notin wrongSecret \cup late

\* Mutant of Lockable: the script does not test the status.
LockableAnyStatus(p) == codes[p] \in {"pending", "claiming"}
Lockable(p) == codes[p] = "pending"

\* What the script leaves: a pending key is locked for the rest of its TTL, deleted if that is 0.
Locked(p) == [codes EXCEPT ![p] = IF p \in ending THEN "gone" ELSE "claiming"]

LockPairing(c) ==
    /\ stage[c] = "locking"
    /\ IF Lockable(code[c])
       THEN /\ codes' = Locked(code[c])
            /\ ending' = ending \ {code[c]}
            /\ GoesTo(c, IF code[c] \in ending THEN "rejected"
                         ELSE IF Accepts(c) THEN "finding" ELSE "releaseGet")
       ELSE /\ GoesTo(c, "rejected")
            /\ UNCHANGED <<codes, ending>>
    /\ UNCHANGED <<lapsed, code, mobile, wrongSecret, late, sawDefault, storeVars, pastVars>>

\* Redis may have run the script before the call fails, or before ioredis sends it a second time.
LockThrows(c) ==
    /\ stage[c] = "locking"
    /\ GoesTo(c, "rejected")
    /\ thrown' = thrown \cup {c}
    /\ \/ UNCHANGED <<codes, ending, orphaned>>
       \/ /\ Lockable(code[c])
          /\ codes' = Locked(code[c])
          /\ ending' = ending \ {code[c]}
          /\ orphaned' = orphaned \cup {code[c]}
    /\ UNCHANGED <<lapsed, code, mobile, wrongSecret, late, sawDefault, storeVars, bound>>

FindExisting(c) ==
    /\ stage[c] = "finding"
    /\ IF Row(c) \in bindings
       THEN GoesTo(c, "touching") /\ bound' = bound \cup {c}
       ELSE GoesTo(c, "creating") /\ UNCHANGED bound
    /\ UNCHANGED <<codes, ending, lapsed, code, mobile, wrongSecret, late, sawDefault, storeVars, thrown, orphaned>>

TouchExisting(c) ==
    /\ stage[c] = "touching"
    /\ GoesTo(c, "consuming")
    /\ UNCHANGED <<codes, ending, lapsed, code, mobile, wrongSecret, late, sawDefault, storeVars, pastVars>>

\* createBinding is one statement: default_check sees the rows committed when it starts ...
CreateBinding(c) ==
    /\ stage[c] = "creating"
    /\ GoesTo(c, "inserting")
    /\ sawDefault' = IF HasDefault(mobile[c]) THEN sawDefault \cup {c} ELSE sawDefault
    /\ UNCHANGED <<codes, ending, lapsed, code, mobile, wrongSecret, late, storeVars, pastVars>>

\* Mutant of BecomesDefault: the NOT before has_default is lost.
BecomesDefaultInverted(c) == c \in sawDefault
BecomesDefault(c) == c \notin sawDefault

\* ... and its INSERT meets the unique indexes as they are when it writes.
InsertBinding(c) ==
    /\ stage[c] = "inserting"
    /\ \/ /\ Row(c) \in bindings
          /\ GoesTo(c, "consuming")
          /\ bound' = bound \cup {c}
          /\ UNCHANGED storeVars
       \/ /\ Row(c) \notin bindings
          /\ BecomesDefault(c) /\ HasDefault(mobile[c])
          /\ GoesTo(c, "fallback")
          /\ UNCHANGED <<storeVars, bound>>
       \/ /\ Row(c) \notin bindings
          /\ ~(BecomesDefault(c) /\ HasDefault(mobile[c]))
          /\ GoesTo(c, "consuming")
          /\ bindings' = bindings \cup {Row(c)}
          /\ defaults' = IF BecomesDefault(c) THEN defaults \cup {Row(c)} ELSE defaults
          /\ bound' = bound \cup {c}
    /\ UNCHANGED <<codes, ending, lapsed, code, mobile, wrongSecret, late, sawDefault, thrown, orphaned>>

\* The second INSERT, with is_default false.
InsertFallback(c) ==
    /\ stage[c] = "fallback"
    /\ GoesTo(c, "consuming")
    /\ bindings' = bindings \cup {Row(c)}
    /\ bound' = bound \cup {c}
    /\ UNCHANGED <<codes, ending, lapsed, code, mobile, wrongSecret, late, sawDefault, defaults, thrown, orphaned>>

\* Mutant of ConsumePairing: the key is not deleted.
ConsumePairingKeepsKey(c) ==
    /\ stage[c] = "consuming"
    /\ GoesTo(c, "succeeded")
    /\ codes' = [codes EXCEPT ![code[c]] = IF @ = "claiming" THEN "pending" ELSE @]
    /\ UNCHANGED <<ending, lapsed, code, mobile, wrongSecret, late, sawDefault, storeVars, pastVars>>

ConsumePairing(c) ==
    /\ stage[c] = "consuming"
    /\ GoesTo(c, "succeeded")
    /\ codes' = [codes EXCEPT ![code[c]] = "gone"]
    /\ ending' = ending \ {code[c]}
    /\ UNCHANGED <<lapsed, code, mobile, wrongSecret, late, sawDefault, storeVars, pastVars>>

\* A call of the try block throws, executed or not: the catch gives the code back.
WriteThrows(c) ==
    /\ stage[c] \in Writing
    /\ GoesTo(c, "releaseGet")
    /\ thrown' = thrown \cup {c}
    /\ \/ UNCHANGED <<codes, ending, storeVars, bound>>
       \/ /\ stage[c] = "inserting"
          /\ Row(c) \notin bindings
          /\ ~(BecomesDefault(c) /\ HasDefault(mobile[c]))
          /\ bindings' = bindings \cup {Row(c)}
          /\ defaults' = IF BecomesDefault(c) THEN defaults \cup {Row(c)} ELSE defaults
          /\ bound' = bound \cup {c}
          /\ UNCHANGED <<codes, ending>>
       \/ /\ stage[c] = "fallback"
          /\ bindings' = bindings \cup {Row(c)}
          /\ bound' = bound \cup {c}
          /\ UNCHANGED <<codes, ending, defaults>>
       \/ /\ stage[c] = "consuming"
          /\ codes' = [codes EXCEPT ![code[c]] = "gone"]
          /\ ending' = ending \ {code[c]}
          /\ UNCHANGED <<storeVars, bound>>
    /\ UNCHANGED <<lapsed, code, mobile, wrongSecret, late, sawDefault, orphaned>>

(***************************************************************************)
(* releasePairing: GET, TTL and SET.                                       *)
(***************************************************************************)
\* Mutant of ReleaseGet: a rejected claim returns without giving the code back.
ReleaseGetSkipped(c) ==
    /\ stage[c] = "releaseGet"
    /\ GoesTo(c, "rejected")
    /\ UNCHANGED <<codes, ending, lapsed, code, mobile, wrongSecret, late, sawDefault, storeVars, pastVars>>

ReleaseGet(c) ==
    /\ stage[c] = "releaseGet"
    /\ GoesTo(c, IF codes[code[c]] = "claiming" THEN "releaseTtl" ELSE "rejected")
    /\ UNCHANGED <<codes, ending, lapsed, code, mobile, wrongSecret, late, sawDefault, storeVars, pastVars>>

\* A TTL of 0, of a key that is gone or about to go, ends the release without the SET.
ReleaseTtl(c) ==
    /\ stage[c] = "releaseTtl"
    /\ GoesTo(c, IF codes[code[c]] = "gone" \/ code[c] \in ending THEN "rejected" ELSE "releaseSet")
    /\ UNCHANGED <<codes, ending, lapsed, code, mobile, wrongSecret, late, sawDefault, storeVars, pastVars>>

\* The SET brings back a key that expired after its TTL was read.
ReleaseSet(c) ==
    /\ stage[c] = "releaseSet"
    /\ GoesTo(c, "rejected")
    /\ codes' = [codes EXCEPT ![code[c]] = "pending"]
    /\ ending' = ending \ {code[c]}
    /\ UNCHANGED <<lapsed, code, mobile, wrongSecret, late, sawDefault, storeVars, pastVars>>

\* A call of releasePairing throws: the code stays locked, unless its SET was executed.
ReleaseThrows(c) ==
    /\ stage[c] \in Releasing
    /\ GoesTo(c, "rejected")
    /\ thrown' = thrown \cup {c}
    /\ \/ /\ orphaned' = orphaned \cup {code[c]}
          /\ UNCHANGED <<codes, ending>>
       \/ /\ stage[c] = "releaseSet"
          /\ codes' = [codes EXCEPT ![code[c]] = "pending"]
          /\ ending' = ending \ {code[c]}
          /\ UNCHANGED orphaned
    /\ UNCHANGED <<lapsed, code, mobile, wrongSecret, late, sawDefault, storeVars, bound>>

\* The relay process dies with its claims; Redis and PostgreSQL keep what they have.
RelayCrashes ==
    /\ \E c \in Claims : stage[c] \in Waiting
    /\ stage' = [c \in Claims |-> IF stage[c] \in Waiting THEN "rejected" ELSE stage[c]]
    /\ thrown' = thrown \cup {c \in Claims : stage[c] \in Waiting}
    /\ orphaned' = orphaned \cup {code[c] : c \in {d \in Claims : stage[d] \in Holding}}
    /\ UNCHANGED <<codes, ending, lapsed, code, mobile, wrongSecret, late, sawDefault, storeVars, bound>>

ClaimContinues(c) ==
    \/ LockPairing(c) \/ LockThrows(c)
    \/ FindExisting(c) \/ TouchExisting(c)
    \/ CreateBinding(c) \/ InsertBinding(c) \/ InsertFallback(c)
    \/ ConsumePairing(c) \/ WriteThrows(c)
    \/ ReleaseGet(c) \/ ReleaseTtl(c) \/ ReleaseSet(c) \/ ReleaseThrows(c)

Next ==
    \/ \E p \in Codes : CreatePairing(p) \/ ExpiryPasses(p) \/ KeyEnds(p) \/ KeyExpires(p)
    \/ \E c \in Claims, p \in Codes, m \in Mobiles : ClaimArrives(c, p, m)
    \/ \E c \in Claims : ClaimContinues(c)
    \/ RelayCrashes

Spec == Init /\ [][Next]_vars

\* Awaited calls return, and Redis removes a key whose time has come.
Fairness ==
    /\ \A c \in Claims : WF_vars(ClaimContinues(c))
    /\ \A p \in Codes : WF_vars(KeyEnds(p)) /\ WF_vars(KeyExpires(p))

FairSpec == Spec /\ Fairness
-----------------------------------------------------------------------------
(***************************************************************************)
(* Safety.                                                                 *)
(***************************************************************************)
\* Of all claims of a code at most one is past the lock, although the key may expire, or be given
\* back in three separate calls, meanwhile.
OneClaimantPerCode ==
    \A c, d \in Claims : stage[c] \in Holding /\ stage[d] \in Holding /\ code[c] = code[d] => c = d

\* A code is good for one successful claim, whatever fails around it.
OneSuccessPerCode ==
    \A c, d \in Claims : stage[c] = "succeeded" /\ stage[d] = "succeeded" /\ code[c] = code[d]
                            => c = d

\* Two phones are bound through one code only if a call of one of their claims threw: the answer
\* to the first was lost or its key could not be deleted.
CodeBindsOnce ==
    \A c, d \in bound : code[c] = code[d] /\ c # d => thrown \cap {c, d} # {}

\* A code that is locked is being worked on by a claim that will consume it or give it back, unless
\* a crash or a failing Redis has taken it from its claim, or its key is in its last half second, in
\* which releasePairing reads a TTL of 0 and leaves it locked.
LockHasOwner ==
    \A p \in Codes : codes[p] = "claiming" =>
        p \in orphaned \cup ending \/ \E c \in Claims : stage[c] \in Holding /\ code[c] = p

\* A phone that has bindings has exactly one default among them, however the claims of its codes
\* for several agents interleave.
OneDefaultPerMobile ==
    \A row \in bindings : Cardinality({d \in defaults : d[2] = row[2]}) = 1

\* A code brought back by a late release cannot be used: nobody is bound by a claim that came
\* after the expiry of its code.
ExpiredCodeNeverBinds == \A c \in bound : c \notin late

(***************************************************************************)
(* Liveness.                                                               *)
(***************************************************************************)
\* A locked code is given back, consumed or expires at last: no crash and no failing call leaves
\* it locked for ever.
LockedCodeIsFreed == \A p \in Codes : codes[p] = "claiming" ~> codes[p] # "claiming"
=============================================================================
