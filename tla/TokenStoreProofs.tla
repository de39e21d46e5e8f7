-------------------------- MODULE TokenStoreProofs --------------------------
(***************************************************************************)
(* Proofs about TokenStore for any number of calls: what the transactions  *)
(* guarantee comes from the lock on the device's row, except where a reset *)
(* runs without it.                                                        *)
(***************************************************************************)
EXTENDS TokenStore, TLAPS

\* Which operations await a query, and that locks belong to calls in flight.
StageInv ==
    /\ \A x \in Calls : stage[x] \in InFlight => op[x] \in Ops
    /\ \A x \in Calls : stage[x] = "count" => op[x] = "bootstrap"
    /\ \A x \in Calls : stage[x] \in {"rotate", "rotating"} => op[x] = "refresh"
    /\ \A x \in Calls : stage[x] = "token" => op[x] \in {"validate", "refresh"}
    /\ \A x \in Calls : stage[x] \in {"revoke", "revoking"} <=> op[x] = "revoke" /\ stage[x] \in InFlight
    /\ \A t \in Tokens : holder[t] # None => stage[holder[t]] \in InFlight

\* Only an active row has a newer version than its committed one, and no version is a token's first.
VersionInv ==
    /\ \A t \in Tokens : holder[t] = None => dirty[t] = status[t]
    /\ \A t \in Tokens : status[t] # "active" => dirty[t] = status[t]
    /\ \A t \in Tokens : status[t] = "active" => dirty[t] # "none"

\* Who decides about the pairs of the device holds its row.
NeedsDevice(x) ==
    \/ stage[x] \in {"count", "token"} \cup Checked
    \/ op[x] = "bootstrap" /\ stage[x] \in {"expire", "expiring"}
DeviceInv == \A x \in Calls : NeedsDevice(x) => deviceHolder = x

\* A pair appears when its call commits.
FreshInv ==
    /\ \A x \in Calls, k \in Kinds :
         stage[x] \in InFlight \cup {"idle", "rejected"} => status[<<x, k>>] = "none"
    /\ \A x \in Calls : before[x] \subseteq Committed

\* Every active token is one that x has ended, in a version of its own, or is still to take.
Ended(x, t) == holder[t] = x /\ dirty[t] # "active"
ClearInv ==
    /\ \A x \in Calls : stage[x] = "commit" /\ op[x] \in {"bootstrap", "refresh"} =>
         \A t \in Tokens : status[t] = "active" => Ended(x, t)
    /\ \A x \in Calls : stage[x] = "rotating" =>
         \A t \in Tokens : status[t] = "active" => Ended(x, t) \/ t \in todo[x]

\* The token of a call that has checked it is active and locked; a redeemed one is dead.
RedeemInv ==
    /\ \A x \in Calls : stage[x] \in Checked /\ op[x] \in {"validate", "refresh"} =>
         holder[PresentedToken(x)] = x /\ status[PresentedToken(x)] = "active"
    /\ \A x \in Calls : op[x] = "refresh" /\ x \in Committed =>
         presented[x] \in Calls /\ status[PresentedToken(x)] \notin {"none", "active"}

\* The pairs a reset has to revoke.
ResetInv ==
    \A r \in Calls : stage[r] = "revoking" =>
        \A p \in before[r], k \in Kinds :
            status[<<p, k>>] = "active" => Ended(r, <<p, k>>) \/ <<p, k>> \in todo[r]

TokenInv ==
    /\ TypeOK
    /\ StageInv /\ VersionInv /\ DeviceInv /\ FreshInv /\ ClearInv /\ RedeemInv /\ ResetInv
    /\ OneActivePair /\ RefreshUsedOnce /\ ResetRevokesAll

LEMMA TokenInit == Init => TokenInv
<1> USE DEF Init, Tokens, Kinds
<1>1. Init => TypeOK
  BY DEF TypeOK, Statuses, Stages, InFlight, Checked, Updating
<1>2. Init => Committed = {}
  BY DEF Committed
<1>3. Init => StageInv /\ VersionInv /\ DeviceInv /\ FreshInv /\ ClearInv /\ RedeemInv /\ ResetInv
  BY <1>2 DEF StageInv, VersionInv, DeviceInv, NeedsDevice, FreshInv, ClearInv, RedeemInv, ResetInv,
     InFlight, Checked, Updating
<1>4. Init => OneActivePair /\ RefreshUsedOnce /\ ResetRevokesAll
  BY <1>2 DEF OneActivePair, RefreshUsedOnce, ResetRevokesAll
<1> QED  BY <1>1, <1>3, <1>4 DEF TokenInv

\* ROLLBACK leaves the committed rows as they are.
LEMMA RollBack ==
    ASSUME TokenInv, NEW x \in Calls, NEW next \in {"rejected", "failed"},
           stage[x] \in InFlight, RollsBackAs(x, next)
    PROVE  TokenInv'
<1> USE CallsAssumption DEF TokenInv, RollsBackAs, GoesTo, Unlocks, callVars, Tokens
<1>1. TypeOK'
  BY DEF TypeOK, Stages, InFlight, Checked, Updating
<1>2. Committed' = Committed
  BY DEF Committed
<1>3. StageInv'
  BY DEF StageInv, TypeOK, InFlight, Checked, Updating
<1>4. VersionInv'
  BY DEF VersionInv, TypeOK
<1>5. DeviceInv'
  BY DEF DeviceInv, NeedsDevice, TypeOK, Checked
<1>6. FreshInv'
  BY <1>2 DEF FreshInv, TypeOK, InFlight, Checked, Updating
<1>7. ClearInv'
  BY DEF ClearInv, Ended, TypeOK
<1>8. RedeemInv'
  <2>1. ASSUME NEW y \in Calls, (stage[y] \in Checked)', op[y] \in {"validate", "refresh"}
        PROVE  (holder[PresentedToken(y)] = y /\ status[PresentedToken(y)] = "active")'
    <3>1. y # x /\ stage[y] \in Checked /\ PresentedToken(y) \in Tokens
      BY <2>1 DEF TypeOK, Checked, PresentedToken, Kinds
    <3>2. PresentedToken(y)' = PresentedToken(y)
      BY DEF PresentedToken
    <3> QED  BY <2>1, <3>1, <3>2 DEF RedeemInv, TypeOK
  <2> QED  BY <1>2, <2>1 DEF RedeemInv, PresentedToken
<1>9. ResetInv'
  BY DEF ResetInv, Ended, TypeOK, Kinds
<1>10. OneActivePair' /\ RefreshUsedOnce' /\ ResetRevokesAll'
  BY <1>2 DEF OneActivePair, RefreshUsedOnce, ResetRevokesAll, TypeOK, InFlight, Checked, Updating
<1> QED  BY <1>1, <1>3, <1>4, <1>5, <1>6, <1>7, <1>8, <1>9, <1>10

\* An UPDATE takes a row that nobody else holds.
LEMMA RowUpdated ==
    ASSUME TokenInv, NEW x \in Calls, NEW t \in Tokens, UpdateRow(x, t)
    PROVE  TokenInv'
<1> USE CallsAssumption DEF TokenInv, UpdateRow, Free, callVars, Updating
<1>0. Written(stage[x]) \in Statuses \ {"active", "none"}
  BY DEF Written, Statuses
<1>1. TypeOK'
  BY <1>0 DEF TypeOK
<1>2. Committed' = Committed /\ UNCHANGED <<status, stage, op, presented, before>>
  BY DEF Committed
<1>3. StageInv'
  BY DEF StageInv, TypeOK, InFlight
<1>4. dirty[t] = "active" => status[t] = "active"
  BY DEF VersionInv
<1>5. VersionInv'
  BY <1>0, <1>4 DEF VersionInv, TypeOK, Matches
<1>6. DeviceInv' /\ FreshInv' /\ OneActivePair' /\ RefreshUsedOnce' /\ ResetRevokesAll'
  BY <1>2 DEF DeviceInv, NeedsDevice, FreshInv, OneActivePair, RefreshUsedOnce, ResetRevokesAll
<1>7. stage[x] \in {"rotating", "revoking"} => dirty'[t] # "active" /\ holder'[t] = x
  BY <1>0 DEF Matches, TypeOK
<1>8. \A y \in Calls, u \in Tokens : Ended(y, u) => Ended(y, u)'
  BY <1>0, <1>4 DEF Ended, TypeOK
<1>9. ClearInv'
  <2>1. \A y \in Calls : y # x => todo'[y] = todo[y]
    BY DEF TypeOK
  <2>2. todo'[x] = todo[x] \ {t}
    BY DEF TypeOK
  <2> QED  BY <1>2, <1>7, <1>8, <2>1, <2>2 DEF ClearInv, Ended
<1>10. RedeemInv'
  <2>1. \A y \in Calls : stage[y] \in Checked /\ op[y] \in {"validate", "refresh"} =>
            holder'[PresentedToken(y)] = y
    BY DEF RedeemInv, TypeOK
  <2> QED  BY <1>2, <2>1 DEF RedeemInv, PresentedToken
<1>11. ResetInv'
  <2>1. \A y \in Calls : y # x => todo'[y] = todo[y]
    BY DEF TypeOK
  <2>2. todo'[x] = todo[x] \ {t}
    BY DEF TypeOK
  <2>3. \A p \in Calls, k \in Kinds : <<p, k>> \in Tokens
    BY DEF Tokens
  <2>4. \A r \in Calls : before[r] \subseteq Calls
    BY DEF TypeOK
  <2> QED  BY <1>2, <1>7, <1>8, <2>1, <2>2, <2>3, <2>4 DEF ResetInv, Ended
<1> QED  BY <1>1, <1>3, <1>5, <1>6, <1>9, <1>10, <1>11


\* Steps that change neither rows nor locks: a statement starts, or its last row is done.
LEMMA QueryMoves ==
    ASSUME TokenInv, NEW x \in Calls,
           UNCHANGED <<status, lockVars, lapsed, callVars>>,
           \/ ExpireStarts(x) \/ RotateStarts(x) \/ RevokeStarts(x) \/ ExpireEnds(x) \/ RotateEnds(x)
           \/ CountActive(x) /\ stage'[x] = "commit"
    PROVE  TokenInv'
<1> USE DEF TokenInv, GoesTo, lockVars, callVars
<1> DEFINE Moves == ExpireStarts(x) \/ RotateStarts(x) \/ RevokeStarts(x) \/ ExpireEnds(x)
                    \/ RotateEnds(x) \/ (CountActive(x) /\ stage'[x] = "commit")
<1>1. /\ stage' \in [Calls -> Stages] /\ todo' \in [Calls -> SUBSET Tokens]
      /\ \A y \in Calls \ {x} : stage'[y] = stage[y] /\ todo'[y] = todo[y]
      /\ \/ stage[x] = "expire" /\ stage'[x] = "expiring"
         \/ stage[x] = "rotate" /\ stage'[x] = "rotating"
         \/ stage[x] = "revoke" /\ stage'[x] = "revoking"
         \/ stage[x] = "expiring" /\ op[x] = "bootstrap" /\ stage'[x] = "count"
         \/ stage[x] = "expiring" /\ op[x] # "bootstrap" /\ stage'[x] = "device"
         \/ stage[x] = "rotating" /\ stage'[x] = "commit" /\ todo[x] = {}
         \/ stage[x] = "count" /\ stage'[x] = "commit"
            /\ \A t \in Tokens : Sees(x, t) # "active"
  BY DEF ExpireStarts, RotateStarts, RevokeStarts, ExpireEnds, RotateEnds, CountActive, Starts,
     RollsBackAs, TypeOK, Stages, InFlight, Checked, Updating
<1>2. \/ stage[x] = "rotate" /\ todo'[x] = {t \in Tokens : Sees(x, t) = "active"}
      \/ stage[x] = "revoke" /\ todo'[x] = {t \in Tokens : Sees(x, t) = "active"}
      \/ stage[x] \notin {"rotate", "revoke"}
  BY DEF ExpireStarts, RotateStarts, RevokeStarts, ExpireEnds, RotateEnds, CountActive, Starts,
     RollsBackAs, TypeOK, Matches
<1>3. Committed' = Committed /\ \A t \in Tokens : PresentedToken(x)' = PresentedToken(x)
  BY DEF Committed, PresentedToken
<1>4. TypeOK'
  BY <1>1 DEF TypeOK, StageInv, Checked
<1>5. StageInv'
  BY <1>1 DEF StageInv, TypeOK, InFlight, Checked, Updating, Ops
<1>6. VersionInv'
  BY DEF VersionInv
<1>7. DeviceInv'
  BY <1>1 DEF DeviceInv, NeedsDevice, Checked
<1>8. FreshInv'
  BY <1>1, <1>3 DEF FreshInv, TypeOK, InFlight, Checked, Updating
<1>9. \A t \in Tokens : Sees(x, t) # "active" /\ status[t] = "active" => Ended(x, t)
  BY DEF Sees, Ended
<1>10. ClearInv'
  <2>1. \A y \in Calls, t \in Tokens : Ended(y, t)' <=> Ended(y, t)
    BY DEF Ended
  <2> QED  BY <1>1, <1>2, <1>9, <2>1 DEF ClearInv, StageInv
<1>11. RedeemInv'
  <2>1. \A y \in Calls : PresentedToken(y)' = PresentedToken(y)
    BY DEF PresentedToken
  <2> QED  BY <1>1, <1>3, <2>1 DEF RedeemInv, StageInv, Checked
<1>12. ResetInv'
  <2>1. \A y \in Calls, t \in Tokens : Ended(y, t)' <=> Ended(y, t)
    BY DEF Ended
  <2>2. \A r \in Calls : before[r] \subseteq Calls
    BY DEF TypeOK
  <2> QED  BY <1>1, <1>2, <1>9, <2>1, <2>2 DEF ResetInv, Tokens
<1>13. OneActivePair' /\ RefreshUsedOnce' /\ ResetRevokesAll'
  BY <1>1, <1>3 DEF OneActivePair, RefreshUsedOnce, ResetRevokesAll
<1> QED  BY <1>4, <1>5, <1>6, <1>7, <1>8, <1>10, <1>11, <1>12, <1>13

\* The row of the device, or of the token, is locked for update.
LEMMA LockTaken ==
    ASSUME TokenInv, NEW x \in Calls,
           \/ UpsertDevice(x)
           \/ SelectDevice(x) /\ stage'[x] = "token"
           \/ SelectToken(x) /\ stage'[x] \in {"commit", "rotate"}
    PROVE  TokenInv'
<1> USE CallsAssumption DEF TokenInv, GoesTo, callVars
<1>1. /\ UNCHANGED <<status, dirty, lapsed, op, presented, due, before, todo>>
      /\ \A y \in Calls \ {x} : stage'[y] = stage[y]
      /\ \/ /\ stage[x] = "device" /\ op[x] = "bootstrap" /\ stage'[x] = "expire"
            /\ DeviceFree(x) /\ deviceHolder' = x /\ UNCHANGED holder
         \/ /\ stage[x] = "device" /\ op[x] # "bootstrap" /\ stage'[x] = "token"
            /\ DeviceFree(x) /\ deviceHolder' = x /\ UNCHANGED holder
         \/ /\ stage[x] = "token" /\ presented[x] # None
            /\ stage'[x] = IF op[x] = "validate" THEN "commit" ELSE "rotate"
            /\ Free(x, PresentedToken(x)) /\ dirty[PresentedToken(x)] = "active"
            /\ holder' = [holder EXCEPT ![PresentedToken(x)] = x] /\ UNCHANGED deviceHolder
  BY DEF UpsertDevice, SelectDevice, SelectToken, LocksDevice, LocksToken, Works, UnknownToken,
     RollsBackAs, TypeOK
<1>2. stage' \in [Calls -> Stages]
  BY <1>1 DEF UpsertDevice, SelectDevice, SelectToken, UnknownToken, RollsBackAs, TypeOK, Stages,
     InFlight, Checked
<1>3. Committed' = Committed
  BY <1>1 DEF Committed
<1>4. stage[x] = "token" => PresentedToken(x) \in Tokens
  BY <1>1 DEF PresentedToken, Tokens, Kinds, TypeOK
<1>5. \A t \in Tokens : holder'[t] # holder[t] => Free(x, t) /\ holder'[t] = x
  BY <1>1, <1>4 DEF Free, TypeOK
<1>6. TypeOK'
  <2>1. holder' \in [Tokens -> Calls \cup {None}]
    BY <1>1, <1>4 DEF TypeOK
  <2> QED  BY <1>1, <1>2, <2>1 DEF TypeOK, Checked
<1>7. StageInv'
  BY <1>1, <1>2, <1>5 DEF StageInv, TypeOK, InFlight, Checked, Updating, Ops
<1>8. VersionInv'
  BY <1>1, <1>5 DEF VersionInv, TypeOK, Free
<1>9. DeviceInv'
  BY <1>1, <1>2 DEF DeviceInv, NeedsDevice, DeviceFree, Checked, StageInv
<1>10. FreshInv'
  BY <1>1, <1>2, <1>3 DEF FreshInv, InFlight, Checked, Updating
<1>11. \A y \in Calls, t \in Tokens : Ended(y, t) => Ended(y, t)'
  BY <1>1, <1>5 DEF Ended, Free
<1>12. ClearInv'
  BY <1>1, <1>2, <1>11 DEF ClearInv, StageInv
<1>13. RedeemInv'
  <2>1. \A y \in Calls : PresentedToken(y)' = PresentedToken(y)
    BY <1>1 DEF PresentedToken
  <2>2. \A y \in Calls : stage[y] \in Checked /\ op[y] # "bootstrap" => PresentedToken(y) \in Tokens
    BY DEF PresentedToken, Tokens, Kinds, TypeOK
  <2>3. stage[x] = "token" => holder'[PresentedToken(x)] = x /\ status[PresentedToken(x)] = "active"
    BY <1>1, <1>4 DEF TypeOK, VersionInv, Free
  <2> QED  BY <1>1, <1>3, <1>5, <2>1, <2>2, <2>3 DEF RedeemInv, Free, Checked
<1>14. ResetInv'
  <2>1. \A r \in Calls : before[r] \subseteq Calls
    BY DEF TypeOK
  <2> QED  BY <1>1, <1>2, <1>11, <2>1 DEF ResetInv, Tokens
<1>15. OneActivePair' /\ RefreshUsedOnce' /\ ResetRevokesAll'
  BY <1>1, <1>3 DEF OneActivePair, RefreshUsedOnce, ResetRevokesAll
<1> QED  BY <1>6, <1>7, <1>8, <1>9, <1>10, <1>12, <1>13, <1>14, <1>15


\* COMMIT makes the versions of the rows that x holds visible, and the pair it issues.
LEMMA CommitDone ==
    ASSUME TokenInv, NEW x \in Calls, NEW next \in {"accepted", "failed"}, CommitsAs(x, next),
           stage[x] = "commit" \/ (stage[x] = "revoking" /\ todo[x] = {})
    PROVE  /\ TokenInv'
           /\ \A t \in Tokens : status[t] \notin {"none", "active"} => status'[t] = status[t]
<1> USE CallsAssumption DEF TokenInv
<1>1. /\ UNCHANGED <<lapsed, op, presented, due, before>>
      /\ stage' = [stage EXCEPT ![x] = next]
      /\ todo' = [todo EXCEPT ![x] = {}]
      /\ holder' = [t \in Tokens |-> IF holder[t] = x THEN None ELSE holder[t]]
      /\ deviceHolder' = IF deviceHolder = x THEN None ELSE deviceHolder
      /\ dirty' = [t \in Tokens |-> IF t \in Issued(x) THEN "active" ELSE dirty[t]]
  BY DEF CommitsAs, GoesTo, Unlocks, callVars
<1>2. \A t \in Tokens : status'[t] = IF t \in Issued(x) THEN "active"
                                     ELSE IF holder[t] = x THEN dirty[t] ELSE status[t]
  BY DEF CommitsAs, Sees
<1>3. /\ Issued(x) \subseteq Tokens
      /\ \A t \in Issued(x) : /\ t[1] = x /\ status[t] = "none" /\ dirty[t] = "none"
                              /\ stage[x] = "commit" /\ op[x] \in {"bootstrap", "refresh"}
      /\ \A k \in Kinds : <<x, k>> \in Issued(x) <=> op[x] \in {"bootstrap", "refresh"}
  BY DEF Issued, Tokens, Kinds, FreshInv, VersionInv, StageInv, InFlight, Checked, Updating
<1>4. \A t \in Tokens \ Issued(x) :
         /\ status'[t] = "active" => status[t] = "active" /\ ~Ended(x, t)
         /\ status'[t] = "none" <=> status[t] = "none"
         /\ status[t] \notin {"none", "active"} => status'[t] = status[t]
  BY <1>2 DEF VersionInv, Ended
<1>5. TypeOK'
  <2>1. status' \in [Tokens -> Statuses] /\ dirty' \in [Tokens -> Statuses]
    BY <1>1 DEF CommitsAs, Sees, TypeOK, Statuses
  <2> QED  BY <1>1, <2>1 DEF TypeOK, Stages, InFlight, Checked
<1>6. Committed' = Committed \cup IF op[x] \in {"bootstrap", "refresh"} THEN {x} ELSE {}
  <2>1. \A p \in Calls, k \in Kinds : <<p, k>> \in Tokens
    BY DEF Tokens
  <2>2. \A p \in Calls : p # x => \A k \in Kinds : <<p, k>> \notin Issued(x)
    BY DEF Issued
  <2>3. ASSUME NEW p \in Calls, p # x
        PROVE  \A k \in Kinds : status'[<<p, k>>] = "none" <=> status[<<p, k>>] = "none"
    BY <1>4, <2>1, <2>2, <2>3
  <2>4. CASE op[x] \in {"bootstrap", "refresh"}
    <3>1. status'[<<x, "access">>] # "none"
      BY <1>2, <1>3, <2>1, <2>4 DEF Kinds
    <3> QED  BY <2>3, <2>4, <3>1 DEF Committed, Kinds
  <2>5. CASE op[x] \notin {"bootstrap", "refresh"}
    <3>1. Issued(x) = {}
      BY <2>5 DEF Issued
    <3>2. \A k \in Kinds : status'[<<x, k>>] = "none" <=> status[<<x, k>>] = "none"
      BY <1>4, <2>1, <3>1
    <3> QED  BY <2>3, <2>5, <3>2 DEF Committed
  <2> QED  BY <2>4, <2>5
<1>7. /\ \A y \in Calls \ {x} : stage'[y] = stage[y] /\ todo'[y] = todo[y]
      /\ stage'[x] = next
  BY <1>1 DEF TypeOK
<1>8. StageInv'
  BY <1>1, <1>7 DEF StageInv, TypeOK, InFlight, Checked, Updating
<1>9. VersionInv'
  <2>1. \A t \in Tokens : /\ holder'[t] = (IF holder[t] = x THEN None ELSE holder[t])
                          /\ dirty'[t] = (IF t \in Issued(x) THEN "active" ELSE dirty[t])
    BY <1>1
  <2> QED  BY <1>2, <1>4, <2>1 DEF VersionInv
<1>10. DeviceInv'
  BY <1>1, <1>7 DEF DeviceInv, NeedsDevice, Checked
<1>11. FreshInv'
  <2>1. ASSUME NEW y \in Calls, NEW k \in Kinds,
               (stage[y] \in InFlight \cup {"idle", "rejected"})'
        PROVE  status'[<<y, k>>] = "none"
    <3>1. y # x /\ <<y, k>> \in Tokens \ Issued(x)
      BY <1>7, <2>1 DEF InFlight, Checked, Updating, Tokens, Issued
    <3> QED  BY <1>4, <1>7, <2>1, <3>1 DEF FreshInv
  <2> QED  BY <1>1, <1>6, <2>1 DEF FreshInv, InFlight, Checked, Updating
<1>12. \A y \in Calls \ {x} : \A t \in Tokens :
          Ended(y, t) /\ t \notin Issued(x) => Ended(y, t)'
  BY <1>1 DEF Ended, TypeOK
<1>13. ClearInv'
  <2>1. ASSUME NEW y \in Calls \ {x}, NeedsDevice(y)
        PROVE  Issued(x) = {}
    BY <2>1, <1>3 DEF DeviceInv, NeedsDevice, Checked
  <2>2. \A y \in Calls : stage[y] \in {"commit", "rotating"} => NeedsDevice(y)
    BY DEF NeedsDevice, Checked
  <2> QED  BY <1>1, <1>4, <1>7, <1>12, <2>1, <2>2 DEF ClearInv
<1>14. RedeemInv'
  <2>1. \A y \in Calls : PresentedToken(y)' = PresentedToken(y)
    BY <1>1 DEF PresentedToken
  <2>2. \A y \in Calls : presented[y] \in Calls => PresentedToken(y) \in Tokens
    BY DEF PresentedToken, Tokens, Kinds
  <2>3. ASSUME NEW y \in Calls, stage'[y] \in Checked, op[y] \in {"validate", "refresh"}
        PROVE  holder'[PresentedToken(y)] = y /\ status'[PresentedToken(y)] = "active"
    <3>1. y # x /\ stage[y] \in Checked /\ presented[y] \in Calls
      BY <1>7, <2>3 DEF Checked, TypeOK
    <3>2. holder[PresentedToken(y)] = y /\ status[PresentedToken(y)] = "active"
      BY <2>3, <3>1 DEF RedeemInv
    <3> QED  BY <1>1, <1>2, <2>2, <3>1, <3>2
  <2>4. ASSUME NEW y \in Calls, op[y] = "refresh", y \in Committed'
        PROVE  presented[y] \in Calls /\ status'[PresentedToken(y)] \notin {"none", "active"}
    <3>1. CASE y \in Committed
      BY <1>3, <1>4, <2>2, <2>4, <3>1 DEF RedeemInv
    <3>2. CASE y \notin Committed
      <4>1. y = x /\ stage[x] = "commit" /\ presented[x] \in Calls
        BY <1>3, <1>6, <2>4, <3>2 DEF TypeOK, Checked, Kinds
      <4>2. holder[PresentedToken(x)] = x /\ status[PresentedToken(x)] = "active"
        BY <2>4, <4>1 DEF RedeemInv, Checked
      <4>3. dirty[PresentedToken(x)] \notin {"none", "active"}
        BY <2>2, <2>4, <4>1, <4>2 DEF ClearInv, Ended, VersionInv
      <4> QED  BY <1>2, <1>3, <2>2, <4>1, <4>2, <4>3
    <3> QED  BY <3>1, <3>2
  <2> QED  BY <1>1, <2>1, <2>3, <2>4 DEF RedeemInv
<1>15. ResetInv'
  <2>1. ASSUME NEW r \in Calls, stage'[r] = "revoking", NEW p \in before[r], NEW k \in Kinds,
               status'[<<p, k>>] = "active"
        PROVE  Ended(r, <<p, k>>)' \/ <<p, k>> \in todo'[r]
    <3>1. r # x /\ stage[r] = "revoking" /\ p \in Calls /\ <<p, k>> \in Tokens
      BY <1>7, <2>1 DEF TypeOK, Tokens
    <3>2. <<p, k>> \notin Issued(x)
      BY <1>3, <2>1, <3>1 DEF FreshInv, Committed, InFlight, Checked
    <3> QED  BY <1>4, <1>7, <1>12, <2>1, <3>1, <3>2 DEF ResetInv
  <2> QED  BY <1>1, <2>1 DEF ResetInv
<1>16. OneActivePair'
  <2>1. ASSUME NEW t \in Tokens \ Issued(x), status'[t] = "active", Issued(x) # {}
        PROVE  FALSE
    BY <1>3, <1>4, <2>1 DEF ClearInv
  <2> QED  BY <1>3, <1>4, <2>1 DEF OneActivePair
<1>17. RefreshUsedOnce'
  <2>1. \A y \in Calls : op[x] = "refresh" /\ x \notin Committed /\ x \in Committed'
                         /\ op[y] = "refresh" /\ y \in Committed => presented[x] # presented[y]
    <3>1. SUFFICES ASSUME NEW y \in Calls, op[x] = "refresh", x \notin Committed, x \in Committed',
                          op[y] = "refresh", y \in Committed, presented[x] = presented[y]
                   PROVE  FALSE
      OBVIOUS
    <3>2. stage[x] = "commit"
      BY <1>3, <1>6, <3>1 DEF Kinds
    <3>3. status[PresentedToken(x)] = "active"
      BY <3>1, <3>2 DEF RedeemInv, Checked
    <3>4. PresentedToken(x) = PresentedToken(y)
      BY <3>1 DEF PresentedToken
    <3> QED  BY <3>1, <3>3, <3>4 DEF RedeemInv
  <2> QED  BY <1>1, <1>6, <2>1 DEF RefreshUsedOnce
<1>18. ResetRevokesAll'
  <2>1. ASSUME NEW r \in Calls, op[r] = "revoke", stage'[r] = "accepted", NEW p \in before[r],
               NEW k \in Kinds, status'[<<p, k>>] = "active"
        PROVE  FALSE
    <3>1. p \in Calls /\ <<p, k>> \in Tokens /\ <<p, k>> \notin Issued(x)
      BY <1>3, <2>1 DEF FreshInv, Committed, InFlight, Checked, TypeOK, Tokens
    <3>2. status[<<p, k>>] = "active" /\ ~Ended(x, <<p, k>>)
      BY <1>4, <2>1, <3>1
    <3>3. CASE r = x
      <4>1. stage[x] = "revoking" /\ todo[x] = {}
        BY <2>1, <3>3 DEF StageInv, InFlight, Checked, Updating
      <4> QED  BY <2>1, <3>2, <3>3, <4>1 DEF ResetInv
    <3>4. CASE r # x
      BY <1>7, <2>1, <3>2, <3>4 DEF ResetRevokesAll
    <3> QED  BY <3>3, <3>4
  <2> QED  BY <1>1, <2>1 DEF ResetRevokesAll
<1>19. \A t \in Tokens : status[t] \notin {"none", "active"} => status'[t] = status[t]
  BY <1>3, <1>4
<1> QED  BY <1>5, <1>8, <1>9, <1>10, <1>11, <1>13, <1>14, <1>15, <1>16, <1>17, <1>18, <1>19


LEMMA CallBegins ==
    ASSUME TokenInv, NEW x \in Calls, NEW o \in Ops, NEW p \in Calls \cup {None}, Begin(x, o, p)
    PROVE  TokenInv'
<1> USE CallsAssumption DEF TokenInv, Begin, GoesTo, lockVars
<1>1. /\ stage[x] = "idle" /\ stage'[x] \in {"device", "revoke", "expire"}
      /\ op'[x] = o /\ presented'[x] = p
      /\ stage'[x] = "revoke" <=> o = "revoke"
      /\ o = "bootstrap" => stage'[x] = "device"
      /\ \A y \in Calls \ {x} : /\ stage'[y] = stage[y] /\ op'[y] = op[y]
                                /\ presented'[y] = presented[y] /\ before'[y] = before[y]
      /\ UNCHANGED <<status, dirty, holder, deviceHolder, todo>>
  BY DEF TypeOK, Ops
<1>2. Committed' = Committed /\ Committed \subseteq Calls
  BY DEF Committed
<1>3. \A k \in Kinds : status[<<x, k>>] = "none"
  BY DEF FreshInv
<1>4. x \notin Committed
  BY <1>3 DEF Committed
<1>5. before'[x] \in {before[x], Committed}
  BY DEF TypeOK
<1>6. TypeOK'
  <2>1. before' \in [Calls -> SUBSET Calls] /\ due' \in [Calls -> SUBSET Tokens]
    BY <1>2 DEF TypeOK
  <2>2. stage' \in [Calls -> Stages] /\ op' \in [Calls -> Ops \cup {None}]
        /\ presented' \in [Calls -> Calls \cup {None}]
    BY DEF TypeOK, Stages, InFlight
  <2> QED  BY <1>1, <2>1, <2>2 DEF TypeOK, Checked
<1>7. StageInv'
  BY <1>1 DEF StageInv, TypeOK, InFlight, Checked, Updating
<1>8. VersionInv' /\ DeviceInv'
  BY <1>1 DEF VersionInv, DeviceInv, NeedsDevice, Checked
<1>9. FreshInv'
  BY <1>1, <1>2, <1>3, <1>5 DEF FreshInv, InFlight, Checked
<1>10. ClearInv'
  BY <1>1 DEF ClearInv, Ended
<1>11. RedeemInv'
  <2>1. \A y \in Calls \ {x} : PresentedToken(y)' = PresentedToken(y)
    BY <1>1 DEF PresentedToken
  <2> QED  BY <1>1, <1>2, <1>4, <2>1 DEF RedeemInv, Checked
<1>12. ResetInv'
  BY <1>1 DEF ResetInv, Ended
<1>13. OneActivePair' /\ RefreshUsedOnce' /\ ResetRevokesAll'
  BY <1>1, <1>2, <1>4 DEF OneActivePair, RefreshUsedOnce, ResetRevokesAll
<1> QED  BY <1>6, <1>7, <1>8, <1>9, <1>10, <1>11, <1>12, <1>13

LEMMA TimePasses ==
    ASSUME TokenInv,
           (\E p \in Calls, k \in Kinds : Lapse(p, k)) \/ UNCHANGED vars
    PROVE  TokenInv'
<1> USE DEF TokenInv
<1>1. /\ UNCHANGED <<status, dirty, holder, deviceHolder, stage, op, presented, due, before, todo>>
      /\ lapsed \subseteq Tokens => lapsed' \subseteq Tokens
  <2>1. CASE UNCHANGED vars
    BY <2>1 DEF vars, lockVars, callVars
  <2>2. ASSUME NEW p \in Calls, NEW k \in Kinds, Lapse(p, k)
        PROVE  <1>1!1 /\ lapsed' = lapsed \cup {<<p, k>>} /\ <<p, k>> \in Tokens
    BY <2>2 DEF Lapse, lockVars, callVars, Tokens
  <2> QED  BY <2>1, <2>2
<1>2. TypeOK'
  BY <1>1 DEF TypeOK
<1>3. StageInv' /\ VersionInv' /\ DeviceInv' /\ OneActivePair'
  BY <1>1 DEF StageInv, VersionInv, DeviceInv, NeedsDevice, OneActivePair
<1>4. FreshInv' /\ ClearInv' /\ RedeemInv' /\ ResetInv' /\ RefreshUsedOnce' /\ ResetRevokesAll'
  BY <1>1 DEF FreshInv, ClearInv, RedeemInv, ResetInv, RefreshUsedOnce, ResetRevokesAll, Ended,
     PresentedToken, Committed
<1> QED  BY <1>2, <1>3, <1>4

\* What the steps of a call do, by the kind of query.
LEMMA CallSteps ==
    ASSUME TokenInv, NEW x \in Calls, CallContinues(x) \/ QueryThrows(x)
    PROVE  \/ \E next \in {"rejected", "failed"} : stage[x] \in InFlight /\ RollsBackAs(x, next)
           \/ \E t \in Tokens : UpdateRow(x, t)
           \/ /\ UNCHANGED <<status, lockVars, lapsed, callVars>>
              /\ \/ ExpireStarts(x) \/ RotateStarts(x) \/ RevokeStarts(x)
                 \/ ExpireEnds(x) \/ RotateEnds(x)
                 \/ CountActive(x) /\ stage'[x] = "commit"
           \/ UpsertDevice(x)
           \/ SelectDevice(x) /\ stage'[x] = "token"
           \/ SelectToken(x) /\ stage'[x] \in {"commit", "rotate"}
           \/ \E next \in {"accepted", "failed"} :
                 /\ CommitsAs(x, next)
                 /\ stage[x] = "commit" \/ (stage[x] = "revoking" /\ todo[x] = {})
<1>1. stage \in [Calls -> Stages]
  BY DEF TokenInv, TypeOK
<1>2. CASE ExpireStarts(x) \/ RotateStarts(x) \/ RevokeStarts(x)
  BY <1>2 DEF ExpireStarts, RotateStarts, RevokeStarts, Starts
<1>3. CASE ExpireEnds(x) \/ RotateEnds(x)
  BY <1>3 DEF ExpireEnds, RotateEnds
<1>4. CASE UpsertDevice(x) \/ \E t \in Tokens : UpdateRow(x, t)
  BY <1>4
<1>5. CASE RevokeEnds(x) \/ Commit(x) \/ CommitAnswerLost(x)
  <2>1. \E next \in {"accepted", "failed"} :
           /\ CommitsAs(x, next)
           /\ stage[x] = "commit" \/ (stage[x] = "revoking" /\ todo[x] = {})
    <3>1. CASE RevokeEnds(x)
      BY <3>1 DEF RevokeEnds
    <3>2. CASE Commit(x)
      <4>1. stage[x] = "commit" /\ CommitsAs(x, "accepted")
        BY <3>2 DEF Commit
      <4> WITNESS "accepted" \in {"accepted", "failed"}
      <4> QED  BY <4>1
    <3>3. CASE CommitAnswerLost(x)
      <4>1. stage[x] = "commit" /\ CommitsAs(x, "failed")
        BY <3>3 DEF CommitAnswerLost
      <4> WITNESS "failed" \in {"accepted", "failed"}
      <4> QED  BY <4>1
    <3> QED  BY <1>5, <3>1, <3>2, <3>3
  <2> QED  BY <2>1
<1>6. CASE SelectDevice(x)
  BY <1>1, <1>6 DEF SelectDevice, GoesTo, InFlight
<1>7. CASE CountActive(x)
  BY <1>1, <1>7 DEF CountActive, GoesTo, InFlight
<1>8. CASE SelectToken(x)
  BY <1>1, <1>8 DEF SelectToken, UnknownToken, GoesTo, InFlight
<1>9. CASE DeadlockBroken(x)
  <2>1. Blockers(x) # {}
    BY <1>9 DEF DeadlockBroken, Deadlocked
  <2>2. stage[x] \in InFlight
    BY <2>1 DEF Blockers, InFlight, Updating
  <2> QED  BY <1>9, <2>2 DEF DeadlockBroken
<1>10. CASE QueryThrows(x)
  BY <1>10 DEF QueryThrows
<1> QED  BY <1>2, <1>3, <1>4, <1>5, <1>6, <1>7, <1>8, <1>9, <1>10 DEF CallContinues

LEMMA TokenStep == TokenInv /\ [Next]_vars => TokenInv'
<1> SUFFICES ASSUME TokenInv, [Next]_vars PROVE TokenInv'
  OBVIOUS
<1>1. CASE \E x \in Calls, o \in Ops, p \in Calls \cup {None} : Begin(x, o, p)
  BY <1>1, CallBegins
<1>2. CASE (\E p \in Calls, k \in Kinds : Lapse(p, k)) \/ UNCHANGED vars
  BY <1>2, TimePasses
<1>3. ASSUME NEW x \in Calls, CallContinues(x) \/ QueryThrows(x)
      PROVE  TokenInv'
  BY <1>3, CallSteps, RollBack, RowUpdated, QueryMoves, LockTaken, CommitDone
<1> QED  BY <1>1, <1>2, <1>3 DEF Next

\* The transactions keep the invariant that the properties below follow from, whatever calls run at
\* once on the device and wherever they fail (bootstrapDevice, validateDevice, refreshDeviceTokens,
\* revokeActiveTokensForDevice).
THEOREM TokenSafety == Spec => []TokenInv
BY TokenInit, TokenStep, PTL DEF Spec

\* At any time the device has one pair of active tokens at most, although nothing but the lock on
\* the device's row keeps bootstrapDevice and refreshDeviceTokens apart.
THEOREM OneActive == Spec => []OneActivePair
<1>1. TokenInv => OneActivePair
  BY DEF TokenInv
<1> QED  BY <1>1, TokenSafety, PTL

\* No refresh token is redeemed twice by refreshDeviceTokens.
THEOREM RedeemedOnce == Spec => []RefreshUsedOnce
<1>1. TokenInv => RefreshUsedOnce
  BY DEF TokenInv
<1> QED  BY <1>1, TokenSafety, PTL

\* revokeActiveTokensForDevice, which does not lock the device, still ends every pair that was
\* committed when it was called.
THEOREM ResetIsComplete == Spec => []ResetRevokesAll
<1>1. TokenInv => ResetRevokesAll
  BY DEF TokenInv
<1> QED  BY <1>1, TokenSafety, PTL

\* No transaction writes to a token that is rotated, revoked or expired.
THEOREM DeadStayDead == Spec => DeadTokensStay
<1>1. TokenInv /\ [Next]_vars =>
         [\A t \in Tokens : status[t] \notin {"none", "active"} => status'[t] = status[t]]_vars
  <2> SUFFICES ASSUME TokenInv, [Next]_vars, UNCHANGED status \/ Next
               PROVE  \A t \in Tokens : status[t] \notin {"none", "active"} => status'[t] = status[t]
    BY DEF vars
  <2>1. CASE UNCHANGED status
    BY <2>1
  <2>2. ASSUME NEW x \in Calls, CallContinues(x) \/ QueryThrows(x)
        PROVE  UNCHANGED status \/ \E next \in {"accepted", "failed"} :
                 CommitsAs(x, next) /\ (stage[x] = "commit" \/ (stage[x] = "revoking" /\ todo[x] = {}))
    BY <2>2, CallSteps DEF RollsBackAs, UpdateRow, UpsertDevice, SelectDevice, SelectToken,
       UnknownToken
  <2>3. CASE Next
    BY <2>2, <2>3, CommitDone DEF Next, Begin, Lapse
  <2> QED  BY <2>1, <2>3
<1> QED  BY <1>1, TokenSafety, PTL DEF Spec, DeadTokensStay

\* validateDevice and refreshDeviceTokens commit under the lock of the token they have checked.
THEOREM AcceptedIsActive == Spec => AcceptedWhileActive
<1>1. TokenInv => [\A x \in Calls : stage[x] = "commit" /\ stage'[x] # "commit" /\ op[x] = "validate"
                      => status[PresentedToken(x)] = "active"]_vars
  BY DEF TokenInv, RedeemInv, Checked
<1> QED  BY <1>1, TokenSafety, PTL DEF Spec, AcceptedWhileActive
=============================================================================
