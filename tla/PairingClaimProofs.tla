------------------------- MODULE PairingClaimProofs -------------------------
(***************************************************************************)
(* Proofs about PairingClaim for any number of codes, claims, agents and   *)
(* phones.                                                                 *)
(***************************************************************************)
EXTENDS PairingClaim, FiniteSetTheorems, TLAPS

\* The key of a code that a claim holds is locked, or has expired under it.
HolderLocks == \A c \in Claims : stage[c] \in Holding => codes[code[c]] \in {"claiming", "gone"}

\* After a success the key is gone and nobody holds the code: nothing can bring the key back.
SuccessIsFinal ==
    \A c \in Claims : stage[c] = "succeeded" =>
        /\ codes[code[c]] = "gone"
        /\ \A d \in Claims : stage[d] \in Holding => code[d] # code[c]

\* A claim that has bound its phone and met no error is on its way to success.
BoundProceeds ==
    \A c \in bound : c \notin thrown => stage[c] \in {"touching", "consuming", "succeeded"}

\* Only claims that came in time write.
TimelyWrites ==
    /\ \A c \in Claims : stage[c] \in Writing => c \notin late
    /\ \A c \in bound : stage[c] # "idle"

\* A phone's default exists as soon as it has a binding, or as a claim has seen one, and is unique.
DefaultInv ==
    /\ \A row \in bindings : HasDefault(row[2])
    /\ \A d, e \in defaults : d[2] = e[2] => d = e
    /\ \A c \in sawDefault : stage[c] # "idle" /\ HasDefault(mobile[c])
    /\ \A c \in Claims : stage[c] = "fallback" => HasDefault(mobile[c])

ClaimInv ==
    /\ OneClaimantPerCode
    /\ OneSuccessPerCode
    /\ HolderLocks
    /\ SuccessIsFinal
    /\ BoundProceeds
    /\ TimelyWrites
    /\ LockHasOwner
    /\ ExpiredCodeNeverBinds

PairingInv == TypeOK /\ ClaimInv /\ DefaultInv

LEMMA PairingInit == Init => PairingInv
BY CodesAssumption DEF Init, PairingInv, TypeOK, ClaimInv, OneClaimantPerCode, OneSuccessPerCode,
   HolderLocks, SuccessIsFinal, BoundProceeds, TimelyWrites, LockHasOwner, ExpiredCodeNeverBinds,
   DefaultInv, Stages, Waiting, Holding, Writing, Releasing

LEMMA TypeOKStep == ASSUME TypeOK, [Next]_vars PROVE TypeOK'
<1> USE CodesAssumption DEF TypeOK, Stages, Waiting, Holding, Writing, Releasing, GoesTo,
        vars, claimVars, storeVars, pastVars
<1>1. ASSUME NEW p \in Codes, CreatePairing(p) \/ ExpiryPasses(p) \/ KeyEnds(p) \/ KeyExpires(p)
      PROVE  TypeOK'
  BY <1>1 DEF CreatePairing, ExpiryPasses, KeyEnds, KeyExpires
<1>2. ASSUME NEW c \in Claims, NEW p \in Codes, NEW m \in Mobiles, ClaimArrives(c, p, m)
      PROVE  TypeOK'
  BY <1>2 DEF ClaimArrives
<1>3. ASSUME NEW c \in Claims, ClaimContinues(c)
      PROVE  TypeOK'
  <2>1. CASE LockPairing(c) \/ LockThrows(c)
    BY <2>1 DEF LockPairing, LockThrows, Locked
  <2>2. CASE FindExisting(c) \/ TouchExisting(c) \/ CreateBinding(c)
    BY <2>2 DEF FindExisting, TouchExisting, CreateBinding
  <2>3. CASE InsertBinding(c) \/ InsertFallback(c) \/ WriteThrows(c)
    <3>1. stage[c] \in Writing => Row(c) \in Agents \X Mobiles
      BY DEF Row
    <3>2. QED  BY <2>3, <3>1 DEF InsertBinding, InsertFallback, WriteThrows
  <2>4. CASE ConsumePairing(c)
    BY <2>4 DEF ConsumePairing
  <2>5. CASE ReleaseGet(c) \/ ReleaseTtl(c) \/ ReleaseSet(c) \/ ReleaseThrows(c)
    BY <2>5 DEF ReleaseGet, ReleaseTtl, ReleaseSet, ReleaseThrows
  <2>6. QED  BY <1>3, <2>1, <2>2, <2>3, <2>4, <2>5 DEF ClaimContinues
<1>4. CASE RelayCrashes
  BY <1>4 DEF RelayCrashes
<1>5. QED  BY <1>1, <1>2, <1>3, <1>4 DEF Next

LEMMA ClaimInvStep == ASSUME TypeOK, ClaimInv, [Next]_vars PROVE ClaimInv'
<1> USE CodesAssumption DEF TypeOK, ClaimInv, OneClaimantPerCode, OneSuccessPerCode, HolderLocks,
        SuccessIsFinal, BoundProceeds, TimelyWrites, LockHasOwner, ExpiredCodeNeverBinds,
        Stages, Waiting, Holding, Writing, Releasing, GoesTo
<1>1. ASSUME NEW p \in Codes, CreatePairing(p) \/ ExpiryPasses(p) \/ KeyEnds(p) \/ KeyExpires(p)
      PROVE  ClaimInv'
  BY <1>1 DEF CreatePairing, ExpiryPasses, KeyEnds, KeyExpires, claimVars, pastVars
<1>2. ASSUME NEW c \in Claims, NEW p \in Codes, NEW m \in Mobiles, ClaimArrives(c, p, m)
      PROVE  ClaimInv'
  BY <1>2 DEF ClaimArrives, pastVars
<1>3. ASSUME NEW c \in Claims, ClaimContinues(c)
      PROVE  ClaimInv'
  <2>1. CASE LockPairing(c)
    BY <2>1 DEF LockPairing, Locked, Lockable, Accepts, pastVars
  <2>2. CASE LockThrows(c)
    BY <2>2 DEF LockThrows, Locked, Lockable
  <2>3. CASE FindExisting(c) \/ TouchExisting(c) \/ CreateBinding(c)
    BY <2>3 DEF FindExisting, TouchExisting, CreateBinding, pastVars
  <2>4. CASE InsertBinding(c) \/ InsertFallback(c)
    BY <2>4 DEF InsertBinding, InsertFallback
  <2>5. CASE ConsumePairing(c)
    BY <2>5 DEF ConsumePairing, pastVars
  <2>6. CASE WriteThrows(c)
    BY <2>6 DEF WriteThrows
  <2>7. CASE ReleaseGet(c) \/ ReleaseTtl(c) \/ ReleaseSet(c)
    BY <2>7 DEF ReleaseGet, ReleaseTtl, ReleaseSet, pastVars
  <2>8. CASE ReleaseThrows(c)
    BY <2>8 DEF ReleaseThrows
  <2> QED  BY <1>3, <2>1, <2>2, <2>3, <2>4, <2>5, <2>6, <2>7, <2>8 DEF ClaimContinues
<1>4. CASE RelayCrashes
  BY <1>4 DEF RelayCrashes
<1>5. CASE UNCHANGED vars
  BY <1>5 DEF vars, claimVars, pastVars
<1> QED  BY <1>1, <1>2, <1>3, <1>4, <1>5 DEF Next

LEMMA DefaultInvStep == ASSUME TypeOK, DefaultInv, [Next]_vars PROVE DefaultInv'
<1> USE CodesAssumption DEF TypeOK, DefaultInv, HasDefault, Writing, Releasing, Holding, Waiting, GoesTo
<1>1. ASSUME NEW c \in Claims, CreateBinding(c)
      PROVE  DefaultInv'
  BY <1>1 DEF CreateBinding, storeVars
<1>2. ASSUME NEW c \in Claims, InsertBinding(c)
      PROVE  DefaultInv'
  BY <1>2 DEF InsertBinding, BecomesDefault, Row, storeVars
<1>3. ASSUME NEW c \in Claims, InsertFallback(c)
      PROVE  DefaultInv'
  BY <1>3 DEF InsertFallback, Row
<1>4. ASSUME NEW c \in Claims, WriteThrows(c)
      PROVE  DefaultInv'
  BY <1>4 DEF WriteThrows, BecomesDefault, Row, storeVars
<1>5. ASSUME NEW c \in Claims,
             \/ LockPairing(c) \/ LockThrows(c) \/ FindExisting(c) \/ TouchExisting(c)
             \/ ConsumePairing(c)
             \/ ReleaseGet(c) \/ ReleaseTtl(c) \/ ReleaseSet(c) \/ ReleaseThrows(c)
      PROVE  DefaultInv'
  BY <1>5 DEF LockPairing, LockThrows, FindExisting, TouchExisting, ConsumePairing,
     ReleaseGet, ReleaseTtl, ReleaseSet, ReleaseThrows, storeVars
<1>6. CASE \/ \E p \in Codes : CreatePairing(p) \/ ExpiryPasses(p) \/ KeyEnds(p) \/ KeyExpires(p)
           \/ \E c \in Claims, p \in Codes, m \in Mobiles : ClaimArrives(c, p, m)
           \/ RelayCrashes
           \/ UNCHANGED vars
  BY <1>6 DEF CreatePairing, ExpiryPasses, KeyEnds, KeyExpires, ClaimArrives, RelayCrashes, vars, claimVars,
     storeVars
<1> QED  BY <1>1, <1>2, <1>3, <1>4, <1>5, <1>6 DEF Next, ClaimContinues

\* The invariant of pairing holds of every behaviour, through expiries, failing calls and crashes.
THEOREM PairingSafety == Spec => []PairingInv
<1>1. PairingInv /\ [Next]_vars => PairingInv'
  BY TypeOKStep, ClaimInvStep, DefaultInvStep DEF PairingInv
<1> QED  BY <1>1, PairingInit, PTL DEF Spec

\* However many phones claim a code at once, one is past its lock at a time and one succeeds.
THEOREM CodeIsClaimedOnce == Spec => [](OneClaimantPerCode /\ OneSuccessPerCode)
<1>1. PairingInv => OneClaimantPerCode /\ OneSuccessPerCode
  BY DEF PairingInv, ClaimInv
<1> QED  BY <1>1, PairingSafety, PTL

\* A code binds two phones only when a call of one of their claims has thrown.
THEOREM CodeBindsOnePhone == Spec => []CodeBindsOnce
<1>1. PairingInv => CodeBindsOnce
  <2> SUFFICES ASSUME PairingInv, NEW c \in bound, NEW d \in bound,
                      code[c] = code[d], c \notin thrown, d \notin thrown
               PROVE  c = d
    BY DEF CodeBindsOnce
  <2> USE DEF PairingInv, TypeOK, ClaimInv, BoundProceeds, Holding, Writing
  <2>1. CASE stage[c] = "succeeded" /\ stage[d] = "succeeded"
    BY <2>1 DEF OneSuccessPerCode
  <2>2. CASE stage[c] # "succeeded" /\ stage[d] # "succeeded"
    BY <2>2 DEF OneClaimantPerCode
  <2>3. CASE (stage[c] = "succeeded") # (stage[d] = "succeeded")
    BY <2>3 DEF SuccessIsFinal
  <2> QED  BY <2>1, <2>2, <2>3
<1> QED  BY <1>1, PairingSafety, PTL

\* A phone with bindings has exactly one default, although no transaction spans its election.
THEOREM OneDefault == Spec => []OneDefaultPerMobile
<1>1. PairingInv => OneDefaultPerMobile
  <2> SUFFICES ASSUME PairingInv, NEW row \in bindings
               PROVE  Cardinality({d \in defaults : d[2] = row[2]}) = 1
    BY DEF OneDefaultPerMobile
  <2>1. PICK e \in defaults : e[2] = row[2]
    BY DEF PairingInv, DefaultInv, HasDefault
  <2>2. {d \in defaults : d[2] = row[2]} = {e}
    BY <2>1 DEF PairingInv, DefaultInv
  <2> QED  BY <2>2, FS_Singleton
<1> QED  BY <1>1, PairingSafety, PTL

\* A locked code has an owner or is in its last half second, unless a crash or Redis took it away,
\* and a code that came back after its expiry binds nobody.
THEOREM LocksAreOwned == Spec => [](LockHasOwner /\ ExpiredCodeNeverBinds)
<1>1. PairingInv => LockHasOwner /\ ExpiredCodeNeverBinds
  BY DEF PairingInv, ClaimInv
<1> QED  BY <1>1, PairingSafety, PTL
=============================================================================
