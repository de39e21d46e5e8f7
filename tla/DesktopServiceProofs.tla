----------------------- MODULE DesktopServiceProofs -----------------------
(***************************************************************************)
(* Proofs about the background service, for any number of commands that    *)
(* run side by side, each of which may be killed, and the machine          *)
(* restarted, between any two of its calls: types, that the LaunchAgent of *)
(* an older version never runs beside this one, and that the service ends  *)
(* up running with what was installed last.                                *)
(***************************************************************************)
EXTENDS DesktopService, TLAPS, SequenceTheorems

\* Steps that need the older version gone.
Installing == {"plist", "look", "kickstart", "bootstrap"}

Before(p, step, i) == \E j \in 1..Len(p) : j < i /\ p[j] = step

\* A program p may go on where the older version is in state l: it stops it before it erases it,
\* and erases it before it installs or starts anything.
Careful(p, l) ==
    \A i \in 1..Len(p) :
        /\ p[i] \in Installing => l = "gone" \/ Before(p, "eraseLegacy", i)
        /\ p[i] = "eraseLegacy" => l # "loaded" \/ Before(p, "stopLegacy", i)

CleanupInv ==
    /\ legacy \in {"loaded", "file", "gone"}
    /\ plist \/ job => legacy = "gone"
    /\ todo \in [Commands -> Seq(Steps)]
    /\ \A c \in Commands : Careful(todo[c], legacy)

-----------------------------------------------------------------------------
\* Short sequences.
LEMMA OneStep == ASSUME NEW S, NEW x \in S PROVE <<x>> \in Seq(S) /\ Len(<<x>>) = 1 /\ <<x>>[1] = x
OBVIOUS

LEMMA TwoSteps ==
    ASSUME NEW S, NEW x \in S, NEW y \in S
    PROVE  <<x, y>> \in Seq(S) /\ Len(<<x, y>>) = 2 /\ <<x, y>>[1] = x /\ <<x, y>>[2] = y
OBVIOUS

LEMMA Join ==
    ASSUME NEW S, NEW p \in Seq(S), NEW q \in Seq(S)
    PROVE  /\ p \o q \in Seq(S) /\ Len(p \o q) = Len(p) + Len(q) /\ Len(p) \in Nat /\ Len(q) \in Nat
           /\ \A i \in 1..Len(p) : (p \o q)[i] = p[i]
           /\ \A i \in 1..Len(q) : (p \o q)[Len(p) + i] = q[i]
OBVIOUS

\* Where the older version is gone every program may go on.
LEMMA GoneIsCareful == ASSUME NEW p \in Seq(Steps) PROVE Careful(p, "gone")
BY DEF Careful

\* So may an empty one.
LEMMA EmptyIsCareful == ASSUME NEW l PROVE Careful(<<>>, l)
BY DEF Careful

\* A program that begins with a cleanup is careful, whatever follows.
LEMMA CleanupIsCareful ==
    ASSUME NEW q \in Seq(Steps), NEW l
    PROVE  Cleanup \o q \in Seq(Steps) /\ Careful(Cleanup \o q, l)
<1> DEFINE p == Cleanup \o q
<1>1. /\ p \in Seq(Steps) /\ Len(p) = 2 + Len(q)
      /\ p[1] = "stopLegacy" /\ p[2] = "eraseLegacy" /\ Len(q) \in Nat
    <2>1. /\ Cleanup \in Seq(Steps) /\ Len(Cleanup) = 2
          /\ Cleanup[1] = "stopLegacy" /\ Cleanup[2] = "eraseLegacy"
        BY TwoSteps DEF Cleanup, Steps
    <2>2. /\ p \in Seq(Steps) /\ Len(p) = Len(Cleanup) + Len(q) /\ Len(q) \in Nat
          /\ \A i \in 1..Len(Cleanup) : p[i] = Cleanup[i]
        BY <2>1, Join
    <2> QED BY <2>1, <2>2
<1> HIDE DEF p
<1>2. ASSUME NEW i \in 1..Len(p), i > 2
      PROVE  Before(p, "eraseLegacy", i) /\ Before(p, "stopLegacy", i)
    <2>1. 1 \in 1..Len(p) /\ 2 \in 1..Len(p) /\ 1 < i /\ 2 < i
        BY <1>1, <1>2
    <2> QED BY <2>1, <1>1 DEF Before
<1>3. 2 \in 1..Len(p) => Before(p, "stopLegacy", 2)
    BY <1>1 DEF Before
<1>4. ASSUME NEW i \in 1..Len(p) PROVE i = 1 \/ i = 2 \/ i > 2
    BY <1>1
<1>5. Careful(p, l)
    BY <1>1, <1>2, <1>3, <1>4 DEF Careful, Installing
<1> QED BY <1>1, <1>5 DEF p

\* Careful programs may follow each other.
LEMMA JoinIsCareful ==
    ASSUME NEW p \in Seq(Steps), NEW q \in Seq(Steps), NEW l, Careful(p, l), Careful(q, l)
    PROVE  p \o q \in Seq(Steps) /\ Careful(p \o q, l)
<1> DEFINE r == p \o q
<1>1. /\ r \in Seq(Steps) /\ Len(r) = Len(p) + Len(q) /\ Len(p) \in Nat /\ Len(q) \in Nat
      /\ \A i \in 1..Len(p) : r[i] = p[i]
      /\ \A i \in 1..Len(q) : r[Len(p) + i] = q[i]
    BY Join
<1> HIDE DEF r
<1>2. ASSUME NEW i \in 1..Len(p), NEW step, Before(p, step, i) PROVE Before(r, step, i)
    BY <1>1, <1>2 DEF Before
<1>3. ASSUME NEW i \in 1..Len(q), NEW step, Before(q, step, i) PROVE Before(r, step, Len(p) + i)
    <2>1. PICK j \in 1..Len(q) : j < i /\ q[j] = step
        BY <1>3 DEF Before
    <2>2. Len(p) + j \in 1..Len(r) /\ Len(p) + j < Len(p) + i /\ r[Len(p) + j] = step
        BY <2>1, <1>1
    <2> QED BY <2>2 DEF Before
<1>4. ASSUME NEW i \in 1..Len(r)
      PROVE  i \in 1..Len(p) \/ \E k \in 1..Len(q) : i = Len(p) + k
    <2>1. CASE i <= Len(p)
        BY <2>1, <1>1
    <2>2. CASE i > Len(p)
        <3>1. i - Len(p) \in 1..Len(q) /\ i = Len(p) + (i - Len(p))
            BY <2>2, <1>1
        <3> QED BY <3>1
    <2> QED BY <2>1, <2>2, <1>1
<1>5. ASSUME NEW i \in 1..Len(r)
      PROVE  /\ r[i] \in Installing => l = "gone" \/ Before(r, "eraseLegacy", i)
             /\ r[i] = "eraseLegacy" => l # "loaded" \/ Before(r, "stopLegacy", i)
    <2>1. CASE i \in 1..Len(p)
        BY <2>1, <1>1, <1>2 DEF Careful
    <2>2. CASE \E k \in 1..Len(q) : i = Len(p) + k
        BY <2>2, <1>1, <1>3 DEF Careful
    <2> QED BY <2>1, <2>2, <1>4
<1>6. Careful(r, l)
    BY <1>5 DEF Careful
<1> QED BY <1>1, <1>6 DEF r

\* A program without such steps is careful.
LEMMA PlainIsCareful ==
    ASSUME NEW p \in Seq(Steps), NEW l,
           \A i \in 1..Len(p) : p[i] \notin Installing \cup {"eraseLegacy"}
    PROVE  Careful(p, l)
BY DEF Careful

\* Every command's program is careful.
LEMMA ProgramIsCareful ==
    ASSUME NEW k \in Kinds, NEW l
    PROVE  Program(k) \in Seq(Steps) /\ Careful(Program(k), l)
<1>1. ASSUME NEW x \in Steps, x \notin Installing \cup {"eraseLegacy"}
      PROVE  <<x>> \in Seq(Steps) /\ Careful(<<x>>, l)
    <2>1. <<x>> \in Seq(Steps) /\ Len(<<x>>) = 1 /\ <<x>>[1] = x
        BY OneStep
    <2> DEFINE p == <<x>>
    <2> HIDE DEF p
    <2>2. p \in Seq(Steps) /\ \A i \in 1..Len(p) : p[i] = x
        BY <2>1 DEF p
    <2>3. Careful(p, l)
        BY <1>1, <2>2, PlainIsCareful
    <2> QED BY <2>2, <2>3 DEF p
<1> DEFINE Fine(p) == p \in Seq(Steps) /\ Careful(p, l)
<1>2. Fine(<<"settings">>) /\ Fine(<<"open">>) /\ Fine(<<"bootout">>) /\ Fine(<<"unlink">>)
      /\ Fine(<<"loadPanel">>) /\ Fine(<<"serve">>) /\ Fine(LoadState) /\ Fine(<<>>)
    <2>1. <<>> \in Seq(Steps)
        OBVIOUS
    <2>2. \A x \in {"settings", "open", "bootout", "unlink", "loadPanel", "serve", "loadState"} :
              x \in Steps /\ x \notin Installing \cup {"eraseLegacy"}
        BY DEF Installing, Steps
    <2>3. \A x \in {"settings", "open", "bootout", "unlink", "loadPanel", "serve", "loadState"} : Fine(<<x>>)
        BY <1>1, <2>2
    <2> QED BY <2>1, <2>3, EmptyIsCareful DEF LoadState
<1>3. Fine(Install) /\ Fine(Start) /\ Fine(Cleanup)
    <2>1. Cleanup = Cleanup \o <<>>
        BY DEF Cleanup
    <2>2. <<"environment", "plist">> \in Seq(Steps) /\ <<"look">> \in Seq(Steps)
          /\ <<>> \in Seq(Steps)
        BY OneStep, TwoSteps DEF Steps
    <2>3. Fine(Install)
        BY <2>2, CleanupIsCareful DEF Install
    <2>4. Fine(Start)
        BY <2>2, CleanupIsCareful DEF Start
    <2>5. Fine(Cleanup \o <<>>)
        BY <2>2, CleanupIsCareful
    <2> HIDE DEF Fine
    <2> QED BY <2>1, <2>3, <2>4, <2>5
<1>4. ASSUME NEW p, NEW q, Fine(p), Fine(q) PROVE Fine(p \o q)
    BY <1>4, JoinIsCareful
<1> HIDE DEF Fine
<1>5. Fine(Status)
    BY <1>2, <1>4 DEF Status
<1>6. CASE k = "start"
    <2>1. Fine((<<"settings">> \o Install) \o Start)
        BY <1>2, <1>3, <1>4
    <2>2. Fine(((<<"settings">> \o Install) \o Start) \o <<"open">>)
        BY <2>1, <1>2, <1>4
    <2> QED BY <2>2, <1>6 DEF Program, Fine
<1>7. CASE k = "pair"
    <2> DEFINE p == <<"settings", "open">>
    <2>1. p \in Seq(Steps) /\ Len(p) = 2 /\ p[1] = "settings" /\ p[2] = "open"
        BY TwoSteps DEF Steps
    <2> HIDE DEF p
    <2>2. Careful(p, l)
        BY <2>1, PlainIsCareful DEF Installing
    <2> QED BY <2>1, <2>2, <1>7 DEF Program, p
<1>8. CASE k = "install"
    <2>1. Fine((<<"settings">> \o Install) \o Start)
        BY <1>2, <1>3, <1>4
    <2>2. Fine(((<<"settings">> \o Install) \o Start) \o LoadState)
        BY <2>1, <1>2, <1>4
    <2> QED BY <2>2, <1>8 DEF Program, Fine
<1>9. CASE k = "restart"
    <2>1. Fine((Install \o Start) \o Status)
        BY <1>3, <1>4, <1>5
    <2> QED BY <2>1, <1>9 DEF Program, Fine
<1>10. CASE k = "stop"
    <2>1. Fine((<<"bootout">> \o Cleanup) \o LoadState)
        BY <1>2, <1>3, <1>4
    <2> QED BY <2>1, <1>10 DEF Program, Fine
<1>11. CASE k = "remove"
    <2>1. Fine(((<<"bootout">> \o Cleanup) \o <<"unlink">>) \o LoadState)
        BY <1>2, <1>3, <1>4
    <2> QED BY <2>1, <1>11 DEF Program, Fine
<1>12. CASE k = "status"
    BY <1>5, <1>12 DEF Program, Fine
<1>13. CASE k = "idle"
    BY <1>2, <1>13 DEF Program, Fine
<1>14. CASE k = "serve"
    BY <1>2, <1>14 DEF Program, Fine
<1> QED BY <1>6, <1>7, <1>8, <1>9, <1>10, <1>11, <1>12, <1>13, <1>14 DEF Kinds

\* Where l2 is no worse than l, and as good as the first step makes it, the rest may go on.
LEMMA RestIsCareful ==
    ASSUME NEW p \in Seq(Steps), p # <<>>, NEW l, NEW l2, Careful(p, l),
           l = "gone" => l2 = "gone", l # "loaded" => l2 # "loaded",
           Head(p) = "eraseLegacy" => l2 = "gone", Head(p) = "stopLegacy" => l2 # "loaded"
    PROVE  Tail(p) \in Seq(Steps) /\ Careful(Tail(p), l2)
<1> DEFINE q == Tail(p)
<1>1. /\ q \in Seq(Steps) /\ Len(p) = Len(q) + 1 /\ Len(q) \in Nat
      /\ \A i \in 1..Len(q) : q[i] = p[i + 1]
      /\ Head(p) = p[1]
    OBVIOUS
<1> HIDE DEF q
<1>2. ASSUME NEW i \in 1..Len(q), NEW step, Before(p, step, i + 1)
      PROVE  Head(p) = step \/ Before(q, step, i)
    <2>1. PICK j \in 1..Len(p) : j < i + 1 /\ p[j] = step
        BY <1>2 DEF Before
    <2>2. CASE j = 1
        BY <2>1, <2>2, <1>1
    <2>3. CASE j # 1
        <3>1. j - 1 \in 1..Len(q) /\ j - 1 < i /\ q[j - 1] = p[j]
            BY <2>1, <2>3, <1>1
        <3> QED BY <3>1, <2>1 DEF Before
    <2> QED BY <2>2, <2>3
<1>3. ASSUME NEW i \in 1..Len(q)
      PROVE  /\ q[i] \in Installing => l2 = "gone" \/ Before(q, "eraseLegacy", i)
             /\ q[i] = "eraseLegacy" => l2 # "loaded" \/ Before(q, "stopLegacy", i)
    <2>1. i + 1 \in 1..Len(p) /\ q[i] = p[i + 1]
        BY <1>1
    <2>2. p[i + 1] \in Installing => l = "gone" \/ Before(p, "eraseLegacy", i + 1)
        BY <2>1 DEF Careful
    <2>3. p[i + 1] = "eraseLegacy" => l # "loaded" \/ Before(p, "stopLegacy", i + 1)
        BY <2>1 DEF Careful
    <2> QED BY <2>1, <2>2, <2>3, <1>2
<1>4. Careful(q, l2)
    BY <1>3 DEF Careful
<1> QED BY <1>1, <1>4 DEF q

-----------------------------------------------------------------------------
(***************************************************************************)
(* The cleanup of the older version.                                       *)
(***************************************************************************)
\* What an action may do to the older version, if what the command c was about to do is step.
Cleans(step) ==
    /\ legacy' \in {"loaded", "file", "gone"}
    /\ legacy = "gone" => legacy' = "gone"
    /\ legacy # "loaded" => legacy' # "loaded"
    /\ step = "eraseLegacy" => legacy' = "gone"
    /\ step = "stopLegacy" => legacy' # "loaded"

\* A step of the cleanup or of an installation is only reached where it may be made.
LEMMA HeadMayBeMade ==
    ASSUME CleanupInv, NEW c \in Commands, NEW step, Now(c, step)
    PROVE  /\ step \in Installing => legacy = "gone"
           /\ step = "eraseLegacy" => legacy # "loaded"
<1> DEFINE p == todo[c]
<1>1. p \in Seq(Steps) /\ Careful(p, legacy) /\ p # <<>> /\ Head(p) = step
    BY DEF CleanupInv, Now
<1> HIDE DEF p
<1>2. 1 \in 1..Len(p) /\ p[1] = step
    BY <1>1
<1>3. ~Before(p, "eraseLegacy", 1) /\ ~Before(p, "stopLegacy", 1)
    BY <1>1 DEF Before
<1> QED BY <1>1, <1>2, <1>3 DEF Careful

\* The other commands' programs stay careful.
LEMMA OthersStayCareful ==
    ASSUME NEW p, NEW l, NEW l2, Careful(p, l), l = "gone" => l2 = "gone", l # "loaded" => l2 # "loaded"
    PROVE  Careful(p, l2)
BY DEF Careful

\* A step that is made leaves every program careful, if the steps it puts before the rest are.
LEMMA ThenIsCareful ==
    ASSUME CleanupInv, NEW c \in Commands, NEW step, Now(c, step), NEW steps \in Seq(Steps),
           Then(c, steps), Cleans(step), Careful(steps, legacy')
    PROVE  /\ todo' \in [Commands -> Seq(Steps)]
           /\ \A d \in Commands : Careful(todo'[d], legacy')
<1>1. todo[c] \in Seq(Steps) /\ todo[c] # <<>> /\ Careful(todo[c], legacy) /\ Head(todo[c]) = step
    BY DEF CleanupInv, Now
<1>2. Tail(todo[c]) \in Seq(Steps) /\ Careful(Tail(todo[c]), legacy')
    BY <1>1, RestIsCareful DEF Cleans
<1>3. steps \o Tail(todo[c]) \in Seq(Steps) /\ Careful(steps \o Tail(todo[c]), legacy')
    BY <1>2, JoinIsCareful
<1>4. todo' = [todo EXCEPT ![c] = steps \o Tail(todo[c])]
    BY DEF Then
<1>5. ASSUME NEW d \in Commands, d # c PROVE Careful(todo[d], legacy')
    BY OthersStayCareful DEF CleanupInv, Cleans
<1> QED BY <1>3, <1>4, <1>5 DEF CleanupInv

\* So does a step after which nothing is put.
LEMMA NextIsCareful ==
    ASSUME CleanupInv, NEW c \in Commands, NEW step, Now(c, step), Then(c, <<>>), Cleans(step)
    PROVE  /\ todo' \in [Commands -> Seq(Steps)]
           /\ \A d \in Commands : Careful(todo'[d], legacy')
<1>1. <<>> \in Seq(Steps) /\ Careful(<<>>, legacy')
    BY EmptyIsCareful
<1> QED BY <1>1, ThenIsCareful

\* And the end of a command.
LEMMA EndIsCareful ==
    ASSUME CleanupInv, NEW c \in Commands, Throws(c), UNCHANGED legacy
    PROVE  /\ todo' \in [Commands -> Seq(Steps)]
           /\ \A d \in Commands : Careful(todo'[d], legacy')
<1>1. <<>> \in Seq(Steps) /\ Careful(<<>>, legacy')
    BY EmptyIsCareful
<1> QED BY <1>1 DEF CleanupInv, Throws

LEMMA CleanupInit == Init => CleanupInv
<1> SUFFICES ASSUME Init PROVE CleanupInv
    OBVIOUS
<1>1. PICK s \in Scenarios :
          /\ todo = [c \in Commands |-> Program(s.kind[c])]
          /\ plist = s.installed /\ job = s.installed
          /\ legacy = IF s.installed THEN "gone" ELSE "loaded"
    BY DEF Init
<1>2. s.kind \in [Commands -> Kinds] /\ s.installed \in BOOLEAN
    BY ServiceAssumption
<1>3. ASSUME NEW c \in Commands PROVE todo[c] \in Seq(Steps) /\ Careful(todo[c], legacy)
    BY <1>1, <1>2, ProgramIsCareful
<1>4. todo \in [Commands -> Seq(Steps)]
    BY <1>1, <1>3
<1> QED BY <1>1, <1>2, <1>3, <1>4 DEF CleanupInv

\* Every step of a command leaves the invariant.
LEMMA CommandKeepsCleanup ==
    ASSUME CleanupInv, NEW c \in Commands, Step(c)
    PROVE  CleanupInv'
<1> DEFINE Progs == /\ todo' \in [Commands -> Seq(Steps)]
                    /\ \A d \in Commands : Careful(todo'[d], legacy')
<1>0. ASSUME Progs, legacy' \in {"loaded", "file", "gone"}, plist' \/ job' => legacy' = "gone"
      PROVE  CleanupInv'
    BY <1>0 DEF CleanupInv
<1>a. CleanupInv => legacy \in {"loaded", "file", "gone"} /\ (plist \/ job => legacy = "gone")
    BY DEF CleanupInv
<1>b. \A s \in Steps : <<s>> \in Seq(Steps)
    BY OneStep
<1> HIDE DEF Progs
<1>1. ASSUME NEW step \in Steps \ {"stopLegacy", "eraseLegacy"}, UNCHANGED legacy PROVE Cleans(step)
    BY <1>1, <1>a DEF Cleans
<1>2. ASSUME NEW step \in Steps \ {"stopLegacy", "eraseLegacy"}, Now(c, step), Then(c, <<>>),
             UNCHANGED legacy
      PROVE  Progs
    BY <1>1, <1>2, NextIsCareful DEF Progs
<1>3. ASSUME Throws(c), UNCHANGED legacy PROVE Progs
    BY <1>3, EndIsCareful DEF Progs
<1>4. CASE StoreSettings(c)
    <2>1. Progs
        BY <1>2, <1>4 DEF StoreSettings, launchd, Steps
    <2> QED BY <2>1, <1>0, <1>a, <1>4 DEF StoreSettings, launchd
<1>5. CASE StopLegacy(c)
    <2>1. CASE Refused(c) /\ UNCHANGED legacy
        <3>1. Progs
            BY <2>1, <1>3 DEF Refused
        <3> QED BY <3>1, <1>0, <1>a, <1>5, <2>1 DEF StopLegacy
    <2>2. CASE /\ Succeeds
               /\ legacy' = IF legacy = "loaded" THEN "file" ELSE legacy
               /\ Then(c, <<>>)
        <3>1. Cleans("stopLegacy") /\ Now(c, "stopLegacy")
            BY <2>2, <1>a, <1>5 DEF Cleans, StopLegacy
        <3>2. Progs
            BY <3>1, <2>2, NextIsCareful DEF Progs
        <3> QED BY <3>1, <3>2, <1>0, <1>a, <1>5, <2>2 DEF StopLegacy
    <2> QED BY <2>1, <2>2, <1>5 DEF StopLegacy
<1>6. CASE EraseLegacy(c)
    <2>1. Now(c, "eraseLegacy") /\ legacy # "loaded"
        BY <1>6, HeadMayBeMade DEF EraseLegacy
    <2>2. Cleans("eraseLegacy")
        BY <2>1, <1>6, <1>a DEF Cleans, EraseLegacy
    <2>3. Progs
        BY <2>1, <2>2, <1>6, NextIsCareful DEF Progs, EraseLegacy
    <2> QED BY <2>1, <2>3, <1>0, <1>a, <1>6 DEF EraseLegacy
<1>7. CASE WriteEnvironment(c)
    <2>1. Progs
        BY <1>2, <1>7 DEF WriteEnvironment, Steps
    <2> QED BY <2>1, <1>0, <1>a, <1>7 DEF WriteEnvironment
<1>8. CASE WritePlist(c)
    <2>1. Progs
        BY <1>2, <1>8 DEF WritePlist, Steps
    <2>2. legacy = "gone"
        BY <1>8, HeadMayBeMade DEF WritePlist, Installing
    <2> QED BY <2>1, <2>2, <1>0, <1>a, <1>8 DEF WritePlist
<1>9. CASE Look(c)
    <2>1. Now(c, "look") /\ legacy = "gone" /\ UNCHANGED <<legacy, plist, job>>
        BY <1>9, HeadMayBeMade DEF Look, Installing, launchd
    <2>2. ASSUME NEW steps \in Seq(Steps), Then(c, steps) PROVE Progs
        <3>1. Cleans("look") /\ Careful(steps, legacy')
            BY <2>1, <1>1, GoneIsCareful DEF Steps
        <3> QED BY <3>1, <2>1, <2>2, ThenIsCareful DEF Progs
    <2>3. /\ <<>> \in Seq(Steps) /\ <<"kickstart">> \in Seq(Steps) /\ <<"bootstrap">> \in Seq(Steps)
          /\ <<"bootout", "bootstrap">> \in Seq(Steps)
        BY <1>b, TwoSteps DEF Steps
    <2>4. Progs
        BY <2>1, <2>2, <2>3, <1>3, <1>9 DEF Look
    <2> QED BY <2>1, <2>4, <1>0, <1>a
<1>10. CASE Kickstart(c)
    <2>1. UNCHANGED <<legacy, plist, job>> /\ (Throws(c) \/ Then(c, <<>>)) /\ Now(c, "kickstart")
        BY <1>10 DEF Kickstart, launchd, Refused
    <2>2. Progs
        BY <2>1, <1>2, <1>3 DEF Steps
    <2> QED BY <2>1, <2>2, <1>0, <1>a
<1>11. CASE Bootstrap(c)
    <2>1. UNCHANGED <<legacy, plist>> /\ (Throws(c) \/ Then(c, <<>>)) /\ Now(c, "bootstrap")
        BY <1>11 DEF Bootstrap, Refused
    <2>2. Progs
        BY <2>1, <1>2, <1>3 DEF Steps
    <2>3. legacy = "gone"
        BY <2>1, HeadMayBeMade DEF Installing
    <2> QED BY <2>1, <2>2, <2>3, <1>0
<1>12. CASE Bootout(c)
    <2>1. UNCHANGED <<legacy, plist>> /\ (job' => job) /\ (Throws(c) \/ Then(c, <<>>)) /\ Now(c, "bootout")
        BY <1>12 DEF Bootout, Refused
    <2>2. Progs
        BY <2>1, <1>2, <1>3 DEF Steps
    <2> QED BY <2>1, <2>2, <1>0, <1>a
<1>13. CASE Unlink(c)
    <2>1. Progs
        BY <1>2, <1>13 DEF Unlink, Steps
    <2> QED BY <2>1, <1>0, <1>a, <1>13 DEF Unlink
<1>14. ASSUME UNCHANGED <<legacy, plist, job>>,
              NEW step \in {"loadState", "eraseState", "loadPanel", "erasePanel", "open", "touch",
                            "fill", "serve", "report"},
              Now(c, step),
              Then(c, <<>>) \/ Then(c, <<"eraseState">>) \/ Then(c, <<"erasePanel">>)
                  \/ Then(c, <<"fill">>)
       PROVE  CleanupInv'
    <2>1. Cleans(step)
        BY <1>14, <1>1 DEF Steps
    <2>2. ASSUME NEW x \in {"eraseState", "erasePanel", "fill"}
          PROVE  <<x>> \in Seq(Steps) /\ Careful(<<x>>, legacy')
        <3> DEFINE p == <<x>>
        <3>1. p \in Seq(Steps) /\ Len(p) = 1 /\ p[1] = x
            BY OneStep DEF Steps
        <3> HIDE DEF p
        <3>2. Careful(p, legacy')
            BY <3>1, PlainIsCareful DEF Installing
        <3> QED BY <3>1, <3>2 DEF p
    <2>3. Progs
        BY <2>1, <2>2, <1>14, NextIsCareful, ThenIsCareful DEF Progs
    <2> QED BY <2>3, <1>0, <1>a, <1>14
<1>15. CASE ReadState(c)
    BY <1>15, <1>14 DEF ReadState, launchd
<1>16. CASE EraseState(c)
    BY <1>16, <1>14 DEF EraseState, launchd
<1>17. CASE ReadPanel(c)
    BY <1>17, <1>14 DEF ReadPanel, launchd
<1>18. CASE ErasePanel(c)
    BY <1>18, <1>14 DEF ErasePanel, launchd
<1>19. CASE OpenPanel(c)
    BY <1>19, <1>14 DEF OpenPanel, launchd
<1>20. CASE Touch(c)
    BY <1>20, <1>14 DEF Touch, launchd
<1>21. CASE FillPanel(c)
    BY <1>21, <1>14 DEF FillPanel, launchd
<1>22. CASE Serve(c)
    BY <1>22, <1>14 DEF Serve, launchd
<1>23. CASE ServeWrites(c)
    BY <1>23, <1>14 DEF ServeWrites, launchd
<1> QED BY <1>4, <1>5, <1>6, <1>7, <1>8, <1>9, <1>10, <1>11, <1>12, <1>13, <1>15, <1>16, <1>17, <1>18,
           <1>19, <1>20, <1>21, <1>22, <1>23 DEF Step

LEMMA CleanupStep == CleanupInv /\ [Next]_vars => CleanupInv'
<1> SUFFICES ASSUME CleanupInv, [Next]_vars PROVE CleanupInv'
    OBVIOUS
<1>1. ASSUME UNCHANGED <<legacy, plist, job, todo>> PROVE CleanupInv'
    BY <1>1 DEF CleanupInv
<1>2. ASSUME NEW c \in Commands, UNCHANGED <<legacy, plist, job>>, Throws(c) PROVE CleanupInv'
    BY <1>2, EndIsCareful DEF CleanupInv
<1>3. ASSUME NEW c \in Commands, Step(c) PROVE CleanupInv'
    BY <1>3, CommandKeepsCleanup
<1>4. ASSUME NEW c \in Commands, ReadHeartbeat(c) \/ ServeReports(c) PROVE CleanupInv'
    <2>0. PICK x \in {"touch", "report"} : todo' = [todo EXCEPT ![c] = <<x>>]
        BY <1>4 DEF ReadHeartbeat, ServeReports
    <2> DEFINE p == <<x>>
    <2>1. p \in Seq(Steps) /\ Len(p) = 1 /\ p[1] = x /\ todo' = [todo EXCEPT ![c] = p]
        BY <2>0, OneStep DEF Steps
    <2>2. UNCHANGED <<legacy, plist, job>>
        BY <1>4 DEF ReadHeartbeat, ServeReports, launchd
    <2> HIDE DEF p
    <2>3. Careful(p, legacy)
        BY <2>1, PlainIsCareful DEF Installing
    <2> QED BY <2>1, <2>2, <2>3 DEF CleanupInv
<1>5. ASSUME NEW c \in Commands, PanelExits(c) \/ CommandKilled(c) PROVE CleanupInv'
    BY <1>5, <1>2 DEF PanelExits, CommandKilled, Throws, launchd
<1>11. ASSUME NEW c \in Commands, StopPanel(c) \/ ClearPanel(c) PROVE CleanupInv'
    BY <1>11, <1>1 DEF StopPanel, ClearPanel, launchd
<1>6. CASE Login
    <2>1. /\ plist' = plist /\ job' = plist /\ todo' = [c \in Commands |-> <<>>]
          /\ legacy' = IF legacy = "file" THEN "loaded" ELSE legacy
        BY <1>6 DEF Login
    <2>2. <<>> \in Seq(Steps) /\ Careful(<<>>, legacy')
        BY EmptyIsCareful
    <2> QED BY <2>1, <2>2 DEF CleanupInv
<1>7. CASE ServiceStarts \/ TimerFires \/ ServiceExits
    BY <1>7, <1>1 DEF ServiceStarts, TimerFires, ServiceExits, launchd
<1>8. ASSUME NEW next \in Statuses, StateChanges(next) PROVE CleanupInv'
    BY <1>8, <1>1 DEF StateChanges, launchd
<1>9. ASSUME NEW w \in 1..MaxChanges, StateOpened(w) \/ StateWritten(w) PROVE CleanupInv'
    BY <1>9, <1>1 DEF StateOpened, StateWritten, launchd
<1>10. CASE UNCHANGED vars
    BY <1>10, <1>1 DEF vars, launchd
<1> QED BY <1>3, <1>4, <1>5, <1>6, <1>7, <1>8, <1>9, <1>10, <1>11 DEF Next

-----------------------------------------------------------------------------
(***************************************************************************)
(* Types.                                                                  *)
(***************************************************************************)
LEMMA TypeInit == Init => TypeOK
<1> SUFFICES ASSUME Init PROVE TypeOK
    OBVIOUS
<1>1. todo \in [Commands -> Seq(Steps)] /\ legacy \in {"loaded", "file", "gone"}
    BY CleanupInit DEF CleanupInv
<1>2. PICK s \in Scenarios :
          /\ kind = s.kind
          /\ forced = [c \in Commands |-> s.kind[c] \in {"install", "restart"}]
          /\ plist = s.installed /\ job = s.installed /\ said = s.said
    BY DEF Init
<1>3. s.kind \in [Commands -> Kinds] /\ s.installed \in BOOLEAN /\ s.said \in 0..MaxChanges
    BY ServiceAssumption
<1>4. /\ pids = 0 /\ service = None /\ status = "none" /\ writes = {} /\ filling = {}
      /\ timer = FALSE /\ notified = FALSE /\ stateFile = None /\ panelFile = None
      /\ serving = {} /\ reporting = {} /\ panels = {} /\ stopping = {} /\ cleared = {} /\ touching = {}
    BY DEF Init
<1>5. kind \in [Commands -> Kinds] /\ plist \in BOOLEAN /\ job \in BOOLEAN
    BY <1>2, <1>3
<1>6. forced \in [Commands -> BOOLEAN]
    BY <1>2
<1>7. pids \in 0..MaxPids /\ said \in 0..MaxChanges
    BY <1>2, <1>3, <1>4, ServiceAssumption
<1> QED BY <1>1, <1>4, <1>5, <1>6, <1>7 DEF TypeOK, Statuses

\* What ServiceEnds leaves has its type.
LEMMA EndType ==
    ASSUME TypeOK, ServiceEnds
    PROVE  /\ pids' \in 0..MaxPids /\ said' \in 0..MaxChanges /\ writes' = {} /\ filling' = {}
           /\ service' = None /\ status' \in Statuses /\ timer' \in BOOLEAN /\ notified' \in BOOLEAN
           /\ pids' = pids /\ said' = said
BY DEF TypeOK, ServiceEnds, Statuses

\* Every step of a command leaves types.
LEMMA CommandType ==
    ASSUME TypeOK, NEW c \in Commands, Step(c), todo' \in [Commands -> Seq(Steps)],
           legacy' \in {"loaded", "file", "gone"}
    PROVE  TypeOK'
<1> USE DEF TypeOK, command, config, launchd, monitor, process, serve, panel, files, faults, Succeeds,
            Refused
<1>1. CASE StoreSettings(c) \/ StopLegacy(c) \/ EraseLegacy(c)
    BY <1>1 DEF StoreSettings, StopLegacy, EraseLegacy
<1>2. CASE WriteEnvironment(c)
    BY <1>2 DEF WriteEnvironment, IsChanged
<1>3. CASE WritePlist(c)
    BY <1>3 DEF WritePlist
<1>4. CASE Look(c) \/ Bootstrap(c) \/ Unlink(c)
    BY <1>4 DEF Look, Bootstrap, Unlink
<1>5. CASE Kickstart(c)
    BY <1>5, EndType DEF Kickstart
<1>6. CASE Bootout(c)
    BY <1>6, EndType DEF Bootout
<1>7. CASE ReadState(c) \/ EraseState(c) \/ ReadPanel(c) \/ ErasePanel(c)
    BY <1>7 DEF ReadState, EraseState, ReadPanel, ErasePanel
<1>8. CASE OpenPanel(c) \/ Touch(c)
    BY <1>8 DEF OpenPanel, Touch
<1>9. CASE FillPanel(c)
    <2>1. panelFile' \in {c, Mixed, panelFile}
        BY <1>9 DEF FillPanel, Over
    <2> QED BY <1>9, <2>1 DEF FillPanel
<1>10. CASE Serve(c)
    BY <1>10 DEF Serve
<1>11. CASE ServeWrites(c)
    <2>1. stateFile' \in {[pid |-> c, said |-> 0], Mixed, stateFile}
        BY <1>11 DEF ServeWrites, Over
    <2>2. \/ stateFile' \in {None, Empty, Mixed}
          \/ stateFile'.pid \in (1..pids) \cup Commands /\ stateFile'.said \in 0..said
        BY <2>1
    <2> QED BY <1>11, <2>2 DEF ServeWrites
<1> QED BY <1>1, <1>2, <1>3, <1>4, <1>5, <1>6, <1>7, <1>8, <1>9, <1>10, <1>11 DEF Step

\* No service goes back to having said nothing.
LEMMA NeverNone == \A s \in Statuses : Successors[s] \subseteq Statuses \ {"none"}
BY DEF Successors, Statuses

LEMMA TypeStep == ASSUME TypeOK, CleanupInv', [Next]_vars PROVE TypeOK'
<1>1. todo' \in [Commands -> Seq(Steps)] /\ legacy' \in {"loaded", "file", "gone"}
    BY DEF CleanupInv
<1>2. ASSUME NEW c \in Commands, Step(c) PROVE TypeOK'
    BY <1>1, <1>2, CommandType
<1> USE ServiceAssumption DEF TypeOK, command, config, launchd, monitor, process, serve, panel, files, faults
<1>3. ASSUME NEW c \in Commands, ReadHeartbeat(c) \/ ServeReports(c) \/ CommandKilled(c) PROVE TypeOK'
    BY <1>1, <1>3 DEF ReadHeartbeat, ServeReports, CommandKilled
<1>11. ASSUME NEW c \in Commands, StopPanel(c) \/ ClearPanel(c) \/ PanelExits(c) PROVE TypeOK'
    BY <1>1, <1>11 DEF StopPanel, ClearPanel, PanelExits
<1>4. CASE ServiceStarts
    <2>1. service'.pid = pids + 1 /\ pids' = pids + 1 /\ pids' \in 0..MaxPids
        BY <1>4 DEF ServiceStarts
    <2> QED BY <1>4, <2>1 DEF ServiceStarts
<1>5. CASE TimerFires
    BY <1>5 DEF TimerFires
<1>6. CASE ServiceExits
    BY <1>6, EndType DEF ServiceExits
<1>7. CASE Login
    BY <1>1, <1>7, EndType DEF Login
<1>8. ASSUME NEW next \in Statuses, StateChanges(next) PROVE TypeOK'
    <2>1. /\ service # None /\ status' \in Statuses /\ said' = said + 1 /\ said < MaxChanges
          /\ writes' = writes \cup {said + 1}
          /\ UNCHANGED <<kind, todo, forced, plist, legacy, job, pids, service, filling, stateFile, serving,
                         reporting, panels, stopping, cleared, panelFile, touching>>
        BY <1>8 DEF StateChanges
    <2>2. /\ said' \in 0..MaxChanges /\ 1..said \subseteq 1..said' /\ said + 1 \in 1..said'
          /\ 0..said \subseteq 0..said'
        BY <2>1
    <2>3. /\ writes' \subseteq 1..said' /\ filling' \subseteq 1..said'
          /\ \/ stateFile' \in {None, Empty, Mixed}
             \/ stateFile'.pid \in (1..pids') \cup Commands /\ stateFile'.said \in 0..said'
        BY <2>1, <2>2
    <2>4. timer' \in BOOLEAN /\ notified' \in BOOLEAN
        <3>1. next \in Statuses \ {"none"}
            BY <1>8, NeverNone DEF StateChanges
        <3>2. CASE next = "online"
            BY <1>8, <3>2 DEF StateChanges, Recovers
        <3>3. CASE next \in {"retrying", "reconnecting"}
            BY <1>8, <3>3 DEF StateChanges, SchedulesNotice
        <3>4. CASE next \in {"resolving", "connecting"}
            BY <1>8, <3>4 DEF StateChanges
        <3> QED BY <3>1, <3>2, <3>3, <3>4 DEF Statuses
    <2> QED BY <2>1, <2>2, <2>3, <2>4
<1>9. ASSUME NEW w \in 1..MaxChanges, StateWritten(w) PROVE TypeOK'
    <2>1. /\ stateFile' \in {[pid |-> service.pid, said |-> w], Mixed} /\ w \in 1..said
          /\ service # None /\ service.pid \in 1..pids
        BY <1>9 DEF StateWritten, Over
    <2>2. \/ stateFile' \in {None, Empty, Mixed}
          \/ stateFile'.pid \in (1..pids) \cup Commands /\ stateFile'.said \in 0..said
        BY <2>1
    <2> QED BY <1>9, <2>2 DEF StateWritten
<1>12. ASSUME NEW w \in 1..MaxChanges, StateOpened(w) PROVE TypeOK'
    BY <1>1, <1>12 DEF StateOpened
<1>10. CASE UNCHANGED vars
    BY <1>10 DEF vars
<1> QED BY <1>2, <1>3, <1>4, <1>5, <1>6, <1>7, <1>8, <1>9, <1>10, <1>11, <1>12 DEF Next

\* The variables have their types in every state: the file of the service can be read and tells of a
\* process that has been started and of a state that was published, or it cannot be read.
THEOREM ServiceTypes == Spec => []TypeOK
<1>1. TypeOK /\ CleanupInv /\ [Next]_vars => (TypeOK /\ CleanupInv)'
    BY CleanupStep, TypeStep
<1> QED BY <1>1, TypeInit, CleanupInit, PTL DEF Spec

\* The LaunchAgent of an older version is never loaded beside this one, for any commands, wherever
\* they are killed, refused or overtaken by each other and the machine is restarted.
THEOREM OneLaunchAgent == Spec => []NeverBoth
<1>1. CleanupInv => NeverBoth
    BY DEF CleanupInv, NeverBoth
<1> QED BY <1>1, CleanupInit, CleanupStep, PTL DEF Spec

-----------------------------------------------------------------------------
(***************************************************************************)
(* How programs are laid out.                                              *)
(***************************************************************************)
Has(p, step) == \E i \in 1..Len(p) : p[i] = step

After(p, step, i) == \E j \in 1..Len(p) : i < j /\ p[j] = step

\* What an earlier step puts in front of the others.
Put == {"eraseState", "erasePanel", "touch", "fill", "report", "kickstart"}

\* The program of a command that only writes a file from time to time.
Idle(p) == p = <<>> \/ \E x \in {"touch", "fill", "report"} : p = <<x>>

\* What is left of the program of a command of kind k: what was installed is started afterwards,
\* once, and a job that is unloaded to be started is loaded again.
Laid(k, p) ==
    \A i \in 1..Len(p) :
        /\ p[i] \in Put => i = 1
        /\ p[i] = "open" => i = Len(p)
        /\ p[i] = "environment" => After(p, "look", i)
        /\ p[i] \in {"look", "kickstart", "bootstrap"} => ~After(p, "look", i)
        /\ p[i] = "bootstrap" => i = 1 \/ (i = 2 /\ p[1] = "bootout")
        /\ p[i] = "bootout" => k \in {"stop", "remove"} \/ After(p, "bootstrap", i)
        /\ p[i] = "unlink" => k = "remove"
        /\ p[i] = "settings" => k \in {"start", "pair"} \/ (k = "install" /\ After(p, "look", i))

PlanInv ==
    /\ \A c \in Commands : Laid(kind[c], todo[c])
    /\ \A c \in Commands : kind[c] \in {"install", "restart"} => forced[c]
    /\ \A c \in panels : Idle(todo[c])

\* The command c will restart the service, if it is not refused or killed.
Restarts(c) ==
    \/ forced[c] /\ Has(todo[c], "look")
    \/ Now(c, "kickstart") \/ Now(c, "bootout")

WillRestart == \E c \in Commands : Restarts(c)
WillLoad == \E c \in Commands : Has(todo[c], "look") \/ Has(todo[c], "bootstrap")

\* While no command was refused or killed: a service that runs with what is installed no more will be
\* restarted, and a job that is not loaded will be.
RunInv ==
    /\ service # None => job
    /\ ~failed =>
        /\ service # None /\ service.options # environment => WillRestart
        /\ service # None /\ service.relay # settings => setter \in {"start", "pair"} \/ WillRestart
        /\ OnlyStarts =>
               /\ job \/ WillLoad
               /\ \A c \in Commands : Has(todo[c], "bootstrap") => plist

\* The steps of the programs, one by one.
LEMMA ProgramIsLaid ==
    ASSUME NEW k \in Kinds
    PROVE  /\ Laid(k, Program(k))
           /\ k \in {"start", "install", "restart"} => Has(Program(k), "look")
           /\ ~Has(Program(k), "bootstrap")
<1> DEFINE p == Program(k)
           Goal == /\ Laid(k, p)
                   /\ k \in {"start", "install", "restart"} => Has(p, "look")
                   /\ ~Has(p, "bootstrap")
<1>1. CASE k = "start"
    <2>1. /\ Len(p) = 9 /\ p[1] = "settings" /\ p[2] = "stopLegacy" /\ p[3] = "eraseLegacy"
          /\ p[4] = "environment" /\ p[5] = "plist" /\ p[6] = "stopLegacy" /\ p[7] = "eraseLegacy"
          /\ p[8] = "look" /\ p[9] = "open"
        BY <1>1 DEF Program, Install, Start, Cleanup
    <2> HIDE DEF p
    <2>2. Goal
        BY <1>1, <2>1 DEF Laid, Has, After, Put
    <2> QED BY <2>2 DEF p
<1>2. CASE k = "pair"
    <2>1. Len(p) = 2 /\ p[1] = "settings" /\ p[2] = "open"
        BY <1>2 DEF Program
    <2> HIDE DEF p
    <2>2. Goal
        BY <1>2, <2>1 DEF Laid, Has, After, Put
    <2> QED BY <2>2 DEF p
<1>3. CASE k = "install"
    <2>1. /\ Len(p) = 9 /\ p[1] = "settings" /\ p[2] = "stopLegacy" /\ p[3] = "eraseLegacy"
          /\ p[4] = "environment" /\ p[5] = "plist" /\ p[6] = "stopLegacy" /\ p[7] = "eraseLegacy"
          /\ p[8] = "look" /\ p[9] = "loadState"
        BY <1>3 DEF Program, Install, Start, Cleanup, LoadState
    <2> HIDE DEF p
    <2>2. Goal
        BY <1>3, <2>1 DEF Laid, Has, After, Put
    <2> QED BY <2>2 DEF p
<1>4. CASE k = "restart"
    <2>1. /\ Len(p) = 9 /\ p[1] = "stopLegacy" /\ p[2] = "eraseLegacy"
          /\ p[3] = "environment" /\ p[4] = "plist" /\ p[5] = "stopLegacy" /\ p[6] = "eraseLegacy"
          /\ p[7] = "look" /\ p[8] = "loadPanel" /\ p[9] = "loadState"
        BY <1>4 DEF Program, Install, Start, Cleanup, LoadState, Status
    <2> HIDE DEF p
    <2>2. Goal
        BY <1>4, <2>1 DEF Laid, Has, After, Put
    <2> QED BY <2>2 DEF p
<1>5. CASE k = "stop"
    <2>1. /\ Len(p) = 4 /\ p[1] = "bootout" /\ p[2] = "stopLegacy" /\ p[3] = "eraseLegacy"
          /\ p[4] = "loadState"
        BY <1>5 DEF Program, Cleanup, LoadState
    <2> HIDE DEF p
    <2>2. Goal
        BY <1>5, <2>1 DEF Laid, Has, After, Put
    <2> QED BY <2>2 DEF p
<1>6. CASE k = "remove"
    <2>1. /\ Len(p) = 5 /\ p[1] = "bootout" /\ p[2] = "stopLegacy" /\ p[3] = "eraseLegacy"
          /\ p[4] = "unlink" /\ p[5] = "loadState"
        BY <1>6 DEF Program, Cleanup, LoadState
    <2> HIDE DEF p
    <2>2. Goal
        BY <1>6, <2>1 DEF Laid, Has, After, Put
    <2> QED BY <2>2 DEF p
<1>7. CASE k = "status"
    <2>1. Len(p) = 2 /\ p[1] = "loadPanel" /\ p[2] = "loadState"
        BY <1>7 DEF Program, Status, LoadState
    <2> HIDE DEF p
    <2>2. Goal
        BY <1>7, <2>1 DEF Laid, Has, After, Put
    <2> QED BY <2>2 DEF p
<1>8. CASE k = "idle"
    <2>1. Len(p) = 0
        BY <1>8 DEF Program
    <2> HIDE DEF p
    <2>2. Goal
        BY <1>8, <2>1 DEF Laid, Has, After, Put
    <2> QED BY <2>2 DEF p
<1>9. CASE k = "serve"
    <2>1. Len(p) = 1 /\ p[1] = "serve"
        BY <1>9 DEF Program
    <2> HIDE DEF p
    <2>2. Goal
        BY <1>9, <2>1 DEF Laid, Has, After, Put
    <2> QED BY <2>2 DEF p
<1> QED BY <1>1, <1>2, <1>3, <1>4, <1>5, <1>6, <1>7, <1>8, <1>9 DEF Kinds

\* What a step may put in front of the others: a reader that found a dead process removes it, and a
\* look at the job says how to start it.
Puts(step, steps) ==
    \/ steps = <<>>
    \/ step \in {"loadState", "loadPanel"} /\ \E x \in {"eraseState", "erasePanel"} : steps = <<x>>
    \/ step = "look" /\ \E x \in {"kickstart", "bootstrap"} : steps = <<x>>
    \/ step = "look" /\ steps = <<"bootout", "bootstrap">>
    \/ step \in {"open", "touch"} /\ steps = <<"fill">>

\* The first step is made.
LEMMA RestIsLaid ==
    ASSUME NEW k, NEW p \in Seq(Steps), p # <<>>, Laid(k, p)
    PROVE  /\ Laid(k, Tail(p)) /\ Tail(p) \in Seq(Steps)
           /\ \A x \in Put : ~Has(Tail(p), x)
           /\ Head(p) \in {"look", "kickstart", "bootstrap"} => ~Has(Tail(p), "look")
           /\ Head(p) # "bootout" => ~Has(Tail(p), "bootstrap")
           /\ \A x \in Steps : Has(p, x) <=> Head(p) = x \/ Has(Tail(p), x)
           /\ Head(p) = "open" => Tail(p) = <<>>
           /\ Head(p) = "environment" => Has(Tail(p), "look")
           /\ Head(p) = "unlink" => k = "remove"
           /\ Head(p) = "settings" => k \in {"start", "pair"} \/ (k = "install" /\ Has(Tail(p), "look"))
           /\ Head(p) = "bootout" => k \in {"stop", "remove"} \/ Has(Tail(p), "bootstrap")
<1> DEFINE q == Tail(p)
<1>1. /\ q \in Seq(Steps) /\ Len(p) = Len(q) + 1 /\ Len(q) \in Nat /\ Head(p) = p[1]
      /\ \A i \in 1..Len(q) : q[i] = p[i + 1] /\ i + 1 \in 1..Len(p)
      /\ 1 \in 1..Len(p)
      /\ \A i \in 1..Len(p) : i = 1 \/ (i - 1 \in 1..Len(q) /\ q[i - 1] = p[i])
      /\ Len(q) = 0 => q = <<>>
    <2>1. /\ q \in Seq(Steps) /\ Len(p) = Len(q) + 1 /\ Len(q) \in Nat /\ Head(p) = p[1]
          /\ \A i \in 1..Len(q) : q[i] = p[i + 1]
          /\ Len(q) = 0 => q = <<>>
        <3>1. Len(p) \in Nat /\ Len(p) > 0 /\ Head(p) = p[1]
            OBVIOUS
        <3>2. q \in Seq(Steps) /\ Len(q) = Len(p) - 1
            OBVIOUS
        <3>3. \A i \in 1..Len(q) : q[i] = p[i + 1]
            OBVIOUS
        <3>4. Len(q) = 0 => q = <<>>
            <4> HIDE DEF q
            <4> QED BY <3>2
        <3> QED BY <3>1, <3>2, <3>3, <3>4
    <2> HIDE DEF q
    <2>2. \A i \in 1..Len(q) : i + 1 \in 1..Len(p)
        BY <2>1
    <2>3. \A i \in 1..Len(p) : i = 1 \/ (i - 1 \in 1..Len(q) /\ q[i - 1] = p[i])
        BY <2>1
    <2> QED BY <2>1, <2>2, <2>3
<1> HIDE DEF q
<1>2. \A step : \A i \in 1..Len(q) : After(p, step, i + 1) <=> After(q, step, i)
    <2> SUFFICES ASSUME NEW step, NEW i \in 1..Len(q) PROVE After(p, step, i + 1) <=> After(q, step, i)
        OBVIOUS
    <2>1. ASSUME After(p, step, i + 1) PROVE After(q, step, i)
        <3>1. PICK j \in 1..Len(p) : i + 1 < j /\ p[j] = step
            BY <2>1 DEF After
        <3>2. j - 1 \in 1..Len(q) /\ i < j - 1 /\ q[j - 1] = step
            BY <1>1, <3>1
        <3> QED BY <3>2 DEF After
    <2>2. ASSUME After(q, step, i) PROVE After(p, step, i + 1)
        <3>1. PICK j \in 1..Len(q) : i < j /\ q[j] = step
            BY <2>2 DEF After
        <3>2. j + 1 \in 1..Len(p) /\ i + 1 < j + 1 /\ p[j + 1] = step
            BY <1>1, <3>1
        <3> QED BY <3>2 DEF After
    <2> QED BY <2>1, <2>2
<1>3. \A step : After(p, step, 1) <=> Has(q, step)
    <2> SUFFICES ASSUME NEW step PROVE After(p, step, 1) <=> Has(q, step)
        OBVIOUS
    <2>1. ASSUME After(p, step, 1) PROVE Has(q, step)
        <3>1. PICK j \in 1..Len(p) : 1 < j /\ p[j] = step
            BY <2>1 DEF After
        <3>2. j - 1 \in 1..Len(q) /\ q[j - 1] = step
            BY <1>1, <3>1
        <3> QED BY <3>2 DEF Has
    <2>2. ASSUME Has(q, step) PROVE After(p, step, 1)
        <3>1. PICK j \in 1..Len(q) : q[j] = step
            BY <2>2 DEF Has
        <3>2. j + 1 \in 1..Len(p) /\ 1 < j + 1 /\ p[j + 1] = step
            BY <1>1, <3>1
        <3> QED BY <3>2 DEF After
    <2> QED BY <2>1, <2>2
<1>4. \A x \in Put : ~Has(q, x)
    <2>1. \A i \in 1..Len(q) : q[i] = p[i + 1] /\ i + 1 \in 1..Len(p) /\ i + 1 # 1
        BY <1>1
    <2> QED BY <2>1 DEF Laid, Has
<1>5. Head(p) # "bootout" => ~Has(q, "bootstrap")
    BY <1>1 DEF Laid, Has
<1>6. ASSUME NEW i \in 1..Len(q)
      PROVE  /\ q[i] \in Put => i = 1
             /\ q[i] = "open" => i = Len(q)
             /\ q[i] = "environment" => After(q, "look", i)
             /\ q[i] \in {"look", "kickstart", "bootstrap"} => ~After(q, "look", i)
             /\ q[i] = "bootstrap" => i = 1 \/ (i = 2 /\ q[1] = "bootout")
             /\ q[i] = "bootout" => k \in {"stop", "remove"} \/ After(q, "bootstrap", i)
             /\ q[i] = "unlink" => k = "remove"
             /\ q[i] = "settings" => k \in {"start", "pair"} \/ (k = "install" /\ After(q, "look", i))
    <2>1. q[i] = p[i + 1] /\ i + 1 \in 1..Len(p) /\ i + 1 # 1
        BY <1>1
    <2>2. /\ q[i] \notin Put
          /\ q[i] = "open" => i + 1 = Len(p)
          /\ q[i] = "environment" => After(p, "look", i + 1)
          /\ q[i] \in {"look", "kickstart", "bootstrap"} => ~After(p, "look", i + 1)
          /\ q[i] = "bootstrap" => i + 1 = 2
          /\ q[i] = "bootout" => k \in {"stop", "remove"} \/ After(p, "bootstrap", i + 1)
          /\ q[i] = "unlink" => k = "remove"
          /\ q[i] = "settings" => k \in {"start", "pair"} \/ (k = "install" /\ After(p, "look", i + 1))
        BY <2>1 DEF Laid
    <2> QED BY <1>1, <1>2, <2>2
<1>7. Laid(k, q)
    BY <1>6 DEF Laid
<1>8. \A x \in Steps : Has(p, x) <=> Head(p) = x \/ Has(q, x)
    BY <1>1 DEF Has
<1>9. /\ Head(p) \in {"look", "kickstart", "bootstrap"} => ~Has(q, "look")
      /\ Head(p) = "environment" => Has(q, "look")
      /\ Head(p) = "unlink" => k = "remove"
      /\ Head(p) = "settings" => k \in {"start", "pair"} \/ (k = "install" /\ Has(q, "look"))
      /\ Head(p) = "bootout" => k \in {"stop", "remove"} \/ Has(q, "bootstrap")
    BY <1>1, <1>3 DEF Laid
<1>10. Head(p) = "open" => q = <<>>
    BY <1>1 DEF Laid
<1> QED BY <1>1, <1>4, <1>5, <1>7, <1>8, <1>9, <1>10 DEF q

LEMMA TwoInFront ==
    ASSUME NEW S, NEW x \in S, NEW y \in S, NEW q \in Seq(S)
    PROVE  <<x, y>> \o q = <<x>> \o (<<y>> \o q)
<1> DEFINE a == <<x, y>> \o q
           b == <<y>> \o q
           c == <<x>> \o b
<1>1. a \in Seq(S) /\ Len(a) = Len(q) + 2 /\ a[1] = x /\ a[2] = y /\ \A i \in 1..Len(q) : a[2 + i] = q[i]
    OBVIOUS
<1>2. b \in Seq(S) /\ Len(b) = Len(q) + 1 /\ b[1] = y /\ \A i \in 1..Len(q) : b[1 + i] = q[i]
    OBVIOUS
<1> HIDE DEF b
<1>3. c \in Seq(S) /\ Len(c) = Len(b) + 1 /\ c[1] = x /\ \A i \in 1..Len(b) : c[1 + i] = b[i]
    BY <1>2
<1> HIDE DEF a, c
<1>4. Len(q) \in Nat /\ Len(a) = Len(c)
    BY <1>1, <1>2, <1>3
<1>5. \A i \in 1..Len(a) : a[i] = c[i]
    <2> SUFFICES ASSUME NEW i \in 1..Len(a) PROVE a[i] = c[i]
        OBVIOUS
    <2>1. CASE i = 1
        BY <2>1, <1>1, <1>3
    <2>2. CASE i = 2
        <3>1. 1 \in 1..Len(b) /\ c[1 + 1] = b[1]
            BY <1>2, <1>3, <1>4
        <3> QED BY <2>2, <3>1, <1>1, <1>2
    <2>3. CASE i > 2
        <3>1. i - 2 \in 1..Len(q) /\ a[2 + (i - 2)] = q[i - 2] /\ b[1 + (i - 2)] = q[i - 2]
            BY <2>3, <1>1, <1>2, <1>4
        <3>2. i - 1 \in 1..Len(b) /\ c[1 + (i - 1)] = b[i - 1]
            BY <2>3, <1>1, <1>2, <1>3, <1>4
        <3> QED BY <3>1, <3>2, <1>4
    <2> QED BY <2>1, <2>2, <2>3, <1>4
<1>6. a = c
    BY <1>1, <1>3, <1>4, <1>5, SeqEqual
<1> QED BY <1>6 DEF a, b, c

\* One step is put in front of others.
LEMMA OneIsLaid ==
    ASSUME NEW k, NEW q \in Seq(Steps), Laid(k, q), \A y \in Put : ~Has(q, y),
           NEW x \in {"eraseState", "erasePanel", "fill", "kickstart", "bootstrap", "bootout"},
           x \in {"kickstart", "bootstrap", "bootout"} => ~Has(q, "look"),
           IF x = "bootout" THEN q # <<>> /\ Head(q) = "bootstrap" ELSE ~Has(q, "bootstrap")
    PROVE  LET r == <<x>> \o q
           IN  /\ Laid(k, r) /\ r \in Seq(Steps)
               /\ \A y : Has(r, y) <=> y = x \/ Has(q, y)
               /\ r # <<>> /\ Head(r) = x
<1> DEFINE r == <<x>> \o q
<1>1. /\ r \in Seq(Steps) /\ Len(r) = Len(q) + 1 /\ r[1] = x /\ Len(q) \in Nat
      /\ \A i \in 1..Len(q) : r[i + 1] = q[i]
      /\ r # <<>> /\ Head(r) = x
    BY DEF Steps
<1>0. x = "bootout" => q[1] = "bootstrap" /\ Has(q, "bootstrap")
    BY DEF Has
<1> HIDE DEF r
<1>2. /\ \A i \in 1..Len(r) : i = 1 \/ (i - 1 \in 1..Len(q) /\ r[i] = q[i - 1])
      /\ \A i \in 1..Len(q) : i + 1 \in 1..Len(r) /\ i + 1 # 1
      /\ 1 \in 1..Len(r)
    BY <1>1
<1>3. \A y : Has(r, y) <=> x = y \/ Has(q, y)
    BY <1>1, <1>2 DEF Has
<1>4. \A step : \A i \in 1..Len(r) :
          /\ i = 1 => (After(r, step, i) <=> Has(q, step))
          /\ i # 1 => (After(r, step, i) <=> After(q, step, i - 1))
    <2> SUFFICES ASSUME NEW step, NEW i \in 1..Len(r)
                 PROVE  /\ i = 1 => (After(r, step, i) <=> Has(q, step))
                        /\ i # 1 => (After(r, step, i) <=> After(q, step, i - 1))
        OBVIOUS
    <2>1. \A j \in 1..Len(r) : i < j /\ r[j] = step =>
              j - 1 \in 1..Len(q) /\ q[j - 1] = step /\ i - 1 < j - 1
        BY <1>1, <1>2
    <2>2. \A j \in 1..Len(q) : q[j] = step => j + 1 \in 1..Len(r) /\ r[j + 1] = step /\ 1 < j + 1
        BY <1>1, <1>2
    <2>3. \A j \in 1..Len(q) : i - 1 < j => i < j + 1
        OBVIOUS
    <2> QED BY <2>1, <2>2, <2>3 DEF After, Has
<1>5. ASSUME NEW i \in 1..Len(r)
      PROVE  /\ r[i] \in Put => i = 1
             /\ r[i] = "open" => i = Len(r)
             /\ r[i] = "environment" => After(r, "look", i)
             /\ r[i] \in {"look", "kickstart", "bootstrap"} => ~After(r, "look", i)
             /\ r[i] = "bootstrap" => i = 1 \/ (i = 2 /\ r[1] = "bootout")
             /\ r[i] = "bootout" => k \in {"stop", "remove"} \/ After(r, "bootstrap", i)
             /\ r[i] = "unlink" => k = "remove"
             /\ r[i] = "settings" => k \in {"start", "pair"} \/ (k = "install" /\ After(r, "look", i))
    <2>1. CASE i = 1
        BY <2>1, <1>0, <1>1, <1>4
    <2>2. CASE i # 1
        <3> DEFINE j == i - 1
        <3>1. j \in 1..Len(q) /\ r[i] = q[j] /\ i = j + 1
            BY <1>2, <2>2
        <3>2. \A step : After(r, step, i) <=> After(q, step, j)
            BY <1>4, <2>2
        <3>3. q[j] \notin Put /\ (q[j] = "bootstrap" => Has(q, "bootstrap"))
            BY <3>1 DEF Has
        <3>4. /\ q[j] = "open" => j = Len(q)
              /\ q[j] = "environment" => After(q, "look", j)
              /\ q[j] \in {"look", "kickstart", "bootstrap"} => ~After(q, "look", j)
              /\ q[j] = "bootstrap" => j = 1 \/ (j = 2 /\ q[1] = "bootout")
              /\ q[j] = "bootout" => k \in {"stop", "remove"} \/ After(q, "bootstrap", j)
              /\ q[j] = "unlink" => k = "remove"
              /\ q[j] = "settings" => k \in {"start", "pair"} \/ (k = "install" /\ After(q, "look", j))
            BY <3>1 DEF Laid
        <3>5. j = Len(q) => i = Len(r)
            BY <1>1, <3>1
        <3>6. q[j] = "bootstrap" => i = 2 /\ r[1] = "bootout"
            BY <3>1, <3>3, <3>4, <1>0, <1>1
        <3> HIDE DEF j
        <3> QED BY <2>2, <3>1, <3>2, <3>3, <3>4, <3>5, <3>6
    <2> QED BY <2>1, <2>2
<1>6. Laid(k, r)
    BY <1>5 DEF Laid
<1> QED BY <1>1, <1>3, <1>6 DEF r

\* The first step is made, and steps are put in front of the others.
LEMMA PutIsLaid ==
    ASSUME NEW k, NEW p \in Seq(Steps), p # <<>>, Laid(k, p), NEW steps, Puts(Head(p), steps)
    PROVE  LET r == steps \o Tail(p)
           IN  /\ Laid(k, r) /\ r \in Seq(Steps)
               /\ \A x : Has(r, x) <=> Has(steps, x) \/ Has(Tail(p), x)
               /\ steps # <<>> => r # <<>> /\ Head(r) = Head(steps)
<1> DEFINE q == Tail(p)
           r == steps \o q
           Good == /\ Laid(k, r) /\ r \in Seq(Steps)
                   /\ \A x : Has(r, x) <=> Has(steps, x) \/ Has(q, x)
                   /\ steps # <<>> => r # <<>> /\ Head(r) = Head(steps)
<1>1. /\ Laid(k, q) /\ q \in Seq(Steps)
      /\ \A x \in Put : ~Has(q, x)
      /\ Head(p) \in {"look", "kickstart", "bootstrap"} => ~Has(q, "look")
      /\ Head(p) # "bootout" => ~Has(q, "bootstrap")
    BY RestIsLaid
<1> HIDE DEF q
<1>2. CASE steps = <<>>
    <2>1. r = q
        BY <1>1, <1>2
    <2>2. \A x : ~Has(<<>>, x)
        BY DEF Has
    <2> QED BY <1>1, <1>2, <2>1, <2>2 DEF q
<1>3. ASSUME NEW x \in {"eraseState", "erasePanel", "fill", "kickstart", "bootstrap"}, steps = <<x>>,
             x \in {"kickstart", "bootstrap"} => Head(p) = "look", Head(p) # "bootout"
      PROVE  Good
    <2>1. \A y : Has(steps, y) <=> y = x
        BY <1>3 DEF Has
    <2>2. /\ Laid(k, <<x>> \o q) /\ <<x>> \o q \in Seq(Steps)
          /\ \A y : Has(<<x>> \o q, y) <=> y = x \/ Has(q, y)
          /\ <<x>> \o q # <<>> /\ Head(<<x>> \o q) = x
        BY <1>1, <1>3, OneIsLaid
    <2>3. steps # <<>> => Head(steps) = x
        BY <1>3
    <2>4. r = <<x>> \o q
        BY <1>3
    <2> HIDE DEF r
    <2> QED BY <2>1, <2>2, <2>3, <2>4
<1>4. CASE Head(p) = "look" /\ steps = <<"bootout", "bootstrap">>
    <2> DEFINE q1 == <<"bootstrap">> \o q
               q2 == <<"bootout">> \o q1
    <2>1. /\ Laid(k, q1) /\ q1 \in Seq(Steps) /\ q1 # <<>> /\ Head(q1) = "bootstrap"
          /\ \A y : Has(q1, y) <=> y = "bootstrap" \/ Has(q, y)
        BY <1>1, <1>4, OneIsLaid
    <2>2. \A y \in Put \cup {"look"} : ~Has(q1, y)
        BY <1>1, <1>4, <2>1 DEF Put
    <2>3. steps \o q = q2
        BY <1>1, <1>4, TwoInFront DEF Steps
    <2> HIDE DEF q1
    <2>4. /\ Laid(k, q2) /\ q2 \in Seq(Steps) /\ q2 # <<>> /\ Head(q2) = "bootout"
          /\ \A y : Has(q2, y) <=> y = "bootout" \/ Has(q1, y)
        BY <2>1, <2>2, OneIsLaid
    <2>5. \A y : Has(steps, y) <=> y \in {"bootout", "bootstrap"}
        BY <1>4 DEF Has
    <2>6. Head(steps) = "bootout"
        BY <1>4
    <2> HIDE DEF q2
    <2>7. Good
        <3> HIDE DEF r
        <3>1. r = q2
            BY <2>3 DEF r
        <3> QED BY <2>1, <2>4, <2>5, <2>6, <3>1
    <2> QED BY <2>7 DEF q
<1> QED BY <1>2, <1>3, <1>4 DEF Puts, q

-----------------------------------------------------------------------------
(***************************************************************************)
(* Programs go as planned.                                                 *)
(***************************************************************************)
\* A step of the command c, after which steps were put before the others.
LEMMA ThenIsLaid ==
    ASSUME TypeOK, PlanInv, NEW c \in Commands, NEW step, Now(c, step), NEW steps, Puts(step, steps),
           Then(c, steps)
    PROVE  /\ todo' \in [Commands -> Seq(Steps)]
           /\ \A d \in Commands : d # c => todo'[d] = todo[d]
           /\ Laid(kind[c], todo'[c])
           /\ \A x : Has(todo'[c], x) <=> Has(steps, x) \/ Has(Tail(todo[c]), x)
           /\ steps # <<>> => todo'[c] # <<>> /\ Head(todo'[c]) = Head(steps)
           /\ steps = <<>> => todo'[c] = Tail(todo[c]) /\ \A x \in Put : ~Has(todo'[c], x)
           /\ \A x \in Steps : Has(todo[c], x) <=> step = x \/ Has(Tail(todo[c]), x)
           /\ step \in {"look", "kickstart", "bootstrap"} => ~Has(Tail(todo[c]), "look")
           /\ step # "bootout" => ~Has(Tail(todo[c]), "bootstrap")
           /\ step = "open" => Tail(todo[c]) = <<>>
           /\ step = "environment" => Has(Tail(todo[c]), "look")
           /\ step = "unlink" => kind[c] = "remove"
           /\ step = "settings" =>
                  kind[c] \in {"start", "pair"} \/ (kind[c] = "install" /\ Has(Tail(todo[c]), "look"))
           /\ step = "bootout" => kind[c] \in {"stop", "remove"} \/ Has(Tail(todo[c]), "bootstrap")
<1> DEFINE p == todo[c]
           r == steps \o Tail(p)
<1>1. p \in Seq(Steps) /\ p # <<>> /\ Head(p) = step /\ Laid(kind[c], p)
    BY DEF TypeOK, PlanInv, Now
<1>2. todo' = [todo EXCEPT ![c] = r] /\ todo \in [Commands -> Seq(Steps)]
    BY DEF Then, TypeOK
<1> HIDE DEF p
<1>3. /\ Laid(kind[c], r) /\ r \in Seq(Steps)
      /\ \A x : Has(r, x) <=> Has(steps, x) \/ Has(Tail(p), x)
      /\ steps # <<>> => r # <<>> /\ Head(r) = Head(steps)
    BY <1>1, PutIsLaid
<1>4. /\ Laid(kind[c], Tail(p)) /\ Tail(p) \in Seq(Steps)
      /\ \A x \in Put : ~Has(Tail(p), x)
      /\ Head(p) \in {"look", "kickstart", "bootstrap"} => ~Has(Tail(p), "look")
      /\ Head(p) # "bootout" => ~Has(Tail(p), "bootstrap")
      /\ \A x \in Steps : Has(p, x) <=> Head(p) = x \/ Has(Tail(p), x)
      /\ Head(p) = "open" => Tail(p) = <<>>
      /\ Head(p) = "environment" => Has(Tail(p), "look")
      /\ Head(p) = "unlink" => kind[c] = "remove"
      /\ Head(p) = "settings" =>
             kind[c] \in {"start", "pair"} \/ (kind[c] = "install" /\ Has(Tail(p), "look"))
      /\ Head(p) = "bootout" => kind[c] \in {"stop", "remove"} \/ Has(Tail(p), "bootstrap")
    BY <1>1, RestIsLaid
<1>5. steps = <<>> => r = Tail(p)
    BY <1>4
<1> HIDE DEF r
<1>6. /\ todo' \in [Commands -> Seq(Steps)] /\ todo'[c] = r
      /\ \A d \in Commands : d # c => todo'[d] = todo[d]
    BY <1>2, <1>3
<1> QED BY <1>1, <1>3, <1>4, <1>5, <1>6 DEF p

\* The same without steps.
LEMMA EmptyIsLaid == ASSUME NEW k PROVE Laid(k, <<>>) /\ \A x : ~Has(<<>>, x)
BY DEF Laid, Has

\* One step is all there is.
LEMMA OnlyStep ==
    ASSUME NEW x \in Steps
    PROVE  <<x>> \in Seq(Steps) /\ <<x>> # <<>> /\ Head(<<x>>) = x /\ Tail(<<x>>) = <<>>
           /\ \A y : Has(<<x>>, y) <=> y = x
BY DEF Has

\* What a look may put first.
LEMMA Reload ==
    /\ <<"bootout", "bootstrap">> # <<>> /\ Head(<<"bootout", "bootstrap">>) = "bootout"
    /\ \A y : Has(<<"bootout", "bootstrap">>, y) <=> y \in {"bootout", "bootstrap"}
BY DEF Has

LEMMA PlanInit == Init => PlanInv
<1> SUFFICES ASSUME Init PROVE PlanInv
    OBVIOUS
<1>1. PICK s \in Scenarios :
          /\ kind = s.kind
          /\ todo = [c \in Commands |-> Program(s.kind[c])]
          /\ forced = [c \in Commands |-> s.kind[c] \in {"install", "restart"}]
    BY DEF Init
<1>2. s.kind \in [Commands -> Kinds] /\ panels = {}
    BY ServiceAssumption DEF Init
<1>3. ASSUME NEW c \in Commands PROVE Laid(kind[c], todo[c])
    BY <1>1, <1>2, ProgramIsLaid
<1> QED BY <1>1, <1>2, <1>3 DEF PlanInv

\* The command c makes its first step, and only the opening of its panel opens one.
Goes(c, step, steps) ==
    /\ Now(c, step) /\ Puts(step, steps) /\ Then(c, steps)
    /\ panels' = IF step = "open" THEN panels \cup {c} ELSE panels

\* A step of a command takes the first step of its program, or ends it.
LEMMA StepOfProgram ==
    ASSUME NEW c \in Commands, Step(c)
    PROVE  /\ UNCHANGED kind
           /\ \A d \in Commands : TypeOK /\ forced[d] => forced'[d]
           /\ \/ Throws(c) /\ UNCHANGED panels
              \/ \E step \in Steps : \E steps : Goes(c, step, steps)
<1> DEFINE Planned == \/ Throws(c) /\ UNCHANGED panels
                      \/ \E step \in Steps : \E steps : Goes(c, step, steps)
<1>0. ASSUME NEW step \in Steps, NEW steps, Goes(c, step, steps) PROVE Planned
    BY <1>0
<1> USE DEF Goes, Steps, Puts, files, serve, panel, command
<1>1. CASE StoreSettings(c)
    <2>1. Goes(c, "settings", <<>>) /\ UNCHANGED <<kind, forced>>
        BY <1>1 DEF StoreSettings
    <2> QED BY <2>1, <1>0
<1>2. CASE StopLegacy(c)
    <2>1. UNCHANGED <<kind, forced, panels>> /\ Now(c, "stopLegacy") /\ (Throws(c) \/ Then(c, <<>>))
        BY <1>2 DEF StopLegacy, Refused
    <2>2. Then(c, <<>>) => Goes(c, "stopLegacy", <<>>)
        BY <2>1
    <2> QED BY <2>1, <2>2, <1>0
<1>3. CASE EraseLegacy(c)
    <2>1. Goes(c, "eraseLegacy", <<>>) /\ UNCHANGED <<kind, forced>>
        BY <1>3 DEF EraseLegacy
    <2> QED BY <2>1, <1>0
<1>4. CASE WriteEnvironment(c)
    <2>1. Goes(c, "environment", <<>>) /\ UNCHANGED <<kind>>
        BY <1>4 DEF WriteEnvironment
    <2>2. \A d \in Commands : TypeOK /\ forced[d] => forced'[d]
        BY <1>4 DEF WriteEnvironment, TypeOK
    <2> QED BY <2>1, <2>2, <1>0
<1>5. CASE WritePlist(c)
    <2>1. Goes(c, "plist", <<>>) /\ UNCHANGED <<kind>>
        BY <1>5 DEF WritePlist
    <2>2. \A d \in Commands : TypeOK /\ forced[d] => forced'[d]
        BY <1>5 DEF WritePlist, TypeOK
    <2> QED BY <2>1, <2>2, <1>0
<1>6. CASE Look(c)
    <2>1. /\ UNCHANGED <<kind, forced, panels>> /\ Now(c, "look")
          /\ \/ Throws(c)
             \/ \E steps \in {<<"bootstrap">>, <<"bootout", "bootstrap">>, <<"kickstart">>, <<>>} : Then(c, steps)
        BY <1>6 DEF Look
    <2>2. \A steps \in {<<"bootstrap">>, <<"bootout", "bootstrap">>, <<"kickstart">>, <<>>} :
              Then(c, steps) => Goes(c, "look", steps)
        BY <2>1
    <2> QED BY <2>1, <2>2, <1>0
<1>7. CASE Kickstart(c)
    <2>1. UNCHANGED <<kind, forced, panels>> /\ Now(c, "kickstart") /\ (Throws(c) \/ Then(c, <<>>))
        BY <1>7 DEF Kickstart, Refused
    <2>2. Then(c, <<>>) => Goes(c, "kickstart", <<>>)
        BY <2>1
    <2> QED BY <2>1, <2>2, <1>0
<1>8. CASE Bootstrap(c)
    <2>1. UNCHANGED <<kind, forced, panels>> /\ Now(c, "bootstrap") /\ (Throws(c) \/ Then(c, <<>>))
        BY <1>8 DEF Bootstrap, Refused
    <2>2. Then(c, <<>>) => Goes(c, "bootstrap", <<>>)
        BY <2>1
    <2> QED BY <2>1, <2>2, <1>0
<1>9. CASE Bootout(c)
    <2>1. UNCHANGED <<kind, forced, panels>> /\ Now(c, "bootout") /\ (Throws(c) \/ Then(c, <<>>))
        BY <1>9 DEF Bootout, Refused
    <2>2. Then(c, <<>>) => Goes(c, "bootout", <<>>)
        BY <2>1
    <2> QED BY <2>1, <2>2, <1>0
<1>10. CASE Unlink(c)
    <2>1. Goes(c, "unlink", <<>>) /\ UNCHANGED <<kind, forced>>
        BY <1>10 DEF Unlink
    <2> QED BY <2>1, <1>0
<1>11. CASE ReadState(c)
    <2>1. UNCHANGED <<kind, forced>> /\ (Goes(c, "loadState", <<>>) \/ Goes(c, "loadState", <<"eraseState">>))
        BY <1>11 DEF ReadState
    <2> QED BY <2>1, <1>0
<1>12. CASE EraseState(c)
    <2>1. Goes(c, "eraseState", <<>>) /\ UNCHANGED <<kind, forced>>
        BY <1>12 DEF EraseState
    <2> QED BY <2>1, <1>0
<1>13. CASE ReadPanel(c)
    <2>1. UNCHANGED <<kind, forced>> /\ (Goes(c, "loadPanel", <<>>) \/ Goes(c, "loadPanel", <<"erasePanel">>))
        BY <1>13 DEF ReadPanel
    <2> QED BY <2>1, <1>0
<1>14. CASE ErasePanel(c)
    <2>1. Goes(c, "erasePanel", <<>>) /\ UNCHANGED <<kind, forced>>
        BY <1>14 DEF ErasePanel
    <2> QED BY <2>1, <1>0
<1>15. CASE OpenPanel(c)
    <2>1. Goes(c, "open", <<"fill">>) /\ UNCHANGED <<kind, forced>>
        BY <1>15 DEF OpenPanel
    <2> QED BY <2>1, <1>0
<1>16. CASE Touch(c)
    <2>1. Goes(c, "touch", <<"fill">>) /\ UNCHANGED <<kind, forced>>
        BY <1>16 DEF Touch
    <2> QED BY <2>1, <1>0
<1>17. CASE FillPanel(c)
    <2>1. Goes(c, "fill", <<>>) /\ UNCHANGED <<kind, forced>>
        BY <1>17 DEF FillPanel
    <2> QED BY <2>1, <1>0
<1>18. CASE Serve(c)
    <2>1. Goes(c, "serve", <<>>) /\ UNCHANGED <<kind, forced>>
        BY <1>18 DEF Serve
    <2> QED BY <2>1, <1>0
<1>19. CASE ServeWrites(c)
    <2>1. Goes(c, "report", <<>>) /\ UNCHANGED <<kind, forced>>
        BY <1>19 DEF ServeWrites
    <2> QED BY <2>1, <1>0
<1> QED BY <1>1, <1>2, <1>3, <1>4, <1>5, <1>6, <1>7, <1>8, <1>9, <1>10, <1>11, <1>12, <1>13, <1>14,
           <1>15, <1>16, <1>17, <1>18, <1>19 DEF Step

LEMMA PlanStep == ASSUME TypeOK, PlanInv, [Next]_vars PROVE PlanInv'
<1>0. ASSUME UNCHANGED <<kind, todo>>, \A c \in Commands : forced[c] => forced'[c], panels' \subseteq panels
      PROVE  PlanInv'
    BY <1>0 DEF PlanInv, TypeOK
<1>1. ASSUME UNCHANGED <<kind, forced>>, panels' \subseteq panels, NEW c \in Commands, NEW p,
             todo' = [todo EXCEPT ![c] = p], Laid(kind[c], p), Idle(p)
      PROVE  PlanInv'
    BY <1>1 DEF PlanInv, TypeOK
<1>2. \A k, p : Idle(p) => Laid(k, p)
    <2>1. ASSUME NEW k, NEW x \in {"touch", "fill", "report"} PROVE Laid(k, <<x>>)
        <3> DEFINE p == <<x>>
        <3>1. Len(p) = 1 /\ p[1] = x
            OBVIOUS
        <3> HIDE DEF p
        <3>2. Laid(k, p)
            BY <3>1 DEF Laid, Put
        <3> QED BY <3>2 DEF p
    <2> QED BY <2>1, EmptyIsLaid DEF Idle
<1>11. Idle(<<>>) /\ Idle(<<"touch">>) /\ Idle(<<"fill">>) /\ Idle(<<"report">>)
    BY DEF Idle
<1>3. ASSUME NEW c \in Commands, Step(c) PROVE PlanInv'
    <2>1. /\ UNCHANGED kind
          /\ \A d \in Commands : forced[d] => forced'[d]
        BY <1>3, StepOfProgram
    <2>2. CASE Throws(c) /\ UNCHANGED panels
        <3>1. todo' = [todo EXCEPT ![c] = <<>>]
            BY <2>2 DEF Throws
        <3>2. /\ \A d \in Commands : d # c => todo'[d] = todo[d]
              /\ todo'[c] = <<>>
            BY <3>1 DEF TypeOK
        <3>3. \A d \in Commands : Laid(kind[d], todo'[d])
            BY <3>2, <1>2, <1>11 DEF PlanInv
        <3>4. \A d \in panels : Idle(todo'[d])
            BY <3>2, <1>11 DEF PlanInv, TypeOK
        <3> QED BY <2>1, <2>2, <3>3, <3>4 DEF PlanInv
    <2>3. CASE \E step \in Steps : \E steps : Goes(c, step, steps)
        <3>0. PICK step \in Steps : \E steps : Goes(c, step, steps)
            BY <2>3
        <3>1. PICK steps : Goes(c, step, steps)
            BY <3>0
        <3>2. /\ \A d \in Commands : d # c => todo'[d] = todo[d]
              /\ Laid(kind[c], todo'[c])
              /\ steps = <<>> => todo'[c] = Tail(todo[c])
              /\ step = "open" => Tail(todo[c]) = <<>>
            BY <3>1, ThenIsLaid DEF Goes
        <3>3. step \in {"open", "touch", "fill", "report"} => steps \in {<<>>, <<"fill">>}
            BY <3>1 DEF Goes, Puts
        <3>4. c \in panels => \E x \in {"touch", "fill", "report"} : step = x /\ todo[c] = <<x>>
            <4>1. ASSUME c \in panels PROVE \E x \in {"touch", "fill", "report"} : step = x /\ todo[c] = <<x>>
                <5>1. todo[c] # <<>> /\ step = Head(todo[c]) /\ Idle(todo[c])
                    BY <4>1, <3>1 DEF Goes, PlanInv, Now
                <5>2. PICK x \in {"touch", "fill", "report"} : todo[c] = <<x>>
                    BY <5>1 DEF Idle
                <5> QED BY <5>1, <5>2
            <4> QED BY <4>1
        <3>5. c \in panels' => Tail(todo[c]) = <<>> /\ step \in {"open", "touch", "fill", "report"}
            <4>1. \A x : Tail(<<x>>) = <<>>
                OBVIOUS
            <4> QED BY <3>1, <3>2, <3>4, <4>1 DEF Goes
        <3>6. c \in panels' => Idle(todo'[c])
            <4>1. todo'[c] = steps \o Tail(todo[c])
                BY <3>1 DEF Goes, Then, TypeOK
            <4>2. <<>> \o <<>> = <<>> /\ <<"fill">> \o <<>> = <<"fill">>
                OBVIOUS
            <4> QED BY <3>3, <3>5, <4>1, <4>2, <1>11
        <3>7. \A d \in Commands : Laid(kind[d], todo'[d])
            BY <3>2 DEF PlanInv
        <3>8. \A d \in panels' : Idle(todo'[d])
            <4> SUFFICES ASSUME NEW d \in panels' PROVE Idle(todo'[d])
                OBVIOUS
            <4>1. CASE d = c
                BY <4>1, <3>6
            <4>2. CASE d # c
                <5>1. d \in panels /\ d \in Commands
                    BY <4>2, <3>1 DEF TypeOK, Goes
                <5> QED BY <4>2, <5>1, <3>2 DEF PlanInv
            <4> QED BY <4>1, <4>2
        <3> QED BY <2>1, <3>7, <3>8 DEF PlanInv
    <2> QED BY <1>3, <2>2, <2>3, StepOfProgram
<1>4. ASSUME NEW c \in Commands, ReadHeartbeat(c) \/ ServeReports(c) PROVE PlanInv'
    BY <1>1, <1>2, <1>4, <1>11 DEF ReadHeartbeat, ServeReports, command, files, panel
<1>5. ASSUME NEW c \in Commands, PanelExits(c) \/ CommandKilled(c) PROVE PlanInv'
    BY <1>1, <1>2, <1>5, <1>11 DEF PanelExits, CommandKilled, command
<1>12. ASSUME NEW c \in Commands, StopPanel(c) \/ ClearPanel(c) PROVE PlanInv'
    BY <1>12, <1>0 DEF StopPanel, ClearPanel, command
<1>6. CASE Login
    <2>1. todo' = [c \in Commands |-> <<>>] /\ panels' = {} /\ UNCHANGED <<kind, forced>>
        BY <1>6 DEF Login, command
    <2> QED BY <2>1, <1>2, <1>11 DEF PlanInv
<1>7. CASE ServiceStarts \/ TimerFires \/ ServiceExits
    BY <1>7, <1>0 DEF ServiceStarts, TimerFires, ServiceExits, command, files, panel
<1>8. ASSUME NEW next \in Statuses, StateChanges(next) PROVE PlanInv'
    BY <1>8, <1>0 DEF StateChanges, command, files, panel
<1>9. ASSUME NEW w \in 1..MaxChanges, StateOpened(w) \/ StateWritten(w) PROVE PlanInv'
    BY <1>9, <1>0 DEF StateOpened, StateWritten, command, panel
<1>10. CASE UNCHANGED vars
    BY <1>10, <1>0 DEF vars, command, files, panel
<1> QED BY <1>3, <1>4, <1>5, <1>6, <1>7, <1>8, <1>9, <1>10, <1>12 DEF Next

-----------------------------------------------------------------------------
(***************************************************************************)
(* The service runs with what was installed last.                          *)
(***************************************************************************)
LEMMA RunInit == Init => RunInv
<1> SUFFICES ASSUME Init PROVE RunInv
    OBVIOUS
<1>1. PICK s \in Scenarios :
          /\ kind = s.kind
          /\ todo = [c \in Commands |-> Program(s.kind[c])]
    BY DEF Init
<1>2. s.kind \in [Commands -> Kinds] /\ service = None
    BY ServiceAssumption DEF Init
<1>3. ASSUME NEW c \in Commands
      PROVE  ~Has(todo[c], "bootstrap") /\ (kind[c] \in Starting => Has(todo[c], "look"))
    BY <1>1, <1>2, ProgramIsLaid DEF Starting
<1> QED BY <1>2, <1>3 DEF RunInv, OnlyStarts, WillLoad

\* A command that is not the one that makes a step goes on as before.
LEMMA OthersRestart ==
    ASSUME NEW c, NEW d \in Commands, d # c, todo'[d] = todo[d], forced[d] => forced'[d], Restarts(d)
    PROVE  Restarts(d)'
BY DEF Restarts, Now

\* A step that touches neither the service, the job nor what is installed, and drops no restart.
LEMMA IdleRun ==
    ASSUME RunInv, UNCHANGED <<kind, service, environment, settings, setter, job, plist>>,
           ~failed' => ~failed,
           ~failed' => /\ WillRestart => WillRestart'
                       /\ WillLoad => WillLoad'
                       /\ \A c \in Commands : Has(todo'[c], "bootstrap") => Has(todo[c], "bootstrap")
    PROVE  RunInv'
<1>1. OnlyStarts' = OnlyStarts
    BY DEF OnlyStarts
<1> QED BY <1>1 DEF RunInv

LEMMA CommandRuns ==
    ASSUME TypeOK, PlanInv, RunInv, NEW c \in Commands, Step(c)
    PROVE  RunInv'
<1> DEFINE Rest == Tail(todo[c])
<1>a. UNCHANGED kind /\ (OnlyStarts' = OnlyStarts) /\ \A d \in Commands : forced[d] => forced'[d]
    BY StepOfProgram DEF OnlyStarts
\* What a step leaves of the promises, where it puts nothing first.
<1>b. ASSUME NEW step \in Steps, Now(c, step), Then(c, <<>>)
      PROVE  /\ \A d \in Commands : Restarts(d) /\ (d # c \/ step \notin {"look", "kickstart", "bootout"})
                                        => Restarts(d)'
             /\ \A d \in Commands : Has(todo'[d], "bootstrap") => Has(todo[d], "bootstrap")
             /\ WillLoad /\ step \notin {"look", "bootstrap"} => WillLoad'
             /\ todo'[c] = Rest
             /\ step # "bootout" => ~Has(todo'[c], "bootstrap")
    <2>1. Puts(step, <<>>)
        BY DEF Puts
    <2>2. /\ \A d \in Commands : d # c => todo'[d] = todo[d]
          /\ todo'[c] = Rest
          /\ \A x \in Steps : Has(todo[c], x) <=> step = x \/ Has(Rest, x)
          /\ step # "bootout" => ~Has(Rest, "bootstrap")
        BY <1>b, <2>1, ThenIsLaid
    <2>3. {"look", "bootstrap", "kickstart", "bootout"} \subseteq Steps
        BY DEF Steps
    <2>4. \A d \in Commands : d # c => (Restarts(d) => Restarts(d)')
        BY <2>2, <1>a, OthersRestart
    <2>5. Restarts(c) /\ step \notin {"look", "kickstart", "bootout"} => Restarts(c)'
        BY <1>a, <1>b, <2>2, <2>3 DEF Restarts, Now
    <2>6. \A d \in Commands : Has(todo'[d], "bootstrap") => Has(todo[d], "bootstrap")
        BY <2>2, <2>3
    <2>7. WillLoad /\ step \notin {"look", "bootstrap"} => WillLoad'
        BY <2>2, <2>3 DEF WillLoad
    <2> QED BY <2>2, <2>4, <2>5, <2>6, <2>7
\* A command that is ended by an error keeps no promise of its own; after launchctl has failed none
\* is asked for.
<1>c. ASSUME Throws(c)
      PROVE  /\ todo'[c] = <<>> /\ \A d \in Commands : d # c => todo'[d] = todo[d]
             /\ \A d \in Commands : d # c /\ Restarts(d) => Restarts(d)'
             /\ \A d \in Commands : Has(todo'[d], "bootstrap") => Has(todo[d], "bootstrap")
    <2>1. todo'[c] = <<>> /\ \A d \in Commands : d # c => todo'[d] = todo[d]
        BY <1>c DEF Throws, TypeOK
    <2>2. \A d \in Commands : d # c /\ Restarts(d) => Restarts(d)'
        BY <2>1, <1>a, OthersRestart
    <2>3. \A d \in Commands : Has(todo'[d], "bootstrap") => Has(todo[d], "bootstrap")
        BY <2>1, EmptyIsLaid
    <2> QED BY <2>1, <2>2, <2>3
<1>d. ASSUME failed', service' # None => job' PROVE RunInv'
    BY <1>d DEF RunInv
<1> HIDE DEF Rest
<1>e. ASSUME NEW step \in Steps \ {"look", "kickstart", "bootout", "bootstrap"}, Now(c, step), Then(c, <<>>),
             UNCHANGED <<service, environment, settings, setter, job, plist, failed>>
      PROVE  RunInv'
    <2>1. WillRestart => WillRestart'
        BY <1>b, <1>e DEF WillRestart
    <2> QED BY <1>a, <1>b, <1>e, <2>1, IdleRun
<1>1. CASE StoreSettings(c)
    <2>1. /\ Now(c, "settings") /\ "settings" \in Steps /\ Then(c, <<>>)
          /\ UNCHANGED <<service, environment, job, plist, failed, forced>>
          /\ UNCHANGED <<settings, setter>> \/ setter' = kind[c]
        BY <1>1 DEF StoreSettings, launchd, process, faults, config, Steps
    <2>2. CASE UNCHANGED <<settings, setter>>
        BY <2>1, <2>2, <1>e
    <2>3. CASE setter' = kind[c]
        <3>1. kind[c] \in {"start", "pair"} \/ (kind[c] = "install" /\ Has(todo'[c], "look"))
            <4>1. Puts("settings", <<>>)
                BY DEF Puts
            <4> QED BY <2>1, <4>1, ThenIsLaid
        <3>2. kind[c] = "install" => forced'[c]
            BY <2>1 DEF PlanInv
        <3>3. setter' \in {"start", "pair"} \/ WillRestart'
            BY <2>3, <3>1, <3>2 DEF WillRestart, Restarts
        <3>4. /\ WillRestart => WillRestart'
              /\ WillLoad => WillLoad'
              /\ \A d \in Commands : Has(todo'[d], "bootstrap") => Has(todo[d], "bootstrap")
            BY <2>1, <1>b DEF WillRestart
        <3> QED BY <1>a, <2>1, <3>3, <3>4 DEF RunInv
    <2> QED BY <2>1, <2>2, <2>3
<1>2. CASE StopLegacy(c)
    <2>1. /\ UNCHANGED <<service, environment, settings, setter, job, plist>> /\ Now(c, "stopLegacy")
          /\ "stopLegacy" \in Steps
          /\ failed' \/ (Then(c, <<>>) /\ UNCHANGED failed)
        BY <1>2 DEF StopLegacy, Refused, Succeeds, config, process, faults, Steps
    <2> QED BY <2>1, <1>d, <1>e DEF RunInv
<1>3. CASE EraseLegacy(c)
    BY <1>3, <1>e DEF EraseLegacy, config, process, faults, Steps
<1>4. CASE WriteEnvironment(c)
    <2>1. /\ Now(c, "environment") /\ "environment" \in Steps /\ Then(c, <<>>)
          /\ environment' = options[c]
          /\ forced' = [forced EXCEPT ![c] = @ \/ environment # options[c]]
          /\ UNCHANGED <<service, settings, setter, job, plist, failed>>
        BY <1>4 DEF WriteEnvironment, IsChanged, config, process, faults, Steps
    <2>2. Has(todo'[c], "look")
        <3>1. Puts("environment", <<>>)
            BY DEF Puts
        <3> QED BY <2>1, <3>1, ThenIsLaid
    <2>3. environment' # environment => WillRestart'
        BY <2>1, <2>2 DEF TypeOK, WillRestart, Restarts
    <2>4. /\ WillRestart => WillRestart'
          /\ WillLoad => WillLoad'
          /\ \A d \in Commands : Has(todo'[d], "bootstrap") => Has(todo[d], "bootstrap")
        BY <2>1, <1>b DEF WillRestart
    <2> QED BY <1>a, <2>1, <2>3, <2>4 DEF RunInv
<1>5. CASE WritePlist(c)
    <2>1. /\ Now(c, "plist") /\ "plist" \in Steps /\ Then(c, <<>>)
          /\ plist'
          /\ UNCHANGED <<service, environment, settings, setter, job, failed>>
        BY <1>5 DEF WritePlist, config, process, faults, Steps
    <2>2. /\ WillRestart => WillRestart'
          /\ WillLoad => WillLoad'
        BY <2>1, <1>b DEF WillRestart
    <2> QED BY <1>a, <2>1, <2>2 DEF RunInv
<1>6. CASE Look(c)
    <2>1. Now(c, "look") /\ UNCHANGED <<service, environment, settings, setter, job, plist, forced>>
        BY <1>6 DEF Look, config, process, launchd
    <2>2. CASE failed'
        BY <2>1, <2>2, <1>d DEF RunInv
    <2>3. CASE /\ plist /\ UNCHANGED failed
               /\ Then(c, IF ~job THEN <<"bootstrap">>
                          ELSE IF service = None THEN <<"bootout", "bootstrap">>
                          ELSE IF forced[c] THEN <<"kickstart">> ELSE <<>>)
        <3>1. CASE ~job
            <4>1. Then(c, <<"bootstrap">>) /\ Puts("look", <<"bootstrap">>)
                BY <2>3, <3>1 DEF Puts
            <4>2. Has(todo'[c], "bootstrap")
                BY <2>1, <4>1, ThenIsLaid, OnlyStep DEF Steps
            <4> QED BY <1>a, <2>1, <2>3, <3>1, <4>2 DEF RunInv, WillLoad
        <3>2. CASE job /\ service = None
            BY <1>a, <2>1, <2>3, <3>2 DEF RunInv
        <3>3. CASE job /\ service # None /\ forced[c]
            <4>1. Then(c, <<"kickstart">>) /\ Puts("look", <<"kickstart">>)
                BY <2>3, <3>3 DEF Puts
            <4>2. todo'[c] # <<>> /\ Head(todo'[c]) = "kickstart"
                BY <2>1, <4>1, ThenIsLaid, OnlyStep DEF Steps
            <4>3. WillRestart'
                BY <4>2 DEF WillRestart, Restarts, Now
            <4> QED BY <1>a, <2>1, <2>3, <3>3, <4>3 DEF RunInv
        <3>4. CASE job /\ service # None /\ ~forced[c]
            <4>1. Then(c, <<>>)
                BY <2>3, <3>4
            <4>2. ~Restarts(c)
                BY <2>1, <3>4 DEF Restarts, Now
            <4>3. WillRestart => WillRestart'
                BY <1>b, <2>1, <4>1, <4>2 DEF WillRestart, Steps
            <4> QED BY <1>a, <2>1, <2>3, <3>4, <4>3 DEF RunInv
        <3> QED BY <3>1, <3>2, <3>3, <3>4
    <2> QED BY <1>6, <2>2, <2>3 DEF Look
<1>7. CASE Kickstart(c)
    <2>1. /\ Now(c, "kickstart") /\ UNCHANGED <<environment, settings, setter, job, plist, forced>>
        BY <1>7 DEF Kickstart, config, launchd
    <2>2. CASE job /\ Succeeds /\ ServiceEnds /\ Then(c, <<>>)
        <3>1. UNCHANGED failed /\ service' = None
            BY <2>2 DEF Succeeds, ServiceEnds, faults
        <3>2. \A d \in Commands : Has(todo'[d], "bootstrap") => Has(todo[d], "bootstrap")
            BY <1>b, <2>1, <2>2 DEF Steps
        <3> QED BY <1>a, <2>1, <2>2, <3>1, <3>2 DEF RunInv
    <2>3. CASE ~job /\ Succeeds /\ UNCHANGED process /\ Throws(c)
        <3>1. UNCHANGED <<failed, service>> /\ service = None
            BY <2>3 DEF Succeeds, process, faults, RunInv
        <3>2. ~Has(todo[c], "look") /\ ~Has(todo[c], "bootstrap")
            <4> DEFINE p == todo[c]
            <4>1. p \in Seq(Steps) /\ p # <<>> /\ Laid(kind[c], p) /\ Head(p) = "kickstart"
                BY <2>1 DEF TypeOK, PlanInv, Now
            <4>2. {"look", "bootstrap"} \subseteq Steps
                BY DEF Steps
            <4> HIDE DEF p
            <4>3. /\ Head(p) \in {"look", "kickstart", "bootstrap"} => ~Has(Tail(p), "look")
                  /\ Head(p) # "bootout" => ~Has(Tail(p), "bootstrap")
                  /\ \A x \in Steps : Has(p, x) <=> Head(p) = x \/ Has(Tail(p), x)
                BY <4>1, RestIsLaid
            <4>4. ~Has(p, "look") /\ ~Has(p, "bootstrap")
                BY <4>1, <4>2, <4>3
            <4> QED BY <4>4 DEF p
        <3>3. WillLoad => WillLoad'
            BY <1>c, <2>3, <3>2 DEF WillLoad
        <3> QED BY <1>a, <1>c, <2>1, <2>3, <3>1, <3>3 DEF RunInv
    <2>4. CASE Refused(c) /\ UNCHANGED process
        BY <1>d, <2>1, <2>4 DEF Refused, process, RunInv
    <2> QED BY <1>7, <2>2, <2>3, <2>4 DEF Kickstart
<1>8. CASE Bootstrap(c)
    <2>1. /\ Now(c, "bootstrap") /\ UNCHANGED <<environment, settings, setter, service, plist, forced>>
        BY <1>8 DEF Bootstrap, config, process
    <2>2. CASE plist /\ ~job /\ Succeeds /\ job' = TRUE /\ Then(c, <<>>)
        <3>1. UNCHANGED failed /\ service = None
            BY <2>2 DEF Succeeds, faults, RunInv
        <3> QED BY <1>a, <2>1, <2>2, <3>1 DEF RunInv
    <2>3. CASE (~plist \/ job) /\ Succeeds /\ UNCHANGED job /\ Throws(c)
        <3>1. UNCHANGED failed
            BY <2>3 DEF Succeeds, faults
        <3>2. ~Restarts(c) /\ Has(todo[c], "bootstrap")
            <4>1. todo[c] \in Seq(Steps) /\ todo[c] # <<>> /\ Laid(kind[c], todo[c]) /\ Head(todo[c]) = "bootstrap"
                BY <2>1 DEF TypeOK, PlanInv, Now
            <4> QED BY <4>1, RestIsLaid DEF Steps, Restarts, Now
        <3>3. WillRestart => WillRestart'
            BY <1>c, <2>3, <3>2 DEF WillRestart
        <3>4. ~failed /\ OnlyStarts => job
            BY <2>3, <3>2 DEF RunInv
        <3> QED BY <1>a, <1>c, <2>1, <2>3, <3>1, <3>3, <3>4 DEF RunInv
    <2>4. CASE Refused(c) /\ UNCHANGED job
        BY <1>d, <2>1, <2>4 DEF Refused, RunInv
    <2> QED BY <1>8, <2>2, <2>3, <2>4 DEF Bootstrap
<1>9. CASE Bootout(c)
    <2>1. /\ Now(c, "bootout") /\ UNCHANGED <<environment, settings, setter, plist, forced>>
        BY <1>9 DEF Bootout, config
    <2>2. CASE Succeeds /\ job' = FALSE /\ ServiceEnds /\ Then(c, <<>>)
        <3>1. UNCHANGED failed /\ service' = None
            BY <2>2 DEF Succeeds, ServiceEnds, faults
        <3>2. kind[c] \in {"stop", "remove"} \/ Has(todo'[c], "bootstrap")
            <4>1. Puts("bootout", <<>>)
                BY DEF Puts
            <4> QED BY <2>1, <2>2, <4>1, ThenIsLaid
        <3>3. OnlyStarts => WillLoad'
            BY <3>2 DEF OnlyStarts, WillLoad
        <3>4. "bootout" \in Steps
            BY DEF Steps
        <3>5. \A d \in Commands : Has(todo'[d], "bootstrap") => Has(todo[d], "bootstrap")
            BY <1>b, <2>1, <2>2, <3>4
        <3> QED BY <1>a, <2>1, <2>2, <3>1, <3>3, <3>5 DEF RunInv
    <2>3. CASE Refused(c) /\ UNCHANGED <<job, process>>
        BY <1>d, <2>1, <2>3 DEF Refused, process, RunInv
    <2> QED BY <1>9, <2>2, <2>3 DEF Bootout
<1>10. CASE Unlink(c)
    <2>1. /\ Now(c, "unlink") /\ "unlink" \in Steps /\ Then(c, <<>>)
          /\ UNCHANGED <<service, environment, settings, setter, job, failed>>
        BY <1>10 DEF Unlink, config, process, faults, Steps
    <2>2. ~OnlyStarts
        <3>1. Puts("unlink", <<>>)
            BY DEF Puts
        <3>2. kind[c] = "remove"
            BY <2>1, <3>1, ThenIsLaid
        <3> QED BY <3>2 DEF OnlyStarts
    <2>3. WillRestart => WillRestart'
        BY <1>b, <2>1 DEF WillRestart
    <2> QED BY <1>a, <2>1, <2>2, <2>3 DEF RunInv
<1>11. ASSUME NEW step \in {"loadState", "loadPanel", "open", "touch"}, Now(c, step),
              NEW x \in {"eraseState", "erasePanel", "fill"},
              Then(c, <<>>) \/ (Then(c, <<x>>) /\ Puts(step, <<x>>)),
              UNCHANGED <<service, environment, settings, setter, job, plist, failed>>
       PROVE  RunInv'
    <2>1. CASE Then(c, <<>>)
        BY <1>11, <2>1, <1>e DEF Steps
    <2>2. CASE Then(c, <<x>>) /\ Puts(step, <<x>>)
        <3>1. {"look", "bootstrap"} \subseteq Steps /\ x \in Steps
            BY <1>11 DEF Steps
        <3>2. \A y : Has(<<x>>, y) <=> y = x
            BY <3>1, OnlyStep
        <3>3. /\ \A d \in Commands : d # c => todo'[d] = todo[d]
              /\ \A y \in {"look", "bootstrap"} : Has(todo'[c], y) <=> Has(todo[c], y)
            BY <1>11, <2>2, <3>1, <3>2, ThenIsLaid
        <3>4. Restarts(c) => Restarts(c)'
            BY <1>a, <1>11, <3>3 DEF Restarts, Now
        <3>5. WillRestart => WillRestart'
            BY <1>a, <3>3, <3>4, OthersRestart DEF WillRestart
        <3>6. /\ WillLoad => WillLoad'
              /\ \A d \in Commands : Has(todo'[d], "bootstrap") => Has(todo[d], "bootstrap")
            BY <3>3 DEF WillLoad
        <3> QED BY <1>a, <1>11, <3>5, <3>6, IdleRun
    <2> QED BY <1>11, <2>1, <2>2
<1>12. CASE ReadState(c)
    BY <1>12, <1>11 DEF ReadState, Puts, config, launchd, process, faults
<1>13. CASE EraseState(c)
    BY <1>13, <1>e DEF EraseState, config, launchd, process, faults, Steps
<1>14. CASE ReadPanel(c)
    BY <1>14, <1>11 DEF ReadPanel, Puts, config, launchd, process, faults
<1>15. CASE ErasePanel(c)
    BY <1>15, <1>e DEF ErasePanel, config, launchd, process, faults, Steps
<1>16. CASE OpenPanel(c)
    BY <1>16, <1>11 DEF OpenPanel, Puts, config, launchd, process, faults
<1>17. CASE Touch(c)
    BY <1>17, <1>11 DEF Touch, Puts, config, launchd, process, faults
<1>18. CASE FillPanel(c)
    BY <1>18, <1>e DEF FillPanel, config, launchd, process, faults, Steps
<1>19. CASE Serve(c)
    BY <1>19, <1>e DEF Serve, config, launchd, process, faults, Steps
<1>20. CASE ServeWrites(c)
    BY <1>20, <1>e DEF ServeWrites, config, launchd, process, faults, Steps
<1> QED BY <1>1, <1>2, <1>3, <1>4, <1>5, <1>6, <1>7, <1>8, <1>9, <1>10, <1>12, <1>13, <1>14, <1>15,
           <1>16, <1>17, <1>18, <1>19, <1>20 DEF Step

LEMMA RunStep == ASSUME TypeOK, PlanInv, RunInv, [Next]_vars PROVE RunInv'
<1>a. ASSUME UNCHANGED <<kind, todo, forced, environment, settings, setter, job, plist, failed>>,
             UNCHANGED service \/ service' = None
      PROVE  RunInv'
    <2>1. UNCHANGED <<OnlyStarts, WillRestart, WillLoad>>
        BY <1>a DEF OnlyStarts, WillRestart, WillLoad, Restarts, Now
    <2> QED BY <1>a, <2>1 DEF RunInv
\* The program of a command that is idle changes.
<1>b. ASSUME NEW c \in Commands, Idle(todo[c]), NEW p, Idle(p),
             todo' = [todo EXCEPT ![c] = p],
             UNCHANGED <<kind, forced, environment, settings, setter, job, plist, service, failed>>
      PROVE  RunInv'
    <2>1. /\ \A d \in Commands : d # c => todo'[d] = todo[d]
          /\ todo'[c] = p
        BY <1>b DEF TypeOK
    <2>2. \A q : Idle(q) => /\ ~Has(q, "look") /\ ~Has(q, "bootstrap")
                            /\ q # <<>> => Head(q) \in {"touch", "fill", "report"}
        BY EmptyIsLaid, OnlyStep DEF Idle, Steps
    <2>3. ~Restarts(c)
        BY <1>b, <2>2 DEF Restarts, Now
    <2>4. WillRestart => WillRestart'
        BY <1>b, <2>1, <2>3, OthersRestart DEF WillRestart
    <2>5. /\ WillLoad => WillLoad'
          /\ \A d \in Commands : Has(todo'[d], "bootstrap") => Has(todo[d], "bootstrap")
        BY <1>b, <2>1, <2>2 DEF WillLoad
    <2> QED BY <1>b, <2>4, <2>5, IdleRun
<1>1. ASSUME NEW c \in Commands, Step(c) PROVE RunInv'
    BY <1>1, CommandRuns
<1>2. ASSUME NEW c \in Commands, ReadHeartbeat(c) \/ ServeReports(c) PROVE RunInv'
    <2>1. PICK p \in {<<"touch">>, <<"report">>} : todo[c] = <<>> /\ todo' = [todo EXCEPT ![c] = p]
        BY <1>2 DEF ReadHeartbeat, ServeReports
    <2>2. Idle(p) /\ Idle(todo[c])
        BY <2>1 DEF Idle
    <2> QED BY <1>2, <2>1, <2>2, <1>b DEF ReadHeartbeat, ServeReports, command, config, launchd, process
<1>3. ASSUME NEW c \in Commands, PanelExits(c) PROVE RunInv'
    <2>1. Idle(todo[c]) /\ Idle(<<>>)
        BY <1>3 DEF PanelExits, PlanInv, TypeOK, Idle
    <2> QED BY <1>3, <2>1, <1>b DEF PanelExits, command, config, launchd, process, faults
<1>12. ASSUME NEW c \in Commands, StopPanel(c) \/ ClearPanel(c) PROVE RunInv'
    BY <1>12, <1>a DEF StopPanel, ClearPanel, command, config, launchd, process, faults
<1>4. ASSUME NEW c \in Commands, CommandKilled(c) PROVE RunInv'
    BY <1>4 DEF CommandKilled, RunInv, launchd, process
<1>5. CASE ServiceStarts
    <2>1. /\ job /\ service' # None => service'.relay = settings /\ service'.options = environment
          /\ UNCHANGED <<kind, todo, forced, environment, settings, setter, job, plist, failed>>
        BY <1>5 DEF ServiceStarts, command, config, launchd, faults
    <2>2. UNCHANGED <<OnlyStarts, WillLoad>>
        BY <2>1 DEF OnlyStarts, WillLoad
    <2>3. job
        BY <1>5 DEF ServiceStarts
    <2>4. service'.relay = settings /\ service'.options = environment
        BY <1>5 DEF ServiceStarts
    <2> QED BY <2>1, <2>2, <2>3, <2>4 DEF RunInv
<1>6. CASE TimerFires
    BY <1>6, <1>a DEF TimerFires, command, config, launchd, faults
<1>7. CASE ServiceExits
    BY <1>7, <1>a DEF ServiceExits, ServiceEnds, command, config, launchd
<1>8. CASE Login
    BY <1>8 DEF Login, ServiceEnds, RunInv
<1>9. ASSUME NEW next \in Statuses, StateChanges(next) PROVE RunInv'
    BY <1>9, <1>a DEF StateChanges, command, config, launchd, faults
<1>10. ASSUME NEW w \in 1..MaxChanges, StateOpened(w) \/ StateWritten(w) PROVE RunInv'
    BY <1>10, <1>a DEF StateOpened, StateWritten, command, config, launchd, faults
<1>11. CASE UNCHANGED vars
    BY <1>11, <1>a DEF vars, command, config, launchd, process, faults
<1> QED BY <1>1, <1>2, <1>3, <1>4, <1>5, <1>6, <1>7, <1>8, <1>9, <1>10, <1>11, <1>12 DEF Next

\* When every command has ended and none was refused, killed or without a LaunchAgent to start, launchd
\* has the job that they started, and the service runs with the options installed last and with the
\* relay stored last, unless a command that does not restart the service stored it.
THEOREM RunsWhatIsInstalled == Spec => []RunsLatest
<1>1. Init => TypeOK /\ CleanupInv /\ PlanInv /\ RunInv
    BY TypeInit, CleanupInit, PlanInit, RunInit
<1>2. TypeOK /\ CleanupInv /\ PlanInv /\ RunInv /\ [Next]_vars => (TypeOK /\ CleanupInv /\ PlanInv /\ RunInv)'
    BY TypeStep, CleanupStep, PlanStep, RunStep
<1>3. RunInv => RunsLatest
    <2> SUFFICES ASSUME RunInv, Quiet, ~failed
                 PROVE  /\ OnlyStarts => job
                        /\ service # None => /\ service.options = environment
                                             /\ service.relay = settings \/ setter \in {"start", "pair"}
        BY DEF RunsLatest
    <2>1. ~WillRestart /\ ~WillLoad
        BY EmptyIsLaid DEF Quiet, WillRestart, WillLoad, Restarts, Now
    <2> QED BY <2>1 DEF RunInv
<1> QED BY <1>1, <1>2, <1>3, PTL DEF Spec

=============================================================================
