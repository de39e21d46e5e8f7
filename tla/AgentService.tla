---------------------------- MODULE AgentService ----------------------------
(***************************************************************************)
(* What the desktop agent promises for the requests that the relay hands   *)
(* it: each is answered at most once, a turn is reported on only between   *)
(* its acceptance and its answer, and (Promise) no request waits for ever. *)
(* CodexClient implements it.                                              *)
(***************************************************************************)
CONSTANTS
    Requests,   \* requests of phones
    Statuses    \* what a status, a delta or a question of a turn can say

VARIABLES
    stage,      \* of each request: "idle", "accepted" or "answered"
    said        \* what was last reported on each request

vars == <<stage, said>>

TypeOK ==
    /\ stage \in [Requests -> {"idle", "accepted", "answered"}]
    /\ said \in [Requests -> Statuses]

Init ==
    /\ stage = [r \in Requests |-> "idle"]
    /\ \E s \in Statuses : said = [r \in Requests |-> s]

\* The steps below may concern several requests at once: the end of a Codex process answers all
\* that it was working on.  What is said of a request is said before its answer.
Step ==
    /\ stage' \in [Requests -> {"idle", "accepted", "answered"}]
    /\ said' \in [Requests -> Statuses]
    /\ \A r \in Requests :
          /\ stage[r] = "accepted" => stage'[r] # "idle"
          /\ stage[r] = "answered" => stage'[r] = "answered" /\ said'[r] = said[r]
          /\ stage'[r] = "idle" => said'[r] = said[r]

Spec == Init /\ [][Step]_vars

Promise == \A r \in Requests : stage[r] = "accepted" ~> stage[r] = "answered"
=============================================================================
