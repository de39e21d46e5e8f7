-------------------------- MODULE MCRelayRoutes --------------------------
(***************************************************************************)
(* TLC instance of RelayServer.  Two writes share one idempotency key (a   *)
(* retry) of one mobile while both sides reconnect; or two mobiles compete *)
(* for the agent, and one of them sends a write, a write without a key, or *)
(* a read.                                                                 *)
(***************************************************************************)
EXTENDS RelayServer, TLC

CONSTANTS a1, k1, AgentSockets, keyless, read

MCBindings == Agents \X Mobiles
ToA1 == [r \in Requests |-> a1]
SameKey == [r \in Requests |-> IF r \in {keyless, read} THEN None ELSE k1]
Starts == [r \in Requests |-> IF r = read THEN "thread_list_req" ELSE "turn_start_req"]

Received == {r \in Requests : stage[r] # "unsent"}
Involved == {m \in Mobiles : \/ \E s \in Sockets : m \in {authenticating[s], socketSessions[s]}
                             \/ \E a \in Agents : m = agentControllers[a]}

Used == {s \in Sockets : readyState[s] # "unused"}

\* Bounds.  AgentSockets serve the agent, the other sockets the mobiles; heartbeats and presence are
\* left free by MCRelayServer, here with no degraded agent, no peer that vanishes without
\* closing, and a key that expires at most once.  While a retry is under way, and once the agent
\* reconnects, the mobile is alone; next to a retry one of the two sides reconnects.
Focus ==
    /\ \/ Cardinality(Received) <= 1 /\ Cardinality(Used \cap AgentSockets) <= 1
       \/ /\ Received \cap {keyless, read} = {}
          /\ Cardinality(Involved) <= 1
          /\ takeovers = {}
          /\ Cardinality(Received) + Cardinality(Used) <= 5
    /\ \A s \in Sockets : authenticating[s] # None =>
            (authenticating[s] \in Agents) = (s \in AgentSockets)
    /\ silent = {}
    /\ \A a \in Agents : agentPresence[a] # "degraded"
    /\ idempotency \cap expired = {}

Symmetry == Permutations(Mobiles) \cup Permutations(Sockets \ AgentSockets)
            \cup Permutations(AgentSockets) \cup Permutations(Requests \ {keyless, read})
=============================================================================
