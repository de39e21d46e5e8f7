--------------------------- MODULE MCRelayServer ---------------------------
(***************************************************************************)
(* TLC instances of RelayServer for liveness: a keyed write, or an         *)
(* archive, the write whose answer the relay does not forward.             *)
(***************************************************************************)
EXTENDS RelayServer

CONSTANTS a1, k1

MCBindings == Agents \X Mobiles
ToA1 == [r \in Requests |-> a1]
SameKey == [r \in Requests |-> k1]

Starts == [r \in Requests |-> "turn_start_req"]
OneArchive == [r \in Requests |-> "thread_archive_req"]
=============================================================================
