------------------------- MODULE MCAgentRelayClient -------------------------
(***************************************************************************)
(* TLC instance of AgentRelayClient.                                       *)
(***************************************************************************)
EXTENDS AgentRelayClient
=============================================================================
