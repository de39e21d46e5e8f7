--------------------------- MODULE MCPairingClaim ---------------------------
(***************************************************************************)
(* TLC instance of PairingClaim: codes of two agents, which two phones     *)
(* claim, so that one code is contested or each phone elects a default.    *)
(***************************************************************************)
EXTENDS PairingClaim, TLC

CONSTANTS p1, a1, a2

OfAgent == (p1 :> a1) @@ [p \in Codes |-> a2]
=============================================================================
