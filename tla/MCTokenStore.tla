---------------------------- MODULE MCTokenStore ----------------------------
(***************************************************************************)
(* TLC instance of TokenStore.  Liveness is checked in the same run, so    *)
(* the calls are not declared symmetric.                                   *)
(***************************************************************************)
EXTENDS TokenStore
=============================================================================
