-------------------------- MODULE MCAgentIdentity --------------------------
(***************************************************************************)
(* TLC instances of AgentIdentity.  A first start finds nothing, a later   *)
(* one a profile with its pair in the keychain or, from an older version,  *)
(* in the file.                                                            *)
(***************************************************************************)
EXTENDS AgentIdentity, TLC

CONSTANTS t1, t2, t3

Plain == [machine |-> 1, agent |-> 1, shown |-> TRUE, auth |-> None]

Tasks3(k1, k2, k3) == t1 :> k1 @@ t2 :> k2 @@ t3 :> k3

First(kinds, failing) ==
    [kind |-> kinds, file |-> Missing, keychain |-> None, pair |-> None, serving |-> None,
     may |-> failing]
Later(kinds, failing) ==
    [kind |-> kinds, file |-> Plain, keychain |-> 1, pair |-> 1, serving |-> 1, may |-> failing]
Older(kinds, failing) ==
    [kind |-> kinds, file |-> [Plain EXCEPT !.auth = 1], keychain |-> None, pair |-> 1,
     serving |-> None, may |-> failing]

Calls == {"load", "save", "call", "answer"}

Mixed ==
    {First(Tasks3("service", "start", "idle"), Calls),
     Later(Tasks3("service", "start", "idle"), Calls),
     Older(Tasks3("service", "refresh", "idle"), Calls \cup {"half", "crash"}),
     Older(Tasks3("service", "start", "idle"), {}),
     Older(Tasks3("service", "status", "idle"), {}),
     Later(Tasks3("service", "refresh", "refresh"), {}),
     Later(Tasks3("service", "pair", "idle"), {}),
     Later(Tasks3("service", "reset", "idle"), Calls \cup {"half", "crash"}),
     Later(Tasks3("service", "reset", "status"), {"half"})}

\* A first start where there is no background service.
FirstForeground == {First(Tasks3("foreground", "idle", "idle"), {})}
=============================================================================
