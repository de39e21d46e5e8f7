------------------------- MODULE MCDesktopService -------------------------
(***************************************************************************)
(* TLC instances of DesktopService.  An older version's LaunchAgent is     *)
(* loaded, or this one's is installed with options 1; the commands are     *)
(* given relays 1 and 2 and would install options 1 or 2.                  *)
(***************************************************************************)
EXTENDS DesktopService, TLC

CONSTANTS c1, c2, c3

Three(x, y, z) == c1 :> x @@ c2 :> y @@ c3 :> z

Scenario(installed, kinds, relays, opts, happens) ==
    [installed |-> installed, kind |-> kinds, relay |-> relays, options |-> opts, may |-> happens, said |-> 0]

\* Earlier services have published so many states, so that fewer are left.
Later(published, scenario) == [scenario EXCEPT !.said = published]

NoRelay == Three(None, None, None)

Watched(second, happens) ==
    Scenario(TRUE, Three("status", second, "idle"), NoRelay, Three(1, 1, 1), {"states"} \cup happens)

Commanded ==
    {Scenario(FALSE, Three("start", "install", "idle"), Three(2, 1, None), Three(1, 2, 1), {"kill", "login", "launchctl"}),
     Scenario(TRUE, Three("start", "install", "restart"), Three(1, 2, None), Three(2, 1, 2), {"exit"}),
     Scenario(TRUE, Three("install", "stop", "start"), Three(2, None, 1), Three(2, 1, 2), {"exit"}),
     Scenario(TRUE, Three("install", "remove", "start"), Three(2, None, None), Three(2, 1, 1), {"login"}),
     Watched("idle", {}),
     Later(2, Watched("restart", {"exit"})),
     Later(1, Watched("serve", {"serve", "kill"})),
     Scenario(TRUE, Three("start", "pair", "status"), NoRelay, Three(1, 1, 1), {"visit", "close", "kill"})}
=============================================================================
