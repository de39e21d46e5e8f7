-------------------------- MODULE DesktopService --------------------------
(***************************************************************************)
(* The background service of the desktop agent on macOS: the job launchd   *)
(* keeps alive, the commands that install, start, stop and remove it, the  *)
(* panels, `serve`, the two files that tell where a panel and a service    *)
(* can be found and how the service is doing, and its user's notices.      *)
(*                                                                         *)
(* Every command is a process of its own, and takes no lock: a step is one *)
(* call of launchctl or one read or write of a file, and the steps of      *)
(* commands, of launchd and of the service come in any order.              *)
(***************************************************************************)
EXTENDS Integers, Sequences

CONSTANTS
    None,       \* no file, nothing
    Empty,      \* a file that has been truncated
    Mixed,      \* a file that nobody can read: one text over a longer one
    Commands,
    Scenarios,  \* the commands of a behaviour, what is there before them, what may go wrong
    MaxPids,    \* services launchd starts
    MaxChanges  \* states of the connection that services publish

Kinds == {"start", "pair", "install", "restart", "stop", "remove", "status", "serve", "idle"}

ASSUME ServiceAssumption ==
    /\ MaxPids \in Nat /\ MaxChanges \in Nat
    /\ None \notin Commands
    /\ \A s \in Scenarios :
          s.kind \in [Commands -> Kinds] /\ s.installed \in BOOLEAN /\ s.said \in 0..MaxChanges

VARIABLES
    kind,       \* command -> what it does
    relay,      \* command -> the relay it is given by flag or environment, or None
    options,    \* command -> the node, script, Codex and agent id it would install
    todo,       \* command -> the steps it has still to make
    forced,     \* command -> it restarts a service that runs
    seen,       \* command -> what it has read of a state file
    settings,   \* the stored relay, or None for the default one
    setter,     \* history: what stored it
    environment,\* the installed options, or None
    plist,      \* the LaunchAgent is installed
    legacy,     \* the LaunchAgent of an older version: "loaded", "file" or "gone"
    job,        \* launchd has the LaunchAgent loaded
    pids,       \* services started so far
    service,    \* the service that runs, with the relay and the options it has read, or None
    status,     \* what its RelayClient last published
    said,       \* how many states services have published
    writes,     \* those of this service whose write has not opened the file yet
    filling,    \* those whose write has truncated the file and not filled it
    stateFile,  \* the process and the state the service's file tells of
    serving,    \* commands that run as `serve`
    reporting,  \* those of them whose write has truncated the service's file
    timer,      \* the monitor's offline timer runs
    notified,   \* the monitor has told the user of an outage
    notice,     \* the last notice and the service that gave it
    panels,     \* commands that run a panel
    stopping,   \* those of them that have been told to stop
    cleared,    \* those that have stopped and removed the file
    panelFile,  \* the panel the other file tells of
    touching,   \* panels whose write has truncated that file
    may,        \* what may still happen besides: faults once each, "states", "close"
    failed      \* a command was ended or refused by one, or found no LaunchAgent to start

command == <<kind, relay, options>>
config == <<settings, setter>>
launchd == <<environment, plist, legacy, job>>
monitor == <<status, said, writes, filling, timer, notified, notice>>
process == <<pids, service, monitor>>
serve == <<serving, reporting>>
panel == <<panels, stopping, cleared, panelFile, touching>>
files == <<stateFile, serve, panel>>
faults == <<may, failed>>
vars == <<command, todo, forced, seen, config, launchd, process, files, faults>>

\* "resolving" and "retrying" are the connecting and reconnecting of a service without identity.
Statuses == {"none", "resolving", "retrying", "connecting", "online", "reconnecting"}
Down == status \in {"retrying", "reconnecting"}

Steps ==
    {"settings", "stopLegacy", "eraseLegacy", "environment", "plist", "look", "kickstart", "bootstrap",
     "bootout", "unlink", "loadState", "eraseState", "loadPanel", "erasePanel", "open", "touch", "fill",
     "serve", "report"}

Cleanup == <<"stopLegacy", "eraseLegacy">>
Install == Cleanup \o <<"environment", "plist">>
Start == Cleanup \o <<"look">>
LoadState == <<"loadState">>
Status == <<"loadPanel">> \o LoadState

Program(k) ==
    CASE k = "start" -> <<"settings">> \o Install \o Start \o <<"open">>
      [] k = "pair" -> <<"settings", "open">>
      [] k = "install" -> <<"settings">> \o Install \o Start \o LoadState
      [] k = "restart" -> Install \o Start \o Status
      [] k = "stop" -> <<"bootout">> \o Cleanup \o LoadState
      [] k = "remove" -> <<"bootout">> \o Cleanup \o <<"unlink">> \o LoadState
      [] k = "status" -> Status
      [] k = "serve" -> <<"serve">>
      [] k = "idle" -> <<>>

Init ==
    \E s \in Scenarios :
        /\ kind = s.kind /\ relay = s.relay /\ options = s.options
        /\ todo = [c \in Commands |-> Program(s.kind[c])]
        /\ forced = [c \in Commands |-> s.kind[c] \in {"install", "restart"}]
        /\ seen = [c \in Commands |-> None]
        /\ settings = None /\ setter = None
        /\ environment = IF s.installed THEN 1 ELSE None
        /\ plist = s.installed /\ job = s.installed
        /\ legacy = IF s.installed THEN "gone" ELSE "loaded"
        /\ pids = 0 /\ service = None
        /\ status = "none" /\ said = s.said /\ writes = {} /\ filling = {}
        /\ timer = FALSE /\ notified = FALSE /\ notice = None
        /\ stateFile = None /\ serving = {} /\ reporting = {}
        /\ panels = {} /\ stopping = {} /\ cleared = {} /\ panelFile = None /\ touching = {}
        /\ may = s.may /\ failed = FALSE
-----------------------------------------------------------------------------
(***************************************************************************)
(* Steps of a command.                                                     *)
(***************************************************************************)
Now(c, step) == todo[c] # <<>> /\ Head(todo[c]) = step

\* The step is made; steps come before the rest.
Then(c, steps) == todo' = [todo EXCEPT ![c] = steps \o Tail(@)]

\* The error reaches main, or the panel's request handler: nothing more is done.
Throws(c) == todo' = [todo EXCEPT ![c] = <<>>]

Fails(f) == f \in may /\ may' = may \ {f}
Succeeds == UNCHANGED faults

\* launchctl reports an error that is not ignored.
Refused(c) == Fails("launchctl") /\ failed' = TRUE /\ Throws(c)

\* The service's process is gone, and all it had in memory.
ServiceEnds ==
    /\ service' = None
    /\ status' = "none" /\ writes' = {} /\ filling' = {} /\ timer' = FALSE /\ notified' = FALSE
    /\ UNCHANGED <<pids, said, notice>>

\* shouldPersistRelayOverride: only what the user asked for is stored.
StoreSettings(c) ==
    /\ Now(c, "settings")
    /\ IF relay[c] = None THEN UNCHANGED config ELSE settings' = relay[c] /\ setter' = kind[c]
    /\ Then(c, <<>>)
    /\ UNCHANGED <<command, forced, seen, launchd, process, files, faults>>

\* cleanupLegacyLaunchAgents: a service that is not there is not an error.
StopLegacy(c) ==
    /\ Now(c, "stopLegacy")
    /\ \/ /\ Succeeds
          /\ legacy' = IF legacy = "loaded" THEN "file" ELSE legacy
          /\ Then(c, <<>>)
       \/ Refused(c) /\ UNCHANGED legacy
    /\ UNCHANGED <<command, forced, seen, config, environment, plist, job, process, files>>

\* Mutant of EraseLegacy: the older version's file stays.
EraseLegacyNot(c) ==
    /\ Now(c, "eraseLegacy")
    /\ Then(c, <<>>)
    /\ UNCHANGED <<command, forced, seen, config, launchd, process, files, faults>>

EraseLegacy(c) ==
    /\ Now(c, "eraseLegacy")
    /\ legacy' = IF legacy = "file" THEN "gone" ELSE legacy
    /\ Then(c, <<>>)
    /\ UNCHANGED <<command, forced, seen, config, environment, plist, job, process, files, faults>>

\* Mutant of IsChanged: only a new LaunchAgent counts.
IsChangedIfNew(c) == FALSE
\* syncLaunchAgentArtifacts: the environment file differs.
IsChanged(c) == environment # options[c]

WriteEnvironment(c) ==
    /\ Now(c, "environment")
    /\ environment' = options[c]
    /\ forced' = [forced EXCEPT ![c] = @ \/ IsChanged(c)]
    /\ Then(c, <<>>)
    /\ UNCHANGED <<command, seen, config, plist, legacy, job, process, files, faults>>

WritePlist(c) ==
    /\ Now(c, "plist")
    /\ plist' = TRUE
    /\ forced' = [forced EXCEPT ![c] = @ \/ ~plist]
    /\ Then(c, <<>>)
    /\ UNCHANGED <<command, seen, config, environment, legacy, job, process, files, faults>>

\* startLaunchAgent: what launchctl print tells decides which calls follow.
Look(c) ==
    /\ Now(c, "look")
    /\ \/ ~plist /\ failed' = TRUE /\ Throws(c)
       \/ /\ plist /\ UNCHANGED failed
          /\ Then(c, IF ~job THEN <<"bootstrap">>
                     ELSE IF service = None THEN <<"bootout", "bootstrap">>
                     ELSE IF forced[c] THEN <<"kickstart">> ELSE <<>>)
    /\ UNCHANGED <<command, forced, seen, config, launchd, process, files, may>>

\* launchctl kickstart -k: the process is killed, and launchd starts another.
Kickstart(c) ==
    /\ Now(c, "kickstart")
    /\ \/ job /\ Succeeds /\ ServiceEnds /\ Then(c, <<>>)
       \/ ~job /\ Succeeds /\ UNCHANGED process /\ Throws(c)
       \/ Refused(c) /\ UNCHANGED process
    /\ UNCHANGED <<command, forced, seen, config, launchd, files>>

Bootstrap(c) ==
    /\ Now(c, "bootstrap")
    /\ \/ plist /\ ~job /\ Succeeds /\ job' = TRUE /\ Then(c, <<>>)
       \/ (~plist \/ job) /\ Succeeds /\ UNCHANGED job /\ Throws(c)
       \/ Refused(c) /\ UNCHANGED job
    /\ UNCHANGED <<command, forced, seen, config, environment, plist, legacy, process, files>>

Bootout(c) ==
    /\ Now(c, "bootout")
    /\ \/ Succeeds /\ job' = FALSE /\ ServiceEnds /\ Then(c, <<>>)
       \/ Refused(c) /\ UNCHANGED <<job, process>>
    /\ UNCHANGED <<command, forced, seen, config, environment, plist, legacy, files>>

Unlink(c) ==
    /\ Now(c, "unlink")
    /\ plist' = FALSE
    /\ Then(c, <<>>)
    /\ UNCHANGED <<command, forced, seen, config, environment, legacy, job, process, files, faults>>

-----------------------------------------------------------------------------
(***************************************************************************)
(* The two state files.  Whoever reads one and finds that the process it   *)
(* tells of is dead removes it, in a second step; one that cannot be read  *)
(* counts as none.  A write truncates the file before it fills it, and     *)
(* what it writes is lost with a file that is removed in between.          *)
(***************************************************************************)
\* A text that is written over another, which may be the longer one.
Over(file, text) == IF file = Empty THEN {text} ELSE {text, Mixed}

Says(file) == file \notin {None, Empty, Mixed}

Runs(pid) == pid \in serving \/ (service # None /\ service.pid = pid)

\* Mutant of IsActive: a service that is not online counts as none.
IsActiveIfOnline(state) == Runs(state.pid) /\ status = "online"
IsActive(state) == Runs(state.pid)

ReadState(c) ==
    /\ Now(c, "loadState")
    /\ seen' = [seen EXCEPT ![c] = stateFile]
    /\ Then(c, IF Says(stateFile) /\ ~IsActive(stateFile) THEN <<"eraseState">> ELSE <<>>)
    /\ UNCHANGED <<command, forced, config, launchd, process, files, faults>>

EraseState(c) ==
    /\ Now(c, "eraseState")
    /\ stateFile' = None /\ filling' = {} /\ reporting' = {}
    /\ Then(c, <<>>)
    /\ UNCHANGED <<command, forced, seen, config, launchd, pids, service, status, said, writes, timer,
                   notified, notice, serving, panel, faults>>

\* The process of `serve`, whose relay client reports to a monitor of its own and writes this file too.
Serve(c) ==
    /\ Now(c, "serve")
    /\ serving' = serving \cup {c}
    /\ Then(c, <<>>)
    /\ UNCHANGED <<command, forced, seen, config, launchd, process, stateFile, reporting, panel, faults>>

ServeReports(c) ==
    /\ c \in serving /\ todo[c] = <<>>
    /\ "serve" \in may /\ may' = may \ {"serve"}
    /\ stateFile' = Empty
    /\ reporting' = reporting \cup {c}
    /\ todo' = [todo EXCEPT ![c] = <<"report">>]
    /\ UNCHANGED <<command, forced, seen, config, launchd, process, serving, panel, failed>>

ServeWrites(c) ==
    /\ Now(c, "report")
    /\ stateFile' \in IF c \in reporting THEN Over(stateFile, [pid |-> c, said |-> 0]) ELSE {stateFile}
    /\ reporting' = reporting \ {c}
    /\ Then(c, <<>>)
    /\ UNCHANGED <<command, forced, seen, config, launchd, process, serving, panel, faults>>

ReadPanel(c) ==
    /\ Now(c, "loadPanel")
    /\ seen' = [seen EXCEPT ![c] = panelFile]
    /\ Then(c, IF Says(panelFile) /\ panelFile \notin panels THEN <<"erasePanel">> ELSE <<>>)
    /\ UNCHANGED <<command, forced, config, launchd, process, files, faults>>

ErasePanel(c) ==
    /\ Now(c, "erasePanel")
    /\ panelFile' = None /\ touching' = {}
    /\ Then(c, <<>>)
    /\ UNCHANGED <<command, forced, seen, config, launchd, process, stateFile, serve, panels, stopping,
                   cleared, faults>>

OpenPanel(c) ==
    /\ Now(c, "open")
    /\ panels' = panels \cup {c}
    /\ panelFile' = Empty /\ touching' = touching \cup {c}
    /\ Then(c, <<"fill">>)
    /\ UNCHANGED <<command, forced, seen, config, launchd, process, stateFile, serve, stopping, cleared,
                   faults>>

\* touchHeartbeat, after every request: a panel that finds itself in the file writes it again.
ReadHeartbeat(c) ==
    /\ c \in panels /\ todo[c] = <<>> /\ panelFile = c
    /\ "visit" \in may /\ may' = may \ {"visit"}
    /\ todo' = [todo EXCEPT ![c] = <<"touch">>]
    /\ UNCHANGED <<command, forced, seen, config, launchd, process, files, failed>>

Touch(c) ==
    /\ Now(c, "touch")
    /\ panelFile' = Empty /\ touching' = touching \cup {c}
    /\ Then(c, <<"fill">>)
    /\ UNCHANGED <<command, forced, seen, config, launchd, process, stateFile, serve, panels, stopping,
                   cleared, faults>>

FillPanel(c) ==
    /\ Now(c, "fill")
    /\ panelFile' \in IF c \in touching THEN Over(panelFile, c) ELSE {panelFile}
    /\ touching' = touching \ {c}
    /\ Then(c, <<>>)
    /\ UNCHANGED <<command, forced, seen, config, launchd, process, stateFile, serve, panels, stopping,
                   cleared, faults>>

\* SIGINT: stop waits for the server to close, not for a heartbeat that is under way.
StopPanel(c) ==
    /\ c \in panels \ (stopping \cup cleared) /\ "close" \in may
    /\ stopping' = stopping \cup {c}
    /\ UNCHANGED <<command, todo, forced, seen, config, launchd, process, stateFile, serve, panels,
                   cleared, panelFile, touching, faults>>

\* It removes the file, whoever wrote it.
ClearPanel(c) ==
    /\ c \in stopping
    /\ panelFile' = None /\ touching' = {}
    /\ stopping' = stopping \ {c} /\ cleared' = cleared \cup {c}
    /\ UNCHANGED <<command, todo, forced, seen, config, launchd, process, stateFile, serve, panels, faults>>

PanelExits(c) ==
    /\ c \in cleared
    /\ panels' = panels \ {c} /\ cleared' = cleared \ {c} /\ touching' = touching \ {c}
    /\ todo' = [todo EXCEPT ![c] = <<>>]
    /\ UNCHANGED <<command, forced, seen, config, launchd, process, stateFile, serve, stopping, panelFile,
                   faults>>

-----------------------------------------------------------------------------
(***************************************************************************)
(* The service.                                                            *)
(***************************************************************************)
\* launchd runs the wrapper script, which reads the environment file; loadMacAgentConfig reads the
\* settings.
ServiceStarts ==
    /\ job /\ service = None /\ pids < MaxPids
    /\ pids' = pids + 1
    /\ service' = [pid |-> pids + 1, relay |-> settings, options |-> environment]
    /\ UNCHANGED <<command, todo, forced, seen, config, launchd, monitor, files, faults>>

\* A reconnect tells of itself as "reconnecting" until it has succeeded.
Successors ==
    [none |-> {"resolving"}, resolving |-> {"retrying", "connecting"},
     retrying |-> {"retrying", "connecting"}, connecting |-> {"online", "reconnecting"},
     online |-> {"reconnecting"}, reconnecting |-> {"reconnecting", "online"}]

\* scheduleOfflineNotification.
SchedulesNotice == timer' = (timer \/ ~notified) /\ UNCHANGED <<notified, notice>>

\* Mutant of Recovers: the next outage counts as told.
RecoversSilently ==
    /\ timer' = FALSE
    /\ notice' = IF notified THEN [by |-> service.pid, of |-> "recovered"] ELSE notice
    /\ UNCHANGED notified

Recovers ==
    /\ timer' = FALSE /\ notified' = FALSE
    /\ notice' = IF notified THEN [by |-> service.pid, of |-> "recovered"] ELSE notice

\* onStateChanged: the write is started and not awaited.
StateChanges(next) ==
    /\ service # None /\ "states" \in may /\ said < MaxChanges
    /\ next \in Successors[status]
    /\ status' = next
    /\ said' = said + 1
    /\ writes' = writes \cup {said + 1}
    /\ CASE next = "online" -> Recovers
         [] next \in {"retrying", "reconnecting"} -> SchedulesNotice
         [] next \in {"resolving", "connecting"} -> timer' = FALSE /\ UNCHANGED <<notified, notice>>
    /\ UNCHANGED <<command, todo, forced, seen, config, launchd, pids, service, filling, files, faults>>

\* A write opens the file when it has read it, and several go on side by side, in any order.
StateOpened(w) ==
    /\ w \in writes
    /\ writes' = writes \ {w}
    /\ filling' = filling \cup {w}
    /\ stateFile' = Empty
    /\ UNCHANGED <<command, todo, forced, seen, config, launchd, pids, service, status, said, timer,
                   notified, notice, serve, panel, faults>>

StateWritten(w) ==
    /\ w \in filling
    /\ filling' = filling \ {w}
    /\ stateFile' \in Over(stateFile, [pid |-> service.pid, said |-> w])
    /\ UNCHANGED <<command, todo, forced, seen, config, launchd, pids, service, status, said, writes,
                   timer, notified, notice, serve, panel, faults>>

TimerFires ==
    /\ timer
    /\ timer' = FALSE
    /\ IF Down THEN notified' = TRUE /\ notice' = [by |-> service.pid, of |-> "offline"]
               ELSE UNCHANGED <<notified, notice>>
    /\ UNCHANGED <<command, todo, forced, seen, config, launchd, pids, service, status, said, writes,
                   filling, files, faults>>

-----------------------------------------------------------------------------
(***************************************************************************)
(* Faults.                                                                 *)
(***************************************************************************)
ServiceExits ==
    /\ service # None /\ Fails("exit")
    /\ ServiceEnds
    /\ UNCHANGED <<command, todo, forced, seen, config, launchd, files, failed>>

CommandKilled(c) ==
    /\ todo[c] # <<>> \/ c \in panels \/ c \in serving
    /\ Fails("kill") /\ failed' = TRUE
    /\ todo' = [todo EXCEPT ![c] = <<>>]
    /\ serving' = serving \ {c} /\ reporting' = reporting \ {c}
    /\ panels' = panels \ {c} /\ stopping' = stopping \ {c} /\ cleared' = cleared \ {c}
    /\ touching' = touching \ {c}
    /\ UNCHANGED <<command, forced, seen, config, launchd, process, stateFile, panelFile>>

\* The machine is restarted: at login launchd loads what is in the LaunchAgents directory.
Login ==
    /\ Fails("login") /\ failed' = TRUE
    /\ job' = plist
    /\ legacy' = IF legacy = "file" THEN "loaded" ELSE legacy
    /\ ServiceEnds
    /\ todo' = [c \in Commands |-> <<>>]
    /\ serving' = {} /\ reporting' = {}
    /\ panels' = {} /\ stopping' = {} /\ cleared' = {} /\ touching' = {}
    /\ UNCHANGED <<command, forced, seen, config, environment, plist, stateFile, panelFile>>

Step(c) ==
    \/ StoreSettings(c) \/ StopLegacy(c) \/ EraseLegacy(c) \/ WriteEnvironment(c) \/ WritePlist(c)
    \/ Look(c) \/ Kickstart(c) \/ Bootstrap(c) \/ Bootout(c) \/ Unlink(c) \/ ReadState(c)
    \/ EraseState(c) \/ ReadPanel(c) \/ ErasePanel(c) \/ OpenPanel(c) \/ Touch(c) \/ FillPanel(c)
    \/ Serve(c) \/ ServeWrites(c)

Next ==
    \/ \E c \in Commands :
          \/ Step(c) \/ ReadHeartbeat(c) \/ ServeReports(c) \/ CommandKilled(c)
          \/ StopPanel(c) \/ ClearPanel(c) \/ PanelExits(c)
    \/ ServiceStarts \/ TimerFires \/ ServiceExits \/ Login
    \/ \E next \in Statuses : StateChanges(next)
    \/ \E w \in 1..MaxChanges : StateOpened(w) \/ StateWritten(w)

Spec == Init /\ [][Next]_vars

\* Commands go on, launchd keeps the service alive, its timer fires and its writes end.
Fairness ==
    /\ \A c \in Commands : WF_vars(Step(c))
    /\ WF_vars(ServiceStarts) /\ WF_vars(TimerFires)
    /\ \A w \in 1..MaxChanges : WF_vars(StateOpened(w)) /\ WF_vars(StateWritten(w))

FairSpec == Spec /\ Fairness

-----------------------------------------------------------------------------
(***************************************************************************)
(* Properties.                                                             *)
(***************************************************************************)
TypeOK ==
    /\ kind \in [Commands -> Kinds] /\ todo \in [Commands -> Seq(Steps)] /\ forced \in [Commands -> BOOLEAN]
    /\ plist \in BOOLEAN /\ legacy \in {"loaded", "file", "gone"} /\ job \in BOOLEAN
    /\ pids \in 0..MaxPids /\ said \in 0..MaxChanges /\ writes \subseteq 1..said /\ filling \subseteq 1..said
    /\ service = None \/ service.pid \in 1..pids
    /\ writes \cup filling # {} => service # None
    /\ status \in Statuses /\ timer \in BOOLEAN /\ notified \in BOOLEAN
    /\ \/ stateFile \in {None, Empty, Mixed}
       \/ stateFile.pid \in (1..pids) \cup Commands /\ stateFile.said \in 0..said
    /\ serving \subseteq Commands /\ reporting \subseteq Commands
    /\ panels \subseteq Commands /\ stopping \subseteq panels /\ cleared \subseteq panels \ stopping
    /\ panelFile \in Commands \cup {None, Empty, Mixed} /\ touching \subseteq Commands

\* The LaunchAgent of an older version is never loaded beside this one, wherever an installation
\* was broken off and the machine restarted.
NeverBoth == ~(job /\ legacy = "loaded")

Quiet == \A c \in Commands : todo[c] = <<>>
Starting == {"start", "install", "restart"}
OnlyStarts ==
    /\ \E c \in Commands : kind[c] \in Starting
    /\ \A c \in Commands : kind[c] \notin {"stop", "remove"}

\* When every command has ended and none was refused, killed or without a LaunchAgent to start, launchd
\* has the job if all they did was to start it, and the service runs with the options installed last
\* and, if a command that restarts the service stored it, with the relay stored last, whichever
\* commands ran side by side.
RunsLatest ==
    Quiet /\ ~failed =>
        /\ OnlyStarts => job
        /\ service # None => /\ service.options = environment
                             /\ service.relay = settings \/ setter \in {"start", "pair"}

\* While the service runs and writes nothing, its file tells of it and of the state it published last.
StateFileTrue ==
    service # None /\ status # "none" /\ writes \cup filling = {} =>
        stateFile = [pid |-> service.pid, said |-> said]

\* While a panel is open and none is being written, the file of panels tells of an open one.
Open == panels \ (stopping \cup cleared)
PanelFileTrue == Open # {} /\ touching = {} => panelFile \in Open

\* A file goes wrong only where two are at it at once, that is where a write ends that has overtaken
\* another, or has written over one, and where a reader removes what was written after it had looked;
\* where `serve` reports beside the service; and where of two panels one is stopped or killed.
FilesDrift ==
    [][/\ StateFileTrue /\ ~StateFileTrue' =>
             \/ \E w \in filling : StateWritten(w) /\ (w < said \/ stateFile # Empty)
             \/ \E c \in Commands : EraseState(c) /\ (seen[c] # stateFile \/ filling # {})
             \/ \E c \in Commands : ServeReports(c) \/ ServeWrites(c)
       /\ PanelFileTrue /\ ~PanelFileTrue' =>
             \/ \E c \in Commands : FillPanel(c) /\ (panelFile # Empty \/ c \notin Open)
             \/ \E c \in Commands : ErasePanel(c) /\ (seen[c] # panelFile \/ touching # {})
             \/ \E c \in Commands : StopPanel(c) \/ ClearPanel(c) \/ PanelExits(c) \/ CommandKilled(c)]_vars

\* An outage that lasts is announced, the second as the first.
OutageIsAnnounced ==
    Down ~> (~Down \/ notice = [by |-> service.pid, of |-> "offline"])

=============================================================================
