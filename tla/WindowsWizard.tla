--------------------------- MODULE WindowsWizard ---------------------------
(***************************************************************************)
(* The window of the Windows orchestrator (OrchestratorApp of              *)
(* windows/orchestrator/app/gui.py): the wizard, its startup threads, the  *)
(* tray and _shutdown.                                                     *)
(*                                                                         *)
(* "Back" is enabled on the pages "Installing" and "Done" too, and leads   *)
(* to the page whose "Next" runs the startup sequence.  Run again, it      *)
(* replaces the registry, the discovery service and the launcher of the    *)
(* sequence before it one after the other, while that one may still be     *)
(* under way and its threads go on with what they hold.                    *)
(*                                                                         *)
(* An operation of a launcher is one step here; what happens under its     *)
(* lock is module WindowsOrchestrator's matter, for one launcher.          *)
(***************************************************************************)
EXTENDS Naturals

CONSTANTS
    Pids,        \* llama-server processes
    NoProc,      \* a launcher's _proc is None
    MaxStartups  \* bound on the startup sequences

ASSUME WizardAssumption == NoProc \notin Pids /\ MaxStartups \in Nat

\* The threads that may run _shutdown, both at once too: the Tk thread, when the
\* window is closed, and the tray's.
Quitters == {"window", "tray"}

\* Startup sequences, with the registry, discovery service and
\* launcher that each makes.
Startups == 1 .. MaxStartups

VARIABLES
    page,       \* _step: 0 .. 4
    window,     \* "shown", "hidden" or "gone"
    tray,       \* _tray is set
    begun,      \* the startup sequences begun
    at,         \* where the thread of each is
    registry,   \* _registry: whose it is, 0 for None
    launcher,   \* _launcher
    source,     \* whose registry each launcher was given
    ran,        \* the launchers whose start() was called: they have a _conf
    proc,       \* _proc of each launcher
    alive,      \* the llama-servers that run
    pending,    \* the launchers with a restart thread under way
    stopping,   \* the launchers whose _stopping is set
    quit,       \* _shutdown in each: "no", "asked", "stopped" (the launcher is)
    behind      \* a launcher was started or restarted after that

uiVars == <<page, window, tray>>
appVars == <<registry, launcher>>
serverVars == <<proc, alive, stopping>>

vars == <<uiVars, begun, at, appVars, source, ran, serverVars,
          pending, quit, behind>>

Places == {"none",
           "started",  \* the thread's first steps
           "window",   \* asleep while workers are discovered
           "made",     \* the launcher is made and assigned
           "ready",    \* it runs, and the Tk thread has been told to say so
           "over",     \* finished, or the launch has failed
           "dead"}     \* the discovery service has raised

\* Types of every variable.
TypeOK ==
    /\ page \in 0 .. 4
    /\ window \in {"shown", "hidden", "gone"}
    /\ tray \in BOOLEAN
    /\ begun \in 0 .. MaxStartups
    /\ at \in [Startups -> Places]
    /\ registry \in 0 .. MaxStartups
    /\ launcher \in 0 .. MaxStartups
    /\ source \in [Startups -> 0 .. MaxStartups]
    /\ ran \subseteq Startups
    /\ proc \in [Startups -> Pids \cup {NoProc}]
    /\ alive \subseteq Pids
    /\ pending \subseteq Startups
    /\ stopping \subseteq Startups
    /\ quit \in [Quitters -> {"no", "asked", "stopped"}]
    /\ behind \in BOOLEAN

Init ==
    /\ page = 0
    /\ window = "shown"
    /\ tray = FALSE
    /\ begun = 0
    /\ at = [i \in Startups |-> "none"]
    /\ registry = 0
    /\ launcher = 0
    /\ source = [i \in Startups |-> 0]
    /\ ran = {}
    /\ proc = [i \in Startups |-> NoProc]
    /\ alive = {}
    /\ pending = {}
    /\ stopping = {}
    /\ quit = [w \in Quitters |-> "no"]
    /\ behind = FALSE

Up == window # "gone"

\* The main loop runs, for the user and for calls from other threads.
TkRuns == Up /\ quit["window"] = "no"

\* A _shutdown has stopped its launcher.
Stopped == \E w \in Quitters : quit[w] = "stopped"

UserActs == TkRuns /\ window = "shown"

Running(l) == proc[l] \in alive

-----------------------------------------------------------------------------
(* The launchers.                                                          *)

\* _launch puts a process into _proc, or raises or returns False before that.
Launched(l, p) ==
    /\ p \notin alive
    /\ proc' = [proc EXCEPT ![l] = p]
    /\ stopping' = stopping \ {l}

\* restart(), or a monitor that has seen a crash: _stop_internal and _launch,
\* which raises for a launcher that has no _conf.
Relaunch(l) ==
    \/ /\ proc' = [proc EXCEPT ![l] = NoProc]
       /\ alive' = alive \ {proc[l]}
       /\ UNCHANGED stopping
    \/ l \in ran /\ \E p \in Pids : Launched(l, p) /\ alive' = (alive \ {proc[l]}) \cup {p}

launcherFrame == <<uiVars, begun, at, appVars, source, ran, quit>>

\* on_change, from the browser of any startup's discovery; or "Restart
\* Inference Server" in the tray: a thread for the launcher of the moment.
AskRestart ==
    /\ Up
    /\ launcher # 0
    /\ \/ Running(launcher) /\ \E i \in Startups : at[i] \notin {"none", "started", "dead"}
       \/ tray /\ quit["tray"] = "no"
    /\ pending' = pending \cup {launcher}
    /\ UNCHANGED <<launcherFrame, serverVars, behind>>

Restart(l) ==
    /\ TkRuns
    /\ l \in pending
    /\ pending' = pending \ {l}
    /\ Relaunch(l)
    /\ behind' = (behind \/ Stopped)
    /\ UNCHANGED launcherFrame

\* A launcher's monitor, be it still _launcher or not.
Monitor(l) ==
    /\ TkRuns
    /\ proc[l] # NoProc /\ ~Running(l) /\ l \notin stopping
    /\ Relaunch(l)
    /\ behind' = (behind \/ Stopped)
    /\ UNCHANGED <<launcherFrame, pending>>

ServerExits(p) ==
    /\ p \in alive
    /\ alive' = alive \ {p}
    /\ UNCHANGED <<launcherFrame, proc, stopping, pending, behind>>

-----------------------------------------------------------------------------
(* The startup sequence, in a thread of its own.                           *)

startupFrame == <<window, tray, begun, pending, quit>>

Over(i) == at' = [at EXCEPT ![i] = "over"]

\* Its registry and its discovery service replace the ones there were, which
\* go on listening; the browser that start() makes may raise.
Discover(i) ==
    /\ TkRuns
    /\ at[i] = "started"
    /\ registry' = i
    /\ at' \in {[at EXCEPT ![i] = "window"], [at EXCEPT ![i] = "dead"]}
    /\ UNCHANGED <<startupFrame, page, launcher, source, ran, serverVars, behind>>

\* Mutant of MakeLauncher: the launcher is given the sequence's own registry.
MakeLauncherOfOwn(i) ==
    /\ TkRuns
    /\ at[i] = "window"
    /\ launcher' = i
    /\ source' = [source EXCEPT ![i] = i]
    /\ at' = [at EXCEPT ![i] = "made"]
    /\ UNCHANGED <<startupFrame, page, registry, ran, serverVars, behind>>

\* discovery_timeout is over: the launcher is given the registry that is
\* _registry by now, and replaces the one there was.
MakeLauncher(i) ==
    /\ TkRuns
    /\ at[i] = "window"
    /\ launcher' = i
    /\ source' = [source EXCEPT ![i] = registry]
    /\ at' = [at EXCEPT ![i] = "made"]
    /\ UNCHANGED <<startupFrame, page, registry, ran, serverVars, behind>>

\* start() of _launcher, read again.  It stops nothing.  It may raise, or
\* return False, after which a message box is all that happens.
StartServer(i) ==
    /\ TkRuns
    /\ at[i] = "made"
    /\ ran' = ran \cup {launcher}
    /\ \/ /\ \E p \in Pids : Launched(launcher, p) /\ alive' = alive \cup {p}
          /\ at' = [at EXCEPT ![i] = "ready"]
       \/ /\ Over(i)
          /\ UNCHANGED serverVars
    /\ behind' = (behind \/ Stopped)
    /\ UNCHANGED <<startupFrame, page, appVars, source>>

\* _on_startup_done: from whatever page, to the last one.
StartupDone(i) ==
    /\ TkRuns
    /\ at[i] = "ready"
    /\ Over(i)
    /\ page' = 4
    /\ UNCHANGED <<startupFrame, appVars, source, ran, serverVars, behind>>

-----------------------------------------------------------------------------
(* The user.                                                               *)

userFrame == <<appVars, source, ran, serverVars, pending, behind>>

\* "Next".  On the network page _save_config comes first, and if it raises
\* (a port that is no number, a disk that is full) that was all.  The model
\* page may complain and stay.
GoNext ==
    /\ UserActs
    /\ \/ /\ page \in {0, 1}
          /\ page' = page + 1
          /\ UNCHANGED <<begun, at>>
       \/ /\ page = 2 /\ begun < MaxStartups
          /\ page' = 3
          /\ begun' = begun + 1
          /\ at' = [at EXCEPT ![begun + 1] = "started"]
    /\ UNCHANGED <<userFrame, window, tray, quit>>

\* Mutant of GoBack: the button is not disabled on the first page.
GoBackFromFirst ==
    /\ UserActs
    /\ page' = page - 1
    /\ UNCHANGED <<userFrame, window, tray, begun, at, quit>>

\* "Back", on every page but the first.
GoBack ==
    /\ UserActs
    /\ page > 0
    /\ page' = page - 1
    /\ UNCHANGED <<userFrame, window, tray, begun, at, quit>>

\* "Finish"; or the close button, and yes to "Keep the orchestrator running in
\* the system tray?".  The former makes an icon even over one that is there.
Hide ==
    /\ UserActs
    /\ window' = "hidden"
    /\ tray' = TRUE
    /\ UNCHANGED <<userFrame, page, begun, at, quit>>

TrayShow ==
    /\ TkRuns /\ tray
    /\ window' = "shown"
    /\ UNCHANGED <<userFrame, page, tray, begun, at, quit>>

\* _shutdown, on the Tk thread or on the tray's, whether or not the other runs it.
Quit(w) ==
    /\ quit[w] = "no"
    /\ \/ w = "window" /\ UserActs
       \/ w = "tray" /\ tray /\ Up
    /\ quit' = [quit EXCEPT ![w] = "asked"]
    /\ UNCHANGED <<userFrame, uiVars, begun, at>>

\* Mutant of StopServer: the launcher is told to stop and not waited for.
StopFlagOnly(w) ==
    /\ Up /\ quit[w] = "asked"
    /\ quit' = [quit EXCEPT ![w] = "stopped"]
    /\ stopping' = stopping \cup ({launcher} \ {0})
    /\ UNCHANGED <<uiVars, begun, at, appVars, source, ran, proc, alive, pending,
                   behind>>

\* stop() of the launcher of the moment, if there is one.
StopServer(w) ==
    /\ Up /\ quit[w] = "asked"
    /\ quit' = [quit EXCEPT ![w] = "stopped"]
    /\ \/ launcher = 0 /\ UNCHANGED serverVars
       \/ /\ launcher # 0
          /\ proc' = [proc EXCEPT ![launcher] = NoProc]
          /\ alive' = alive \ {proc[launcher]}
          /\ stopping' = stopping \cup {launcher}
    /\ UNCHANGED <<uiVars, begun, at, appVars, source, ran, pending, behind>>

\* The current discovery and icon are stopped, the window is destroyed, for which
\* the tray's thread needs the main loop, and the program ends with all its
\* threads.
Leave(w) ==
    /\ Up /\ quit[w] = "stopped"
    /\ w = "tray" => TkRuns
    /\ window' = "gone"
    /\ tray' = FALSE
    /\ UNCHANGED <<userFrame, page, begun, at, quit>>

\* The other thread has stopped the discovery already, and stopping it again
\* raises.
LeaveRaises(w) ==
    /\ Up /\ \A v \in Quitters : quit[v] = "stopped"
    /\ quit' = [quit EXCEPT ![w] = "no"]
    /\ UNCHANGED <<userFrame, uiVars, begun, at>>

Terminated == ~Up /\ UNCHANGED vars

-----------------------------------------------------------------------------
User ==
    \/ GoNext \/ GoBack \/ Hide \/ TrayShow
    \/ \E w \in Quitters : Quit(w)

Startup(i) == Discover(i) \/ MakeLauncher(i) \/ StartServer(i) \/ StartupDone(i)

Next ==
    \/ User \/ AskRestart
    \/ \E w \in Quitters : StopServer(w) \/ Leave(w) \/ LeaveRaises(w)
    \/ \E i \in Startups : Startup(i) \/ Restart(i) \/ Monitor(i)
    \/ \E p \in Pids : ServerExits(p)
    \/ Terminated

Spec == Init /\ [][Next]_vars

-----------------------------------------------------------------------------
\* However startup sequences overlap, the launcher that tray, callbacks and
\* _shutdown use draws on the registry whose workers the application shows.
\* Only a sequence that has replaced the registry and has not come to its
\* launcher, or died before it, parts the two.
LauncherHasRegistry ==
    launcher # 0 /\ source[launcher] # registry => at[registry] \in {"window", "dead"}

\* The sequences that have come to make a launcher.
Made == {i \in Startups : at[i] \in {"made", "ready", "over"}}

OneMade == \A i, j \in Made : i = j

\* Quitting leaves no llama-server behind, whichever thread quits, or both at once,
\* and however often "Back" and "Next" have repeated a startup sequence that
\* failed to come to its launcher.  What excuses one is a second launcher, which takes the
\* place of the one that _shutdown should stop, and a thread that launches
\* behind stop() while the program leaves.
QuitLeavesNothing ==
    window = "gone" /\ OneMade /\ ~behind => alive = {}
=============================================================================
