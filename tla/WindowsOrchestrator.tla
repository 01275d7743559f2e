------------------------ MODULE WindowsOrchestrator ------------------------
(***************************************************************************)
(* The Windows orchestrator (windows/orchestrator/app): the same registry  *)
(* and launcher as the container's, but driven by threads.                 *)
(*                                                                         *)
(*   - zeroconf's browser thread calls the listener, and through it the    *)
(*     registry and on_change, all within the registry's lock;             *)
(*   - a thread for the startup sequence, one for every restart, and one   *)
(*     monitor for every server launched compete for InferenceLauncher's   *)
(*     lock, a threading.Lock granted in no particular order;              *)
(*   - the Tk thread runs the main loop.  A Tk call from another thread    *)
(*     waits until the main loop takes it, and every _notify is one;       *)
(*   - _shutdown runs in the Tk thread, when the window is closed, in the  *)
(*     tray's thread, on "Quit" there, or in both at once.                 *)
(*                                                                         *)
(* The labels of the services are the node_names, as Windows nodes and     *)
(* sidecars advertise them.  Nobody calls prune_stale() here.              *)
(***************************************************************************)
EXTENDS WorkerRegistry

CONSTANTS
    Pids,       \* process identities
    NoProc,     \* _proc is None
    MaxThreads  \* bound on restart and monitor threads together

ASSUME WindowsAssumption ==
    /\ NoProc \notin Pids
    /\ MaxThreads \in Nat

VARIABLES
    known,      \* services the browser has reported
    listening,  \* the browser's thread is alive
    stage,      \* the startup thread: "window", "asking", "started"
    quit,       \* _shutdown in the Tk thread and in the tray's
    holder,     \* who holds the launcher's lock
    step,       \* where the holder is
    pending,    \* restart threads that wait for the lock
    watchers,   \* monitor threads in their loop
    crashers,   \* monitor threads that saw a crash and wait for the lock
    stopping,   \* _stopping
    snap,       \* the --rpc list of the last _build_cmd
    skipped,    \* the registered names it left out as stale
    missed,     \* a change since then that asked for no restart
    proc,       \* _proc
    alive,      \* the llama-servers that run
    cmd         \* the --rpc list of each

threadVars == <<pending, watchers, crashers>>
procVars == <<proc, alive, cmd>>
lockVars == <<holder, step>>
appVars == <<known, listening, stage, quit, stopping>>
listVars == <<snap, skipped, missed>>

vars == <<registryVars, threadVars, procVars, lockVars, appVars, listVars>>

\* The threads that may run _shutdown: the Tk thread and the tray's.
Quitters == {"window", "tray"}

QuitStages == {"no",          \* does not run
               "asked",       \* in launcher.stop()
               "leaving",     \* past it
               "destroying",  \* discovery and tray stopped, at destroy()
               "gone"}        \* the main loop has ended

Holders == {"none", "start", "restart", "crash"} \cup Quitters

Steps == {"drain",     \* in _stop_internal
          "asleep",    \* restart()'s sleep(1)
          "build",     \* at the top of _launch
          "announce",  \* in the _notify before Popen
          "spawn",     \* at Popen
          "report"}    \* in the last _notify

\* Types of every variable.
TypeOK ==
    /\ RegistryTypeOK
    /\ known \subseteq Names
    /\ listening \in BOOLEAN
    /\ stage \in {"window", "asking", "started"}
    /\ quit \in [Quitters -> QuitStages]
    /\ holder \in Holders
    /\ step \in Steps
    /\ pending \in Nat
    /\ watchers \in Nat
    /\ crashers \in Nat
    /\ stopping \in BOOLEAN
    /\ snap \in Rosters
    /\ skipped \subseteq Names
    /\ missed \in BOOLEAN
    /\ proc \in Pids \cup {NoProc}
    /\ alive \subseteq Pids
    /\ cmd \in [Pids -> Rosters]

Init ==
    /\ RegistryInit
    /\ known = {}
    /\ listening = TRUE
    /\ stage = "window"
    /\ quit = [w \in Quitters |-> "no"]
    /\ holder = "none"
    /\ step = "drain"
    /\ pending = 0
    /\ watchers = 0
    /\ crashers = 0
    /\ stopping = FALSE
    /\ snap = NoRoster
    /\ skipped = {}
    /\ missed = FALSE
    /\ proc = NoProc
    /\ alive = {}
    /\ cmd = [p \in Pids |-> NoRoster]

Up == \A w \in Quitters : quit[w] # "gone"

Running == proc \in alive

Free == holder = "none"

\* Bound: no thread is added beyond MaxThreads.
Room == pending + watchers + crashers < MaxThreads

\* The main loop takes calls from other threads, unless _shutdown runs in it.
TkAnswers == quit["window"] = "no"

-----------------------------------------------------------------------------
(* The browser's thread.                                                   *)

Hears == Up /\ listening

\* _on_worker_change: a restart thread, if the server runs now.  `running`
\* reads _proc twice, and raises when _stop_internal clears it in between.
OnChange ==
    \/ /\ Running
       /\ pending' = pending + 1
       /\ UNCHANGED <<missed, listening>>
    \/ /\ ~Running
       /\ missed' = TRUE
       /\ UNCHANGED <<pending, listening>>
    \/ /\ ~Free /\ step = "drain" /\ proc # NoProc
       /\ listening' = FALSE
       /\ missed' = TRUE
       /\ UNCHANGED pending

NoChange == UNCHANGED <<pending, missed, listening>>

browserFrame == <<watchers, crashers, procVars, lockVars, stage, quit, stopping,
                  snap, skipped>>

\* Mutant of AddService: a join does not call on_change.
AddServiceQuietly(n) ==
    /\ Hears /\ Room
    /\ n \notin known
    /\ known' = known \cup {n}
    /\ \E e \in Endpoints : Register(n, e)
    /\ NoChange
    /\ UNCHANGED browserFrame

\* add_service: a service that resolves is registered, and is a change if it
\* is new; one that does not resolve is forgotten.
AddService(n) ==
    /\ Hears /\ Room
    /\ n \notin known
    /\ known' = known \cup {n}
    /\ \/ /\ \E e \in Endpoints : Register(n, e)
          /\ IF n \in Registered THEN NoChange ELSE OnChange
       \/ NoChange /\ UNCHANGED registryVars
    /\ UNCHANGED browserFrame

\* update_service of a service that resolves.
UpdateService(n) ==
    /\ Hears
    /\ n \in known
    /\ Touch(n)
    /\ NoChange
    /\ UNCHANGED <<known, browserFrame>>

\* remove_service.
RemoveService(n) ==
    /\ Hears /\ Room
    /\ n \in known
    /\ known' = known \ {n}
    /\ Unregister(n)
    /\ IF n \in Registered THEN OnChange ELSE NoChange
    /\ UNCHANGED browserFrame

Silence(n) ==
    /\ Up
    /\ GoStale(n)
    /\ NoChange
    /\ UNCHANGED <<known, browserFrame>>

-----------------------------------------------------------------------------
(* InferenceLauncher, under its lock.                                      *)

lockFrame == <<registryVars, known, listening>>

Take(h, s) ==
    /\ Up /\ Free
    /\ holder' = h
    /\ step' = s

\* The lock is released.
Release == holder' = "none" /\ UNCHANGED step

At(s) == Up /\ ~Free /\ step = s

\* start(), from the startup thread.
TakeStart ==
    /\ stage = "asking"
    /\ Take("start", "build")
    /\ stage' = "started"
    /\ UNCHANGED <<lockFrame, threadVars, procVars, listVars, quit, stopping>>

TakeRestart ==
    /\ pending > 0
    /\ Take("restart", "drain")
    /\ pending' = pending - 1
    /\ UNCHANGED <<lockFrame, watchers, crashers, procVars, listVars, stage, quit,
                   stopping>>

\* Mutant of TakeCrash: the monitor launches without _stop_internal.
TakeCrashToLaunch ==
    /\ crashers > 0
    /\ Take("crash", "build")
    /\ crashers' = crashers - 1
    /\ UNCHANGED <<lockFrame, pending, watchers, procVars, listVars, stage, quit,
                   stopping>>

\* A monitor relaunches the server that it saw dead before it had the lock.
TakeCrash ==
    /\ crashers > 0
    /\ Take("crash", "drain")
    /\ crashers' = crashers - 1
    /\ UNCHANGED <<lockFrame, pending, watchers, procVars, listVars, stage, quit,
                   stopping>>

\* Mutant of TakeStop: stop() goes on only when a server runs.
TakeStopIfRunning(w) ==
    /\ quit[w] = "asked"
    /\ Running
    /\ Take(w, "drain")
    /\ UNCHANGED <<lockFrame, threadVars, procVars, listVars, stage, quit, stopping>>

TakeStop(w) ==
    /\ quit[w] = "asked"
    /\ Take(w, "drain")
    /\ UNCHANGED <<lockFrame, threadVars, procVars, listVars, stage, quit, stopping>>

\* _stop_internal: TerminateProcess ends a process at once.
Drain ==
    /\ At("drain")
    /\ alive' = alive \ {proc}
    /\ cmd' = [p \in Pids |-> IF p = proc THEN NoRoster ELSE cmd[p]]
    /\ proc' = NoProc
    /\ \/ /\ holder = "restart"
          /\ step' = "asleep"
          /\ UNCHANGED <<holder, quit>>
       \/ /\ holder = "crash"
          /\ step' = "build"
          /\ UNCHANGED <<holder, quit>>
       \/ /\ holder \in Quitters
          /\ Release
          /\ quit' = [quit EXCEPT ![holder] = "leaving"]
    /\ UNCHANGED <<lockFrame, threadVars, listVars, stage, stopping>>

WakeUp ==
    /\ At("asleep")
    /\ step' = "build"
    /\ UNCHANGED <<lockFrame, threadVars, procVars, listVars, stage, quit, holder,
                   stopping>>

\* Mutant of Build: a restart waits for start() to set _conf, with the lock.
BuildNeedsConf ==
    /\ At("build") /\ stage # "asking"
    /\ step' = "announce"
    /\ snap' = ActiveRoster
    /\ skipped' = Registered \cap stale
    /\ missed' = FALSE
    /\ UNCHANGED <<lockFrame, threadVars, procVars, stage, quit, holder, stopping>>

\* _launch up to its first _notify: the model is missing, or the command line
\* is built.  Before start() there is no _conf to look at, and restart() raises.
Build ==
    /\ At("build")
    /\ \/ /\ stage = "asking"
          /\ Release
          /\ UNCHANGED listVars
       \/ /\ stage # "asking"
          /\ step' = "report"
          /\ UNCHANGED <<listVars, holder>>
       \/ /\ stage # "asking"
          /\ step' = "announce"
          /\ snap' = ActiveRoster
          /\ skipped' = Registered \cap stale
          /\ missed' = FALSE
          /\ UNCHANGED holder
    /\ UNCHANGED <<lockFrame, threadVars, procVars, stage, quit, stopping>>

\* The main loop takes the call.
Announce ==
    /\ At("announce") /\ TkAnswers
    /\ step' = "spawn"
    /\ UNCHANGED <<lockFrame, threadVars, procVars, listVars, stage, quit, holder,
                   stopping>>

\* Popen: a process, with a monitor of its own; or FileNotFoundError, reported;
\* or another error, raised through the lock.
Spawn ==
    /\ At("spawn")
    /\ \/ /\ \E p \in Pids \ alive :
                /\ proc' = p
                /\ alive' = alive \cup {p}
                /\ cmd' = [cmd EXCEPT ![p] = snap]
          /\ watchers' = watchers + 1
          /\ stopping' = FALSE
          /\ step' = "report"
          /\ UNCHANGED holder
       \/ /\ step' = "report"
          /\ UNCHANGED <<holder, procVars, watchers, stopping>>
       \/ Release /\ UNCHANGED <<procVars, watchers, stopping>>
    /\ UNCHANGED <<lockFrame, pending, crashers, listVars, stage, quit>>

\* The last _notify is taken and the lock released.
Report ==
    /\ At("report") /\ TkAnswers
    /\ Release
    /\ UNCHANGED <<lockFrame, threadVars, procVars, listVars, stage, quit, stopping>>

-----------------------------------------------------------------------------
(* Monitors, the server, the user.                                         *)

monitorFrame == <<registryVars, pending, procVars, lockVars, appVars, listVars>>

\* Mutant of MonitorSees: a monitor outlives the crash that it reports.
MonitorSeesAgain ==
    /\ Up /\ TkAnswers
    /\ ~stopping
    /\ proc # NoProc /\ ~Running
    /\ watchers' = watchers - 1
    /\ crashers' = crashers + 1
    /\ UNCHANGED monitorFrame

\* A monitor wakes up, finds _proc dead, whichever server that is, and says so.
MonitorSees ==
    /\ Up /\ TkAnswers
    /\ watchers > 0
    /\ ~stopping
    /\ proc # NoProc /\ ~Running
    /\ watchers' = watchers - 1
    /\ crashers' = crashers + 1
    /\ UNCHANGED monitorFrame

\* A monitor sees _stopping, or raises because _proc is cleared between two
\* reads of it.
MonitorEnds ==
    /\ Up
    /\ watchers > 0
    /\ stopping \/ (~Free /\ step = "drain" /\ proc # NoProc)
    /\ watchers' = watchers - 1
    /\ UNCHANGED <<monitorFrame, crashers>>

ServerExits(p) ==
    /\ Up
    /\ p \in alive
    /\ alive' = alive \ {p}
    /\ cmd' = [cmd EXCEPT ![p] = NoRoster]
    /\ UNCHANGED <<registryVars, threadVars, proc, lockVars, appVars, listVars>>

\* discovery_timeout is over: the launcher exists and start() is called.
WindowEnds ==
    /\ Up
    /\ stage = "window"
    /\ stage' = "asking"
    /\ UNCHANGED <<registryVars, threadVars, procVars, lockVars, listVars, known,
                   listening, quit, stopping>>

\* "Restart Inference Server" in the tray, whose thread runs one callback at a
\* time.
TrayRestart ==
    /\ Up /\ quit["tray"] = "no" /\ Room
    /\ stage # "window"
    /\ pending' = pending + 1
    /\ UNCHANGED <<registryVars, watchers, crashers, procVars, lockVars, appVars,
                   listVars>>

\* _shutdown begins, whether or not the other thread runs it too:
\* launcher.stop() raises its flag and asks for the lock.
Quit(w) ==
    /\ Up /\ quit[w] = "no"
    /\ \/ /\ stage = "window"
          /\ quit' = [quit EXCEPT ![w] = "leaving"]
          /\ UNCHANGED stopping
       \/ /\ stage # "window"
          /\ quit' = [quit EXCEPT ![w] = "asked"]
          /\ stopping' = TRUE
    /\ UNCHANGED <<registryVars, threadVars, procVars, lockVars, listVars, known,
                   listening, stage>>

\* discovery.stop() and tray.stop().  Where the other thread has closed
\* zeroconf already, the second time may raise, which ends this _shutdown.
Leave(w) ==
    /\ Up /\ quit[w] = "leaving"
    /\ listening' = FALSE
    /\ \/ quit' = [quit EXCEPT ![w] = "destroying"]
       \/ /\ \E v \in Quitters : quit[v] = "destroying"
          /\ quit' = [quit EXCEPT ![w] = "no"]
    /\ UNCHANGED <<registryVars, threadVars, procVars, lockVars, listVars, known,
                   stage, stopping>>

\* destroy(), for which the tray's thread too needs the main loop, ends that, and
\* with it the program: its threads are daemons.
Destroy(w) ==
    /\ Up /\ quit[w] = "destroying"
    /\ w = "tray" => TkAnswers
    /\ quit' = [quit EXCEPT ![w] = "gone"]
    /\ UNCHANGED <<registryVars, threadVars, procVars, lockVars, listVars, known,
                   listening, stage, stopping>>

Terminated == ~Up /\ UNCHANGED vars

-----------------------------------------------------------------------------
Environment ==
    \/ \E n \in Names : AddService(n) \/ UpdateService(n) \/ RemoveService(n)
                         \/ Silence(n)
    \/ \E p \in Pids : ServerExits(p)
    \/ TrayRestart
    \/ \E w \in Quitters : Quit(w)

HolderStep == Drain \/ WakeUp \/ Build \/ Announce \/ Spawn \/ Report

TakeLock ==
    TakeStart \/ TakeRestart \/ TakeCrash \/ (\E w \in Quitters : TakeStop(w))

Next ==
    \/ Environment \/ HolderStep \/ TakeLock
    \/ MonitorSees \/ MonitorEnds \/ WindowEnds
    \/ \E w \in Quitters : Leave(w) \/ Destroy(w)
    \/ Terminated

Spec == Init /\ [][Next]_vars

QuitFairness(w) ==
    SF_vars(TakeStop(w)) /\ WF_vars(Leave(w)) /\ WF_vars(Destroy(w))

\* Threads run, sleeps end, a waiter for a lock that is given back again and
\* again has it in the end, and discovery and the main loop stop.
FairSpec ==
    /\ Spec
    /\ WF_vars(HolderStep)
    /\ WF_vars(WindowEnds)
    /\ QuitFairness("window") /\ QuitFairness("tray")

-----------------------------------------------------------------------------
(* Correctness.                                                            *)

Orphans == alive \ {proc}

\* However starts, restarts, crash handlers and stop() come by the lock, the
\* launcher never loses hold of a live llama-server.
SoleServer == Orphans = {}

Served(p) == {n \in Names : cmd[p][n] # None}

\* No thread holds the lock, waits for it, or is about to.
AtRest == Free /\ pending = 0 /\ crashers = 0 /\ stage = "started"

\* At rest the server was started with the registered workers, less those that
\* were stale then, unless a change came while no server ran: between
\* _build_cmd and Popen `running` is false, and such a change is not followed
\* by a restart.
RosterServedUnlessMissed ==
    AtRest /\ Running /\ ~missed => Registered = Served(proc) \cup skipped

\* "When workers join or leave, the inference server restarts automatically"
\* (README.md:48), the changes above included.  The code does not keep this.
RosterServed ==
    AtRest /\ Running => Registered = Served(proc) \cup skipped

\* Who quits from the tray is done: stop() gets the lock past every thread that
\* competes for it, the server is stopped, the program ends; unless the window is
\* closed meanwhile, and _shutdown runs in the Tk thread too.
TrayQuitCompletes == quit["tray"] = "asked" ~> ~Up \/ ~TkAnswers

\* Whoever has the lock gives it back, whatever it finds: a missing model, no
\* configuration, no executable; unless the Tk thread is in _shutdown, for
\* _notify waits for it.
LockComesBack == ~Free ~> Free \/ ~TkAnswers \/ ~Up

\* The guards of the lock holder's steps.
HolderCan ==
    \/ At("drain") /\ holder \in {"restart", "crash"} \cup Quitters
    \/ At("asleep") \/ At("build") \/ At("spawn")
    \/ (At("announce") \/ At("report")) /\ TkAnswers

\* What the fair actions of _shutdown and of the lock need, no more and no less.
GuardsEnable ==
    /\ HolderCan <=> ENABLED <<HolderStep>>_vars
    /\ Up /\ Free /\ quit["tray"] = "asked" <=> ENABLED <<TakeStop("tray")>>_vars
    /\ Up /\ quit["tray"] = "leaving" <=> ENABLED <<Leave("tray")>>_vars
    /\ Up /\ quit["tray"] = "destroying" /\ TkAnswers
         <=> ENABLED <<Destroy("tray")>>_vars

\* "Keep the orchestrator running in the system tray?" (gui.py:411-420), and on
\* "no" it ends.  The code does not keep this: the lock's holder waits in _notify
\* for the main loop, which waits in stop() for the lock.  Nor does "Quit" in the
\* tray, when the window is closed meanwhile.
QuitCompletes == \A w \in Quitters : quit[w] = "asked" ~> ~Up

-----------------------------------------------------------------------------
\* A launch is still to come: start() is, or a thread waits for the lock, or
\* holds it and has not built its command line.
Owed ==
    \/ pending > 0 \/ crashers > 0 \/ stage = "asking"
    \/ ~Free /\ holder \notin Quitters /\ step \in {"drain", "asleep", "build"}

Launching == ~Free /\ step \in {"announce", "spawn"}

Considered == {n \in Names : snap[n] # None} \cup skipped

\* The threads implement RosterTracking too, with one difference: a change that
\* on_change drops stays owed until something else launches, so that only the
\* safety part holds.  A server that is stopped, or exits, is a launch come to
\* nothing.
Roster == INSTANCE RosterTracking WITH
    roster <- Registered,
    considered <- Considered,
    owed <- Owed \/ missed,
    ok <- stage # "started" \/ Running \/ Launching,
    up <- Up

TracksRoster == Roster!Spec
=============================================================================
