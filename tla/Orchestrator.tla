---------------------------- MODULE Orchestrator ----------------------------
(***************************************************************************)
(* The orchestrator process: mDNS discovery feeding the worker registry,   *)
(* the registry's change callback and the prune loop driving the launcher, *)
(* the REST handlers and main()'s own start and shutdown                   *)
(* (orchestrator/app/main.py, discovery.py, api.py).                       *)
(*                                                                         *)
(* Everything runs on one asyncio loop.  asyncio.ensure_future puts a task *)
(* at the end of the loop's ready queue, here `ready`; tasks run from its  *)
(* head.  A task that asks for the launcher's lock moves to `lockq` of     *)
(* module InferenceLauncher.  main() waits in there too when it awaits     *)
(* launcher.start() or launcher.stop().                                    *)
(*                                                                         *)
(* The environment decides which services the mDNS browser reports, when   *)
(* a heartbeat gets through, when a node has been silent for too long,     *)
(* when a process dies, when somebody posts to /restart and when a signal  *)
(* arrives.  No fairness is assumed of it.                                 *)
(***************************************************************************)
EXTENDS InferenceLauncher

CONSTANTS
    Services,   \* mDNS instance labels
    NodeName,   \* the node_name property each service advertises
    MaxTasks    \* bound on the tasks the environment may have in flight

\* A label doubles as a registry key in remove_service.
ASSUME ServicesAssumption == Services \subseteq Names
ASSUME NodeNameAssumption == NodeName \in [Services -> Names]
ASSUME MaxTasksAssumption == MaxTasks \in Nat

VARIABLES
    known,      \* the services the browser has reported and not withdrawn
    ready,      \* the tasks scheduled with ensure_future, in order
    main        \* how far main() has got

vars == <<registryVars, launcherVars, known, ready, main>>

Tasks == [op : {"register"}, name : Names, ep : Endpoints]
            \cup [op : {"unregister", "touch"}, name : Names]
            \cup [op : {"change", "restart"}]

MainStates == {"window",    \* asleep for DISCOVERY_TIMEOUT
               "starting",  \* awaiting launcher.start()
               "serving",   \* in server.serve(), prune loop running
               "stopping",  \* awaiting launcher.stop()
               "closing",   \* awaiting discovery.stop()
               "down"}      \* returned or killed; every task is gone

\* Types of every variable.
TypeOK ==
    /\ RegistryTypeOK
    /\ LauncherTypeOK
    /\ known \subseteq Services
    /\ ready \in Seq(Tasks)
    /\ main \in MainStates

Init ==
    /\ RegistryInit
    /\ LauncherInit
    /\ known = {}
    /\ ready = <<>>
    /\ main = "window"

Up == main # "down"

\* Bound: the environment adds no task beyond MaxTasks.
Room == Len(ready) + Len(lockq) < MaxTasks

Schedule(task) == ready' = Append(ready, task)

Change == [op |-> "change"]

Restart == [op |-> "restart"]

-----------------------------------------------------------------------------
(* The mDNS listener (external events, _ZeroconfListener's handlers).      *)

\* add_service: resolved, and a register task scheduled; or not resolved, and
\* nothing is done, now or later.
AddService(s) ==
    /\ Up /\ Room
    /\ s \notin known
    /\ known' = known \cup {s}
    /\ \/ \E e \in Endpoints :
             Schedule([op |-> "register", name |-> NodeName[s], ep |-> e])
       \/ UNCHANGED ready
    /\ UNCHANGED <<registryVars, launcherVars, main>>

\* update_service: a touch task for the node's name.  (An unresolved update
\* changes nothing.)
UpdateService(s) ==
    /\ Up /\ Room
    /\ s \in known
    /\ Schedule([op |-> "touch", name |-> NodeName[s]])
    /\ UNCHANGED <<registryVars, launcherVars, known, main>>

\* Mutant of RemoveService: no task is scheduled.
RemoveIgnored(s) ==
    /\ Up
    /\ s \in known
    /\ known' = known \ {s}
    /\ UNCHANGED <<registryVars, launcherVars, ready, main>>

\* remove_service: an unregister task for the service's label.
RemoveService(s) ==
    /\ Up /\ Room
    /\ s \in known
    /\ known' = known \ {s}
    /\ Schedule([op |-> "unregister", name |-> s])
    /\ UNCHANGED <<registryVars, launcherVars, main>>

\* Time passes without a word from a node.
Silence(n) ==
    /\ Up
    /\ GoStale(n)
    /\ UNCHANGED <<launcherVars, known, ready, main>>

-----------------------------------------------------------------------------
(* The ready queue.                                                        *)

HeadIs(op) == Up /\ ready # <<>> /\ Head(ready).op = op

\* A registry coroutine runs; if it changed the roster, the on_change task
\* goes to the end of the queue.
RunRegister ==
    /\ HeadIs("register")
    /\ LET t == Head(ready) IN
          /\ Register(t.name, t.ep)
          /\ ready' = IF t.name \in Registered THEN Tail(ready)
                      ELSE Append(Tail(ready), Change)
    /\ UNCHANGED <<launcherVars, known, main>>

\* Mutant of RunUnregister: leaving does not call on_change.
RunUnregisterQuietly ==
    /\ HeadIs("unregister")
    /\ Unregister(Head(ready).name)
    /\ ready' = Tail(ready)
    /\ UNCHANGED <<launcherVars, known, main>>

\* Mutant of RunUnregister: a stale entry is left to the prune loop.
RunUnregisterActive ==
    /\ HeadIs("unregister")
    /\ LET n == Head(ready).name IN
          \/ /\ n \in Active
             /\ Unregister(n)
             /\ ready' = Append(Tail(ready), Change)
          \/ /\ n \notin Active
             /\ ready' = Tail(ready)
             /\ UNCHANGED registryVars
    /\ UNCHANGED <<launcherVars, known, main>>

\* An unregister task: the callback follows only if there was an entry.
RunUnregister ==
    /\ HeadIs("unregister")
    /\ LET n == Head(ready).name IN
          /\ Unregister(n)
          /\ ready' = IF n \in Registered THEN Append(Tail(ready), Change)
                      ELSE Tail(ready)
    /\ UNCHANGED <<launcherVars, known, main>>

RunTouch ==
    /\ HeadIs("touch")
    /\ Touch(Head(ready).name)
    /\ ready' = Tail(ready)
    /\ UNCHANGED <<launcherVars, known, main>>

\* Asking for the lock leaves the rest of the launcher alone.
OnlyAsk(r) ==
    /\ Ask(r)
    /\ UNCHANGED <<modelSet, phase, snap, skipped, proc, alive, cmd, launched>>

\* Mutant of RunChange: a change is ignored while no server is running.
RunChangeIfRunning ==
    /\ HeadIs("change")
    /\ IF Running THEN OnlyAsk("restart") ELSE UNCHANGED launcherVars
    /\ ready' = Tail(ready)
    /\ UNCHANGED <<registryVars, known, main>>

\* on_worker_change: `running` is read now, and acted on when the lock comes.
RunChange ==
    /\ HeadIs("change")
    /\ OnlyAsk(IF Running THEN "restart" ELSE "start")
    /\ ready' = Tail(ready)
    /\ UNCHANGED <<registryVars, known, main>>

\* launcher.restart() as scheduled by the prune loop and by POST /restart.
RunRestart ==
    /\ HeadIs("restart")
    /\ OnlyAsk("restart")
    /\ ready' = Tail(ready)
    /\ UNCHANGED <<registryVars, known, main>>

RunTask == RunRegister \/ RunUnregister \/ RunTouch \/ RunChange \/ RunRestart

-----------------------------------------------------------------------------
(* The prune loop and the REST API, both running while main() serves.      *)

\* Mutant of Prune: no restart follows.
PruneQuietly ==
    /\ main = "serving"
    /\ PruneStale
    /\ UNCHANGED <<launcherVars, known, ready, main>>

Prune ==
    /\ main = "serving" /\ Room
    /\ PruneStale
    /\ Schedule(Restart)
    /\ UNCHANGED <<launcherVars, known, main>>

\* POST /restart: refused with 400 when no worker is active.
PostRestart ==
    /\ main = "serving" /\ Room
    /\ Active # {}
    /\ Schedule(Restart)
    /\ UNCHANGED <<registryVars, launcherVars, known, main>>

-----------------------------------------------------------------------------
(* main().                                                                 *)

\* The discovery window is over: start the server, whatever the change
\* callbacks did meanwhile, or go on without one.
WindowEnds ==
    /\ main = "window"
    /\ \/ /\ modelSet
          /\ OnlyAsk("main_start")
          /\ main' = "starting"
       \/ /\ ~modelSet
          /\ main' = "serving"
          /\ UNCHANGED launcherVars
    /\ UNCHANGED <<registryVars, known, ready>>

\* SIGTERM or SIGINT before the handlers are installed ends the process.
EarlySignal ==
    /\ main \in {"window", "starting"}
    /\ main' = "down"
    /\ UNCHANGED <<registryVars, launcherVars, known, ready>>

\* should_exit is set, serve() returns, the prune loop is cancelled and
\* launcher.stop() is awaited.
Signal ==
    /\ main = "serving"
    /\ OnlyAsk("stop")
    /\ main' = "stopping"
    /\ UNCHANGED <<registryVars, known, ready>>

\* main() goes on when its own request to the launcher returns.
HolderRuns ==
    /\ Up
    /\ HolderStep
    /\ \/ Returns("main_start") /\ main' = "serving"
       \/ Returns("stop") /\ main' = "closing"
       \/ ~Returns("main_start") /\ ~Returns("stop") /\ UNCHANGED main
    /\ UNCHANGED <<registryVars, known, ready>>

\* An exception out of the launcher ends the task that called it: a scheduled
\* task silently, main() together with the process.
HolderFails ==
    /\ Up
    /\ HolderRaises
    /\ \/ Holder \in {"main_start", "stop"} /\ main' = "down"
       \/ Holder \in {"start", "restart"} /\ UNCHANGED main
    /\ UNCHANGED <<registryVars, known, ready>>

\* discovery.stop() returns; asyncio.run cancels what is left.  The queues
\* stay as they are, and no step takes anything from them any more.
Close ==
    /\ main = "closing"
    /\ main' = "down"
    /\ UNCHANGED <<registryVars, launcherVars, known, ready>>

Exit(p) ==
    /\ ProcExit(p)
    /\ UNCHANGED <<registryVars, known, ready, main>>

\* The only place where the system may rest.
Terminated == main = "down" /\ UNCHANGED vars

-----------------------------------------------------------------------------
Environment ==
    \/ \E s \in Services : AddService(s) \/ UpdateService(s) \/ RemoveService(s)
    \/ \E n \in Names : Silence(n)
    \/ \E p \in Pids : Exit(p)
    \/ PostRestart
    \/ EarlySignal
    \/ Signal

System == RunTask \/ Prune \/ WindowEnds \/ HolderRuns \/ HolderFails \/ Close

Next == Environment \/ System \/ Terminated

Spec == Init /\ [][Next]_vars

\* The event loop runs every task in its turn; sleep, wait_for and the health
\* deadline are timers; a SIGKILLed process exits.
Fairness ==
    /\ WF_vars(RunTask)
    /\ WF_vars(HolderRuns \/ HolderFails)
    /\ WF_vars(WindowEnds)
    /\ WF_vars(Close)
    /\ WF_vars(phase = "killing" /\ Exit(proc))

FairSpec == Spec /\ Fairness

\* The same with workers whose heartbeats always get through again.
HeartbeatSpec == FairSpec /\ \A s \in Services : SF_vars(UpdateService(s))

-----------------------------------------------------------------------------
(* Correctness.                                                            *)

\* A change of the roster that no command line reflects yet, but for which a
\* task is scheduled, or a request waits for the lock or is still stopping the
\* old server.
ChangeOutstanding ==
    \/ \E i \in DOMAIN ready : ready[i].op \in {"change", "restart"}
    \/ \E i \in DOMAIN lockq :
          /\ lockq[i] # "stop"
          /\ (i > 1 \/ phase \in {"idle", "draining", "killing"})

Served(p) == {n \in Names : cmd[p][n] # None}

\* Nothing is owed to the running server: no relaunch is scheduled, queued or
\* under way, and the last one got as far as a process.
Settled == ~ChangeOutstanding /\ phase # "spawning" /\ launched

\* Once every change has been dealt with, the running llama-server was started
\* with exactly the registered workers, less those that were stale when its
\* command line was built: no join, leave or prune is lost between the
\* registry, the callback's check of `running`, the FIFO lock and the
\* snapshot in _build_cmd, however they interleave.
RosterServed ==
    Settled /\ Running => Registered = Served(proc) \cup skipped

\* Where a service's label is its node_name, the addresses agree as well:
\* register() overwrites an existing entry without telling anyone, which is
\* harmless only because a service is never added twice without an unregister
\* or a prune in between.
EndpointsServed ==
    Settled /\ Running =>
        \A n \in Served(proc) : cmd[proc][n] = workers[n]

\* Where labels are node_names, a worker whose service has been withdrawn leaves
\* the registry with a task that is scheduled already: whatever the order of
\* joining, leaving, joining again and pruning, no entry outlives its service
\* with nobody to take it out.
NoGhostWorkers ==
    \A n \in Registered \ known :
        \E k \in DOMAIN ready : ready[k].op = "unregister" /\ ready[k].name = n

\* The workers that the last _build_cmd looked at.
Considered == {n \in Names : snap[n] # None} \cup skipped

SnapAgrees == Considered = Registered

PhaseInv ==
    /\ phase # "idle" => Held
    /\ phase \in {"draining", "killing"} => Holder \in {"restart", "stop"}
    /\ phase \in {"spawning", "health"} => Holder # "stop"
    /\ phase = "spawning" /\ Holder = "restart" => ~Running

SnapInv ==
    /\ ~ChangeOutstanding /\ (phase = "spawning" \/ launched) => SnapAgrees
    /\ phase # "spawning" /\ launched /\ Running => cmd[proc] = snap

\* Why RosterServed holds, as an inductive invariant.  The lock is held in
\* every phase but idle, and the phase tells what kind of request holds it; a
\* restart spawns only after the old server is gone; the last snapshot agrees
\* with the registry unless a change is outstanding; and the running server
\* was started with the last snapshot.
LauncherInv == TypeOK /\ PhaseInv /\ SnapInv

\* The launcher loses hold of a live llama-server only by overwriting _proc in
\* a start() that ran while a server was up: restart() and stop() never let
\* one escape, whatever timeout, crash or failed spawn they meet.
OrphanOnlyByStart ==
    [][Orphans' \subseteq Orphans
          \/ (phase = "spawning" /\ Holder \in Starts /\ Running)]_vars

\* main()'s stop() ends, by returning or by raising, when the server that the
\* launcher holds has gone, whatever was launched, killed or crashed before it
\* had the lock.  (A request that is queued behind it may launch another.)
StopStops == [][main = "stopping" /\ main' # "stopping" => ~Running']_vars

\* "Nodes ... disconnect and reconnect to any orchestrator freely": a worker
\* that fell silent, and whose heartbeats then get through for good, is an
\* active worker again.  The code does not keep this: once the worker has been
\* pruned touch() does nothing, and the browser does not report a service it
\* knows a second time.
SilentWorkerReturns ==
    \A s \in Services :
        NodeName[s] \in stale ~>
            NodeName[s] \in Active \/ s \notin known \/ main = "down"

\* Every shutdown ends: main()'s stop() gets the lock, past every request that
\* was queued before it and whatever the servers do, and returns or raises.
ShutdownCompletes == main = "stopping" ~> main = "down"

\* The lock's holder, unless it waits for a process that was sent SIGKILL.
HolderDue == Up /\ Held /\ ~(phase = "killing" /\ Running)

KillDue == phase = "killing" /\ Running

\* The guards of the fair actions: of HolderRuns and HolderFails together,
\* segment by segment, and of RunTask.
HolderCan ==
    /\ Up /\ Held /\ Holder \in Requests
    /\ \/ phase \in {"idle", "draining", "spawning", "health"}
       \/ phase = "killing" /\ ~Running /\ Holder \in {"restart", "stop"}

TaskCan ==
    /\ Up /\ ready # <<>>
    /\ Head(ready).op \in {"register", "unregister", "touch", "change", "restart"}

\* They are all that the actions need, no more and no less.
GuardsEnable ==
    /\ HolderCan <=> ENABLED <<HolderRuns \/ HolderFails>>_vars
    /\ KillDue <=> ENABLED <<phase = "killing" /\ Exit(proc)>>_vars
    /\ TaskCan <=> ENABLED <<RunTask>>_vars
    /\ main = "window" <=> ENABLED <<WindowEnds>>_vars
    /\ main = "closing" <=> ENABLED <<Close>>_vars

\* What is waited for has its guard: the lock's holder in every phase, but for
\* that of a server that was sent SIGKILL; a scheduled task; and main(), whose
\* own request is in the launcher's queue for as long as it awaits it.
CanGoOn ==
    /\ HolderDue => HolderCan
    /\ Up /\ ready # <<>> => TaskCan
    /\ main = "starting" => \E k \in DOMAIN lockq : lockq[k] = "main_start"
    /\ main = "stopping" => \E k \in DOMAIN lockq : lockq[k] = "stop"

\* Nobody waits for something that cannot come: neither the lock's holder,
\* whatever its server does, nor a scheduled task, nor main() in its own awaits.
NothingBlocks == CanGoOn /\ GuardsEnable

-----------------------------------------------------------------------------
\* The orchestrator implements RosterTracking: no change is forgotten, and
\* every one of them gets its launch, or a launch that fails, for as long as
\* the orchestrator is up.
Roster == INSTANCE RosterTracking WITH
    roster <- Registered,
    considered <- Considered,
    owed <- ChangeOutstanding,
    ok <- launched \/ phase = "spawning",
    up <- Up

TracksRoster == Roster!LiveSpec
=============================================================================
