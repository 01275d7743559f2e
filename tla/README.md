# Verification of network-container

This directory holds TLA+ models of the LLM cluster in this repository, the TLC
configurations that check them on small instances, and proofs, checked by
TLAPS, of the properties that hold for every instance. Paths below are relative
to the repository root.

Contents: [the system](#1-the-system), [the modules](#2-the-modules),
[the runs](#3-the-runs), [fairness](#4-fairness), [the proofs](#5-the-proofs),
[what the code does not keep](#6-what-the-code-does-not-keep),
[assumptions](#7-assumptions-about-what-surrounds-the-code),
[what is left out](#8-what-is-left-out), [plan](#9-plan).

## 1. The system

Machines on a LAN pool their memory for llama.cpp. Worker nodes run
`llama-rpc-server` and announce themselves over mDNS; an orchestrator collects
them and runs one `llama-server` with all of them in its `--rpc` list. A full
node is a worker that also runs a `llama-server` of its own. Phones can be
workers, or clients that pick a node to chat with.

| component | source | state | operations |
|---|---|---|---|
| worker registry | `orchestrator/app/discovery.py` | `_workers`: name to endpoint and `last_seen` | register, unregister, touch, prune_stale, active_workers |
| mDNS discovery | the same | the browser, the scheduled tasks | add, update and remove service; `stale_prune_loop` |
| inference launcher | `orchestrator/app/launcher.py` | `_proc`, `_restart_lock` | start, restart, stop; drain, spawn, health poll, watcher |
| main, REST API | `orchestrator/app/main.py`, `api.py` | how far `main()` is | discovery window, first start, `on_worker_change`, POST /restart, signals, shutdown |
| worker sidecar | `worker/sidecar/main.py` | `_rpc_proc`, `_inf_proc`, `_peer_registry` | `lifespan()`, `_PeerListener`, `_restart_inference_if_needed` (never reached), heartbeats, the `/v1` proxy |
| Windows orchestrator | `windows/orchestrator/app/discovery.py`, `launcher.py` | registry, `_proc`, `_lock`, `_stopping`, threads | as above, with threads |
| its window | `windows/orchestrator/app/gui.py` | `_step`, `_registry`, `_launcher`, `_tray` | wizard pages, startup sequences, tray, `_shutdown` |
| Windows node | `windows/app/node.py`, `gui.py`, `config.py` | `_proc`, `_zc`, `_svc_info`; `config.json` | start, stop, register, deregister; wizard, tray, launch, close, exit; load, save |
| phone as worker | `mobile/lib/services/worker_service.dart`, `discovery_service.dart` | `_running`, `_registered`, `_registration`, timer | start, stop, register, unregister |
| phone as client | `mobile/lib/services/inference_service.dart`, `discovery_service.dart`, `screens/chat_screen.dart` | `_nodes`, `_activeNode`, `_usingOnDevice` | found, lost, prune, selectBestNode, chatStream, Switch |

How they interact. Nodes and orchestrators share nothing but mDNS records and
the TCP endpoints in them. Inside the orchestrator the mDNS listener schedules
registry coroutines on the event loop, the registry schedules the change
callback, the callback and the prune loop queue up at the launcher's lock, and
`main()` stands in the same queue at start and at shutdown. In the sidecar the
listener is called on zeroconf's own thread while everything else is on the
loop. In the Windows orchestrator there is no loop at all: a browser thread, a
startup thread, one thread per restart, one monitor per launch and the Tk
thread meet at one `threading.Lock`. What one run of the Windows node hands to
the next is its configuration file, and the llama processes that it left.

What makes it hard, and what correctness means for each part:

* *Orchestrator.* A change of the roster passes through four asynchronous
  stages, and the roster changes again meanwhile; processes crash, timeouts
  expire, spawns fail. Correct means: when the dust settles the running
  `llama-server` has the workers that are registered; no `llama-server` is
  lost; shutdown ends.
* *Heartbeats.* Announcements are late or lost and the prune loop has a phase
  of its own. Correct means: live workers stay, dead ones go in bounded time.
* *Sidecar.* Two threads, one of which cannot reach the other's event loop, and
  a shutdown that waits for requests whose server may die or fall silent and
  whose client may stall. Correct means: the server gets the peers of now, no
  child is stopped under a request or left behind, the shutdown ends.
* *Windows orchestrator.* An unfair lock, decisions made before it is taken,
  and cross-thread Tk calls that wait for the main loop. Correct means: one
  server, with the registered workers; quitting ends.
* *Its window.* "Back" is enabled while a startup sequence runs and after, and
  "Next" begins a second one, which replaces registry, discovery and launcher
  one after the other under the first. Correct means: the launcher in use draws
  on the registry that is shown, and quitting leaves no server.
* *Windows node.* Every step of start and stop can raise, and the caller goes
  on all the same; saving can fail half-way; the program can end anywhere and
  be launched again. Correct means: no process is lost, nothing is advertised
  that was not started, and a node keeps its role.
* *Phone.* Flags tested before and set after awaits, under impatient taps;
  lookups, pings and replies that come back in any order.

`PROJECT.json` lists the forty places where this bites (`hazards`), each with
the properties that would notice, or with the reason why none can.

## 2. The modules

| module | models | notes |
|---|---|---|
| `WorkerRegistry` | `WorkerRegistry`, both editions | operators only: one per coroutine |
| `InferenceLauncher` | `InferenceLauncher` of the container | extends `WorkerRegistry` |
| `Orchestrator` | listener, event loop, prune loop, API, `main()` | extends `InferenceLauncher`; the composed specification |
| `RosterTracking` | nothing: the abstract specification | what either orchestrator promises about its roster |
| `Heartbeat` | one worker's heartbeats and its registry entry, in time | sidecar and orchestrator together |
| `Sidecar` | the sidecar as a full node | |
| `WindowsOrchestrator` | registry, discovery, launcher and threads of the Windows orchestrator | extends `WorkerRegistry` |
| `WindowsWizard` | its window: wizard, startup sequences, tray, shutdown | |
| `WindowsNode` | the Windows node application, over several runs of the program | |
| `PhoneWorker`, `PhoneClient` | the two roles of the phone | |
| `MC*` | the instances that TLC checks | |
| `*Proofs` | theorems and proofs | each extends the module it is about |

**Registry.** A coroutine of the registry holds its lock and suspends nowhere
inside it, so that each is one atomic operator. `last_seen` is abstracted to
the set `stale` of the names for which it is too old; time itself is modelled
in `Heartbeat`. An `--rpc` list is a function from names to an endpoint or
`None`.

**Launcher.** `asyncio.Lock` is granted in order, so that holder and waiters
are the sequence `lockq`, whose head holds the lock, and `phase` says at which
await its coroutine is suspended: idle (just granted), draining (`wait_for` for
15 s), killing, spawning, health. Every action is the segment from one await to
the next. `proc` is `_proc`, `alive` are the processes that really run, `cmd`
the list each was started with; the gap between `proc` and `alive` is where
crashes and orphans live. `snap` and `skipped` record what the last
`_build_cmd` saw.

**Orchestrator.** `ready` is the loop's queue of tasks made by
`ensure_future`, run from its head; a task that asks for the lock moves to
`lockq`. `known` is what the browser has reported: zeroconf reports a service
as added only if it does not know it already, which matters for a worker that
was pruned. `main` is the program counter of `main()`. `modelSet` stands for
MODEL_PATH: it is chosen at the start and never changes.

**Heartbeat.** Discrete time with the remaining times as variables. `Tick`
cannot pass the moment at which a heartbeat, a delivery or the prune loop is
due. The network may delay an announcement by up to `MaxDelay` and lose up to
`MaxLost` in a row.

**Sidecar.** `life` is the program counter of `lifespan()`, cut at its awaits.
`RestartRaises` is what `asyncio.ensure_future` does on the browser's thread,
which has no event loop: it raises, the registry has changed by then, and
zeroconf's thread may or may not survive. So `_restart_inference_if_needed`
never runs and no action stands for it; there is one `llama-server` at most,
`inf`, with the peers `cmd` in its `--rpc` list. In the proxy one request at a
time is followed: `request` says whether the client, the server or the clock
has the next move. On SIGTERM uvicorn accepts no more (`life` is "closing") and
goes on to `lifespan()`'s shutdown when that request is over.

**Windows orchestrator.** `holder` and `step` say who has the lock and where;
restart threads, monitors that watch and monitors that saw a crash are counted
(`pending`, `watchers`, `crashers`), since they differ in nothing else.
`_shutdown` has no guard against being entered twice: `quit` says how far it is
in each of the two threads that may run it, the Tk thread when the window is
closed and the tray's on "Quit". `TkAnswers` is the condition under which a Tk
call from another thread returns: the main loop runs, which it does not while
`_shutdown` occupies the Tk thread, alone or beside the tray's. `missed` is a
history variable: a change came that asked for no restart.

**Windows wizard.** One number for each startup sequence names the registry,
the discovery service and the launcher that it makes. `at` is where each
sequence's thread is; `registry` and `launcher` are the application's fields,
`source` the registry that each launcher was given, `proc` its `_proc`. `ran`
are the launchers with a configuration, without which a restart raises;
`pending` those with a restart thread under way. An operation of a launcher is
one step: what goes on under its lock is the matter of `WindowsOrchestrator`,
which in turn has one launcher and no way back. `behind` is a history variable:
something was launched after `_shutdown` had stopped its launcher. Here, too,
`quit` has a value for each of the two threads, and the second `_shutdown` may
end at a discovery service that the first has stopped already (`LeaveRaises`).

**Windows node.** `page` is where the interface is, `call` and `at` the call
under way and the place in `node.py` at which it may raise; only one thread at
a time gets to call. `disk` is what `config.json` says, "torn" after a save
that was cut short, and `Loaded` what `load()` makes of it: a worker if there
is nothing to read. `present` says whether the installation directory exists,
by which `run()` tells an installed node from a new one. The program ends by
"Exit", by the wizard's close button, by a crash or with the machine, and is
launched again; a llama process survives all but the last.

**Phone.** In `PhoneWorker` each tap is a call with a place of its own (`at`),
cut at its awaits; `advertised` is what the network has, `registration` what
the phone thinks it has; `hasty` is a history variable, the taps made while
another call ran, and the user is `patient` if there are none. In `PhoneClient` selections are calls too, each with the
candidates it has not tried; `air` is what nsd has reported, `nodes` what the
service lists, `sheet` the nodes that the open "Switch" menu offers, which is
built once and may offer one that has gone.

The definitions marked "Mutant of" are not part of a model. Each is a plausible
bug in the definition it follows, and substituting it must break a property;
`PROJECT.json` pairs them.

## 3. The runs

| run | instance | checks |
|---|---|---|
| `orch` | 1 name that comes, goes, moves and falls silent, 2 endpoints, 2 processes, 2 tasks, fair | `LauncherInv`, `RosterServed`, `EndpointsServed`, `NoGhostWorkers`, `NothingBlocks`, `OrphanOnlyByStart`, `ShutdownCompletes`, `TracksRoster` |
| `heartbeat` | interval 4, timeout 9, period 3, delay 1, 1 lost, fair | `AliveStaysListed`, `DeadSoonUnlisted`, `DeadIsUnlisted` |
| `sidecar` | itself and 2 peers, one's name a prefix of the other's, 2 endpoints, 1 request, fair | `SidecarInv`, `CleanShutdown`, `ShutdownEnds` |
| `win` | 1 name, 2 processes, 3 threads, both ways to quit and both at once, fair | `TypeOK`, `SoleServer`, `RosterServedUnlessMissed`, `TracksRoster`, `TrayQuitCompletes`, `LockComesBack` |
| `wizard` | 3 processes, 2 startup sequences | `TypeOK`, `LauncherHasRegistry`, `QuitLeavesNothing` |
| `node` | 2 processes, directory there or not | `TypeOK`, `OnAirOnlyStarted`, `RunsAsStored`, `OrphanOnlyByEnding` |
| `phone_worker` | 5 taps, 4 registrations | `PhoneInv`, `ActiveIffAdvertised`, `UptimeCounts`, `LeaksBounded` |
| `client` | 2 nodes, 1 host, 1 screen and the chat, fair | `ClientInv`, `GhostsExpire`, `ChatAnswers` |
| `orch_rejoin`, `sidecar_lost`, `win_quit_window`, `node_advert` | small | one property each that the code does not keep, see section 6 |

What the less obvious properties say:

* `RosterServed`: if no task, queued request or launch under way still owes a
  launch, and the last one made a process, then the running server was started
  with exactly the registered workers, less those that were stale at that
  moment. `EndpointsServed` says the same of the addresses; it needs labels
  that equal the node names, as sidecars and Windows nodes advertise them, and
  fails where two services share one `node_name`.
* `NoGhostWorkers`: a registered worker whose service has been withdrawn has its
  unregister task in the queue, however often it came, went and was pruned
  before. It needs labels that equal the node names, too.
* `NothingBlocks`, of the orchestrator: the lock is never held by somebody who
  cannot go on, no place of its queue is without its holder, no scheduled task
  cannot run. It is an invariant, stronger than the absence of deadlock, which
  is about everybody at once, and it has two parts. `CanGoOn`: whoever is waited
  for (the lock's holder, a task, `main()`) has the guard of its next step.
  `GuardsEnable`: that guard, which is stated in full, is exactly what ENABLES
  the fair action. The first is proved, the second is the hypothesis under which
  liveness is proved, see section 5.
* `LauncherInv`, `SidecarInv`, `PhoneInv` and `ClientInv` are inductive
  invariants, and what the proofs of section 5 rest on. Each contains its
  module's `TypeOK`; the others are named parts: `PhaseInv` and `SnapInv` of the
  launcher, `ShutdownInv` of the sidecar (a request is in the proxy only while
  `lifespan()` is at its yield, so that no child is stopped under one),
  `HandleIsLive` of the phone as a worker, `OneSource` (never a node and the
  phone's own model at once) and `SelectionAlive` of the client. That of the
  heartbeats, `HeartbeatInv`, is in the proofs only.
* `OrphanOnlyByStart`: the set of live processes that `_proc` does not hold
  grows only when `start()` runs over a live server. So restarts, stops,
  timeouts, failed spawns and crashes lose nothing.
* `TracksRoster`: `Orchestrator` refines `RosterTracking`. With `Registered`
  for the roster, the workers of the last snapshot for what was considered, and
  `ChangeOutstanding` for the debt, every step is a step of the abstract
  specification or a stutter, and every debt is settled by a launch or by one
  that fails. In `win` it is the safety part alone, for `WindowsOrchestrator`:
  there the roster is considered in `_build_cmd`, a debt is a restart that is
  asked for or has not built its command line yet, or a change that `on_change`
  dropped, and only a launch that looked at the roster, or one that failed,
  settles it. A dropped change stays owed until the next launch, if there is
  one, which is why nothing is promised of its end.
* `AliveStaysListed`: a live worker is always listed. That depends on
  `(MaxLost + 1) * Interval + MaxDelay <= Timeout`, here 2*4 + 1 = 9. The
  defaults of the code, 60 and 90 seconds, allow for no loss at all.
  `DeadSoonUnlisted`: a worker that died is off the list after at most
  `MaxDelay + Timeout + PrunePeriod`, counted by the history variable `dead`;
  one less is too little. With the defaults that is two minutes and the
  network's delay.
* `CleanShutdown`: when the process has left by its shutdown, neither child
  runs, whatever exited by itself before and whatever was in the proxy.
* `ShutdownEnds`: a request in the proxy holds up the sidecar's shutdown no
  longer than its client does, with a server that is dead, slow or silent; the
  300 seconds of httpx are what it rests on. It promises nothing where the next
  move is the client's: neither `request.body()` nor the sending of the reply
  has a timeout.
* `SoleServer`: in the Windows orchestrator `start()`, restarts, crash handlers
  and `stop()` may take the lock in any order and no process escapes `_proc`.
  `RosterServedUnlessMissed` is `RosterServed` for it, but for changes that
  came while `running` was false and asked for no restart.
* `TrayQuitCompletes`: "Quit" in the tray ends the program past every thread
  that competes for the lock, unless the window is closed meanwhile, too.
  `LockComesBack`: whoever has the lock gives it back, whatever it finds or
  fails to find, unless the Tk thread is in `_shutdown`. What both except is a
  deadlock of the code, section 6.
* `LauncherHasRegistry`: the launcher that tray, callbacks and shutdown use
  draws on the registry that the window shows, except while a sequence that has
  replaced the registry is not yet at its launcher, or has died before it. It
  needs the launcher to be given `_registry` as it is by then, and not the
  registry that its own sequence made.
* `QuitLeavesNothing`: when the window is gone no `llama-server` runs, if only
  one startup sequence has come to make a launcher and nothing was launched
  behind `stop()`. Each excuse is a way in which the code does leave one.
* `OnAirOnlyStarted`: between calls, the node is advertised only if its last
  start got as far as a process.
* `RunsAsStored`: the role the node runs in is the one its next run will load,
  wherever a failed save, a crash or a power cut have left the file. It rests
  on the installer not going on when saving raises.
* `OrphanOnlyByEnding`: a llama process escapes `_proc` only when the program
  ends otherwise than by "Exit", in a first run or in one beside older orphans.
* `HandleIsLive` holds under any overlap of taps; `ActiveIffAdvertised` and
  `UptimeCounts` under any failures, for a user who waits for one tap to end.
  `LeaksBounded`: registrations that no one can withdraw any more are at most as
  many as the taps made while another call ran.
* `SelectionAlive`: a selection is under way exactly as long as it has a
  candidate it has not pinged, and the message waits exactly as long as its own
  selection, however many others overlap with it.
* `GhostsExpire`: an entry that a late lookup put back after its service went
  is removed in the end. `ChatAnswers`: every message ends in a reply or an
  error.

**Bounds.** Names, endpoints and processes are the sizes of constant sets.
`MaxTasks` bounds the tasks and lock requests in flight that the environment
may cause, `MaxThreads` the restart and monitor threads, `MaxStartups` the
startup sequences of the wizard, the number of taps and screens the phone's
calls. Two processes allow the overlap of an old and a new server, which is
what every process property is about, and two tasks or waiting threads beside a
lock's holder are the shortest queue in which a request can be overtaken by a
change. Two startup sequences are one that is replaced and one that replaces
it. One request in the proxy is enough, since requests meet only in that
shutdown waits for all of them. `orch` has one worker, which keeps its liveness
checkable; that no worker is confused with another is what the proofs of
section 5 show, for any set of names. `win` has one worker for the same reason.
Five taps are a start, a second start in the middle of it, and a stop
overlapped by both kinds. Every safety invariant is proved without these
bounds, but for `LeaksBounded` and for what `NothingBlocks` says of ENABLED.
`heartbeat` uses small times in the proportions that matter (the timeout met
exactly, prune period and interval coprime); the proof covers all.

**Symmetry** is used in `phone_worker`, which checks no liveness. **Deadlock**
is checked in every run but `win` and `win_quit_window`: in the Windows
orchestrator a user who closes the window can deadlock the program, which is
what the latter shows. The other models stop only in their `Terminated` (or
`Finished`) step; the Windows node can always be launched again.

## 4. Fairness

Fairness is assumed of what the runtime schedules, never of the environment:
nobody is bound to join, leave, crash, tap, post, send a body, read a reply or
send a signal.

* *Orchestrator*: weak fairness of the loop's ready queue, of the lock's holder
  (its waits are timers, or a process that was sent SIGKILL, which exits), of
  the discovery window and of the end of `main()`. The lock itself is FIFO by
  construction. `HeartbeatSpec`, used by `orch_rejoin` alone, adds that
  heartbeats always get through again: strong fairness of `UpdateService`.
* *Heartbeat*: time advances, loops wake up, deliveries are made.
* *Sidecar*: the loop runs `lifespan()`, its sleeps end; in the proxy timeouts
  fire, connections to a dead server break, and a reply that llama-server goes
  on with has an end. Nothing is asked of the client.
* *Windows orchestrator*: weak fairness of the lock's holder, the startup
  thread and the rest of `_shutdown`; strong fairness of `stop()` taking the
  lock, in either thread, since a `threading.Lock` promises no order and is taken and given back in
  between. The wizard and the node have safety properties only, and no
  fairness.
* *Phone*: time passes, the 30 s timer fires, pings and replies end, be it in a
  timeout.

## 5. The proofs

All theorems hold for every value of the constants that satisfies the
assumptions of the modules: the placeholder values are not members of the sets
beside them, names and parameters have their types. None is assumed of the
bounds. Some theorems have a condition of their own, which they name:
`LabelsAreNames` (`EndpointsAlwaysServed`, `NoGhosts`), `TimeoutSuffices`
(`AliveIsListed`), and a finite set of names (`NextAlwaysExists`, and what rests on it).

### Safety

* `OrchestratorProofs`: `LauncherInvariant`, and from it `TypeCorrect`,
  `RosterAlwaysServed`, `OrphansOnlyByStart`, `StopAlwaysStops` (an action
  property that no run checks: when `main()`'s `stop()` ends, by returning or by
  raising, no server runs in the launcher's hands). `RosterServed` is not inductive:
  it says nothing while something is outstanding. `LauncherInv` has three
  parts. `TypeOK`. `PhaseInv`: the lock is held in every phase but idle, the
  phase determines which kind of request holds it, and a restart spawns only
  when the old server is gone. `SnapInv`: unless a change is outstanding the
  last snapshot agrees with the registry, and the running server was started
  with the last snapshot. The argument for a step: whoever changes the set of
  registered names adds a task that makes a change outstanding
  (`AddedIsOutstanding`); what is outstanding stays so while queues only grow
  (`OutstandingStays`) and when a holder past its snapshot gives the lock back
  (`ReleaseKeepsOutstanding`); and a launch takes a snapshot that agrees
  (`BeginLaunchAgrees`). `RosterIsTracked` is the safety part of the
  refinement: every step is one of `RosterTracking` or a stutter, and the theorem
  states `Roster!Spec`. It needs the
  converse of `OutstandingStays`, `NothingBecomesOutstanding`: a step that
  changes no roster makes no debt. `EndpointsAlwaysServed`, under
  `LabelsAreNames`, adds `EntriesInv`: along registry, queue and browser,
  register and unregister of one name alternate. So `register()` never replaces
  an entry, which would change an address and call no one. `NoGhosts` follows
  from `EntriesInv` too: between an entry in the registry and the browser, which
  would register the name again, there must be a task that takes it out.
* `HeartbeatProofs`: `HeartbeatInvariant`, and from it `TypeCorrect`;
  `AliveIsListed` under `TimeoutSuffices`, by `RefreshDue` (an announcement under
  way, or the next one that cannot be lost, arrives before the timeout);
  `SilenceIsBounded` by `PruneDue`: a worker is listed for at most a timeout and
  one prune period after it was last heard of; and `DeadIsSoonUnlisted`, which
  needs `LastWords` too: what a dead worker has sent arrives within `MaxDelay` of
  its death, so that its entry is at most that much younger than the death. It
  bounds in time what `DeadIsUnlisted` only promises.
  `DeadAlwaysRunsOut` (`DeadRunsOut`: every step after a worker's death uses up
  one of its announcements under way, or ages its entry, or winds the prune
  loop) needs that time passing keeps the number of announcements under way
  (`ShiftKeepsCardinality`).
* `SidecarProofs`: `TypeCorrect`; `SidecarInvariant`, by which uvicorn's waiting
  for the request is what keeps a child from being stopped under one; and from
  it `ShutdownIsClean`.
* `WindowsOrchestratorProofs`: `TypeCorrect`; `ServerIsSole`, by `SoleInv`:
  past the drain the holder has cleared `_proc`, and no other thread can be
  there; `RosterServedButMissed`, by `RosterInv`: unless a launch is still owed
  (`Owed`) or a change was dropped, the last command line has the roster of
  now, and a running server was started with it. `RosterTracked`: it implements
  the safety part of `RosterTracking`, as the container's orchestrator does,
  although it has threads and no queue. Registry steps change the roster and
  owe (`ChangeRefines`, `BrowserRefines`), `_build_cmd` is the abstract launch
  (`LaunchRefines`), a spawn that raises the abstract failure, and everything
  else under the lock stutters (`HolderRefines`, `QuietRefines`).
* `WindowsWizardProofs`: `TypeCorrect`; `LauncherDrawsOnRegistry`, by
  `RegistryInv`: a launcher is parted from the registry only by a sequence that
  stands between the two; `QuitIsClean`, by `OneInv` and `QuitInv`: while one
  sequence only has made a launcher, all processes are in that launcher's
  hands.
* `WindowsNodeProofs`: `TypeCorrect`, `OrphansOnlyByEnding`, `AlwaysAsStored`,
  `OnAirStarted`.
* `PhoneWorkerProofs`: `TypeCorrect`, `HandleAlwaysLive`, together
  `PhoneInvariant`; `PatientIsAdvertised`
  and `PatientSeesUptime` by `PatientInv`, which says what the phone looks like
  at each place of the only call there is.
* `PhoneClientProofs`: `TypeCorrect`, `SourceIsOne` and `SelectionsStayAlive`,
  together `ClientInvariant`; and from it `NextAlwaysExists`: a
  selection under way has a candidate that may be pinged next. That is an
  induction over a finite set, made with the library's well-founded ordering
  of finite subsets (`MostMemory`): of the sets "those with more memory than
  m", a smallest one is empty.

### Liveness

Whether an action is ENABLED is beyond the provers. Once that is granted, the
rest of a liveness argument is not: weak fairness of an action that is enabled
for as long as somebody waits gives a step of it, and what that step does, and
what the steps of all others leave alone, are facts about actions. The theorems
of this section therefore read `FairSpec /\ []GuardsEnable => ...`. The
hypothesis says of each fair action that it is enabled exactly where its guard,
which `GuardsEnable` writes out, holds. In the orchestrator it is part of
`NothingBlocks`, and so checked in its run; that the guards do hold, for whoever
is waited for in any reachable state, is proved there: `NothingEverBlocks`
states `[]CanGoOn`, and with the hypothesis `[]NothingBlocks`. In `Sidecar`,
`WindowsOrchestrator` and `PhoneClient` it is a hypothesis and no more: TLC
finds it true if `GuardsEnable` is added to the run as an invariant, and no run
lists it, since it says nothing about the code.

Proved in full, for any number of peers and threads:

* `ShutdownAlwaysEnds` of `Sidecar`.
* `LockAlwaysComesBack` of `WindowsOrchestrator`: whoever has the lock gives it
  back in at most six steps (`HolderMoves`), and no other thread disturbs it
  meanwhile (`OthersWait`). `TrayQuitAlwaysCompletes`: so the lock is free again
  and again while the tray's `_shutdown` waits for it, and strong fairness lets
  `stop()` have it. Both go as far as the Tk thread is not in `_shutdown`.
* `RepliesEnd` of `PhoneClient`.

Proved step by step, for any place, task, set of candidates or of lookups. What
lacks is the induction that puts the steps together: induction over temporal
formulas needs an operator parameter that no prover here can instantiate, and a
formula with `~>` has no place in a set. TLC closes the gap on the instances.

* `ShutdownCompletes` (`Orchestrator`): `StopIsQueued` says that a `main()` that
  is stopping stands in the lock's queue; `RequestsAdvance` takes a request from
  any place to the one before, past whatever the holder is at (`HolderOnward`,
  `LockSteps`), and a stop that has the lock to the end of the program.
* The debts of `TracksRoster` (`Orchestrator`): `TasksAdvance` brings a
  scheduled task to the head of the loop's queue, `ChangeAsks` makes it a
  request for the lock, `RequestsAdvance` brings that to its turn, and
  `LaunchesSettle` to a launch that considers the roster of that moment, or to
  a failure.
* `DeadIsUnlisted` (`Heartbeat`): `DeadAlwaysRunsOut` says that each step
  descends; that it cannot do so for ever needs the induction.
* `ChatAnswers` (`PhoneClient`): `ChatAdvances`, from any set of candidates to a
  smaller one or to an answer, then `RepliesEnd`.
* `GhostsExpire` (`PhoneClient`): `GhostsAdvance`, from any set of lookups under
  way. A ghost expires or is put right, unless one of those lookups ends, or
  the service is found again. Fairness and enabledness are stated there for the
  one name, since the quantified ones of `FairSpec` cannot be instantiated in a
  temporal proof.

### What is only checked

`GuardsEnable`; `LeaksBounded`, which counts; the five liveness properties above
in their last step; and the four violations. Every other property of the passing
runs is stated by a theorem. No module declares a RECURSIVE operator.

## 6. What the code does not keep

Four runs expect a violation. Each checks one statement of the repository about
itself.

* `orch_rejoin`, `SilentWorkerReturns` (`orchestrator/app/discovery.py:80`).
  GOVERNANCE.md:58-59 lets workers disconnect and reconnect freely. A worker
  that was silent for too long is pruned; `touch()` ignores a name that is not
  registered; and the browser does not add a service again that it knows. Its
  heartbeats arrive for ever and it stays out.
* `sidecar_lost`, `AllPeersServed` (`worker/sidecar/main.py:98`).
  `ensure_future` raises on the thread of `ServiceBrowser`. The peer is in the
  registry and no restart follows.
* `win_quit_window`, `QuitCompletes`
  (`windows/orchestrator/app/launcher.py:49`). `stop()` waits for the lock on
  the Tk thread, the holder waits in `_notify` for that thread. It asks the
  same of "Quit" in the tray.
* `node_advert`, `OnAirServesRpc` (`windows/app/node.py:61`). README.md:45 says
  that workers run `llama-rpc-server` and advertise themselves. `start()`
  registers whatever it started as `_llama-rpc._tcp` with the RPC port, an
  orchestrator's `llama-server` too, and other orchestrators put it in `--rpc`.

Other behaviours that the models contain and that a maintainer should know of,
without a run of their own: `main()`'s first `start()` over a server that a
change callback has started (`orchestrator/app/main.py:63`), and two change
callbacks that both find nothing running while a launch still spawns
(`orchestrator/app/main.py:43`), either of which leaves the orphan of
`OrphanOnlyByStart`; a client that stalls in the middle of its body or of the
reply, which holds up the sidecar's shutdown for as long as it likes
(`worker/sidecar/main.py:332`); an exception before `lifespan()`'s yield, which
leaves `llama-rpc-server` behind (`worker/sidecar/main.py:231`); peers matched
by prefix (`worker/sidecar/main.py:105`); `llama-rpc-server`, which nothing restarts (`RpcExits`); the second
monitor of one crash, which stops the server that the first has just started
(`windows/orchestrator/app/launcher.py:148`); a restart thread that gets the
lock behind `stop()` and launches while the program leaves; overlapping taps on
the phone's Start, which make registrations that cannot be withdrawn
(`mobile/lib/services/worker_service.dart:38`), which is why
`ActiveIffAdvertised` speaks of a patient user; a selection in flight that
overrides the user's choice (`mobile/lib/services/inference_service.dart:49`).

On Windows: "Quit" in the tray while a restart is under way, and the window
closed with "No" before it is through: `_shutdown` runs in the Tk thread, too,
which then waits for the lock whose holder waits for that thread
(`windows/orchestrator/app/gui.py:422`); it is the second way to violate
`QuitCompletes`, and what `TrayQuitCompletes` excepts. A change that comes while `running` is false, between `_build_cmd`
and `Popen` for one, is dropped (`windows/orchestrator/app/gui.py:355`),
although README.md:48 promises a restart when workers join or leave; this is
the difference between `RosterServed` of `WindowsOrchestrator`, which no run
checks, and `RosterServedUnlessMissed`. A second startup sequence, by way of
"Back", replaces a launcher and leaves its server running for good, which is
why `QuitLeavesNothing` speaks of one launcher. In the node, closing the wizard
or a crash leaves the llama process behind (`windows/app/gui.py:79-87` handles
no close), and the next run starts another beside it; an installation directory
that exists skips the wizard, whatever the file says (`gui.py:84`); a save that
fails leaves an empty page (`gui.py:239-251`).

Seen while reading, outside the models: `windows/app/node.py:59` connects the
child to a pipe that nobody reads; the Windows orchestrator saves a
configuration that it never loads, and shows a management URL that nothing
serves; `worker/sidecar/main.py:345` speaks of token-by-token streaming where
`client.request` has read the whole reply.

## 7. Assumptions about what surrounds the code

* *zeroconf* is modelled as the code uses it. A service is reported as added
  once, until it is removed; an added service may not resolve, and one that
  does not is never tried again. A lookup on the event loop that raises has the
  effect of one that does not resolve. An announcement that repeats a record
  unchanged need not be reported, so that no delivery is assumed, except by
  `HeartbeatSpec` and by the bounds of `Heartbeat`.
* *asyncio*: one loop, tasks in FIFO order, FIFO locks; an exception in a task
  that nobody awaits ends that task alone. A signal before the handlers are
  installed ends the process. If the drain timeout and the exit coincide,
  `kill()` may raise.
* *uvicorn* on SIGTERM accepts nothing more and waits for the requests in
  flight before it lets `lifespan()` go on. *httpx* raises when the server is
  gone, or silent for the 300 seconds that the proxy sets.
* *Processes* exit whenever they like; a process that was sent SIGKILL, or
  `TerminateProcess` on Windows, is gone. Spawns may raise.
* *Tk*: a call from another thread is carried out by the main loop and waits
  for it.
* *Full nodes*: `Sidecar` has ENABLE_INFERENCE on; without it there is no
  `llama-server` and the proxy answers with an error.
* *ensure_future* on a thread without an event loop raises, as standard Python
  does; nothing in the sidecar installs a loop there.
* *The phone's native server* is simulated in the code
  (`worker_service.dart:95-106`), and so it is here: a delay that succeeds.

## 8. What is left out

* The native bridges (`RpcServerManager.kt`, `MainActivity.kt`,
  `LlamaBridge.swift`), which the Dart code never calls.
* The background isolate's notification text, themes, pages and wording; the
  GET handlers, `/health` and the cluster listing, which change no state.
* Configuration, but for the Windows node's file; firewall rules, scripts,
  containers, installers and CI: sequential I/O without state that others see.
  The configuration values that matter are constants or rigid variables of the
  modules.
* Windows orchestrator: the listener's add and remove are taken with labels
  equal to node names. Several launchers at once are seen in the steps of
  `WindowsWizard` only, not thread by thread.
* Sidecar: `_restart_inference_if_needed`, which is never reached
  (`sidecar_lost`), and requests beside the one that is followed.
* Wizard: a second tray icon, which "Finish" makes over the first; its "Quit"
  would be a third thread in `_shutdown`.
* Windows node: status windows and `discover_workers`, which only read.
* llama.cpp itself.

## 9. Plan

Done: the inventory; a model of every component that has state, the Windows
wizard, the node's configuration file and the sidecar's proxy included; eight
proof modules, with every safety property of the runs but one, the safety part
of the refinement for both orchestrators, and liveness as far as section 5 says.

Next:

1. several workers' heartbeats composed with the registry and the launcher, so
   that pruning and restarts are seen in time;
2. two full nodes, each a peer of the other: goodbyes, renames and crashes of
   one seen by the other.
