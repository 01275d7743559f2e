------------------------- MODULE InferenceLauncher -------------------------
(***************************************************************************)
(* The supervisor of the llama-server subprocess                           *)
(* (orchestrator/app/launcher.py, class InferenceLauncher).                *)
(*                                                                         *)
(* start(), restart() and stop() all run under _restart_lock, and an       *)
(* asyncio.Lock is granted in the order it was asked for: the callers are  *)
(* the sequence lockq, and its head, if any, holds the lock.  The holder's *)
(* coroutine is cut into segments at its awaits, and `phase` says where    *)
(* it is suspended.  The steps of other tasks may come between segments.   *)
(*                                                                         *)
(* llama-server itself is external: a live process may exit at any time    *)
(* (a crash, a failed bind), and one that was sent SIGTERM may take any    *)
(* time to obey.                                                           *)
(***************************************************************************)
EXTENDS WorkerRegistry, Sequences

CONSTANTS
    Pids,           \* process identities
    NoProc          \* _proc is None

ASSUME NoProcAssumption == NoProc \notin Pids

VARIABLES
    modelSet,   \* whether MODEL_PATH is non-empty; read once, at import
    lockq,      \* who holds (head) and who waits for _restart_lock
    phase,      \* where the holder is suspended
    snap,       \* the --rpc list of the last _build_cmd
    skipped,    \* the registered names that _build_cmd left out as stale
    proc,       \* _proc
    alive,      \* the llama-server processes that are running
    cmd,        \* the --rpc list each running process was started with
    launched    \* whether the last _launch got as far as a new process

launcherVars ==
    <<modelSet, lockq, phase, snap, skipped, proc, alive, cmd, launched>>

\* start() as called by on_worker_change, restart(), and the start() and
\* stop() that main() awaits.
Requests == {"start", "restart", "main_start", "stop"}

Starts == {"start", "main_start"}

Phases == {"idle",       \* waiting for its first turn with the lock
           "draining",   \* SIGTERM sent, in wait_for(proc.wait(), 15)
           "killing",    \* SIGKILL sent, in proc.wait()
           "spawning",   \* in create_subprocess_exec
           "health"}     \* in _wait_for_healthy

LauncherTypeOK ==
    /\ modelSet \in BOOLEAN
    /\ lockq \in Seq(Requests)
    /\ phase \in Phases
    /\ snap \in Rosters
    /\ skipped \subseteq Names
    /\ proc \in Pids \cup {NoProc}
    /\ alive \subseteq Pids
    /\ cmd \in [Pids -> Rosters]
    /\ launched \in BOOLEAN

LauncherInit ==
    /\ modelSet \in BOOLEAN
    /\ lockq = <<>>
    /\ phase = "idle"
    /\ snap = NoRoster
    /\ skipped = {}
    /\ proc = NoProc
    /\ alive = {}
    /\ cmd = [p \in Pids |-> NoRoster]
    /\ launched = TRUE

-----------------------------------------------------------------------------
\* The `running` property: _proc is set and has not returned.
Running == proc \in alive

\* A caller asks for the lock.
Ask(r) == lockq' = Append(lockq, r)

Held == lockq # <<>>

Holder == Head(lockq)

\* The holder leaves its `async with` block.
Release == lockq' = Tail(lockq) /\ phase' = "idle"

\* _launch() up to its first suspension.  A missing model ends the call, with
\* the server as _stop_server left it; otherwise the command line is fixed
\* here, before the process exists.
BeginLaunch ==
    \/ /\ Release
       /\ launched' = FALSE
       /\ UNCHANGED <<snap, skipped>>
    \/ /\ modelSet
       /\ snap' = ActiveRoster
       /\ skipped' = Registered \cap stale
       /\ phase' = "spawning"
       /\ UNCHANGED <<lockq, launched>>

\* start(), first segment: nothing asks whether a server is running already.
BeginStart ==
    /\ phase = "idle" /\ Held /\ Holder \in Starts
    /\ BeginLaunch
    /\ UNCHANGED <<modelSet, proc, alive, cmd>>

\* restart() or stop() finds a live server: SIGTERM, then wait.
BeginDrain ==
    /\ phase = "idle" /\ Held /\ Holder \in {"restart", "stop"}
    /\ Running
    /\ phase' = "draining"
    /\ UNCHANGED <<modelSet, lockq, snap, skipped, proc, alive, cmd, launched>>

\* What follows _stop_server in restart() and in stop().
AfterStop ==
    \/ Holder = "restart" /\ BeginLaunch
    \/ /\ Holder = "stop"
       /\ Release
       /\ UNCHANGED <<snap, skipped, launched>>

\* Mutant of BeginNotRunning: restart() forgets _stop_server().
BeginWithoutStop ==
    /\ phase = "idle" /\ Held /\ Holder \in {"restart", "stop"}
    /\ AfterStop
    /\ UNCHANGED <<modelSet, proc, alive, cmd>>

\* restart() or stop() finds none: the early return of _stop_server, which
\* leaves _proc alone.
BeginNotRunning ==
    /\ phase = "idle" /\ Held /\ Holder \in {"restart", "stop"}
    /\ ~Running
    /\ AfterStop
    /\ UNCHANGED <<modelSet, proc, alive, cmd>>

\* Mutant of DrainTimeout: SIGKILL is for those who have obeyed.
DrainWithoutTimeout ==
    /\ phase = "draining" /\ ~Running
    /\ phase' = "killing"
    /\ UNCHANGED <<modelSet, lockq, snap, skipped, proc, alive, cmd, launched>>

\* Fifteen seconds passed and the process is still there: SIGKILL.
DrainTimeout ==
    /\ phase = "draining" /\ Running
    /\ phase' = "killing"
    /\ UNCHANGED <<modelSet, lockq, snap, skipped, proc, alive, cmd, launched>>

\* The timeout and the exit coincide: wait_for has given up, the process is
\* reaped before kill() is reached, and kill() raises ProcessLookupError.
\* The lock is released and nothing is launched.
KillRaises ==
    /\ phase = "draining" /\ ~Running
    /\ Release
    /\ launched' = FALSE
    /\ UNCHANGED <<modelSet, snap, skipped, proc, alive, cmd>>

\* proc.wait() returns: _proc becomes None and the caller goes on.
DrainEnds ==
    /\ phase \in {"draining", "killing"} /\ ~Running
    /\ proc' = NoProc
    /\ AfterStop
    /\ UNCHANGED <<modelSet, alive, cmd>>

\* create_subprocess_exec returns: _proc is overwritten, whatever it was.
SpawnSucceeds ==
    /\ phase = "spawning"
    /\ \E p \in Pids \ alive :
          /\ proc' = p
          /\ alive' = alive \cup {p}
          /\ cmd' = [cmd EXCEPT ![p] = snap]
    /\ phase' = "health"
    /\ launched' = TRUE
    /\ UNCHANGED <<modelSet, lockq, snap, skipped>>

\* create_subprocess_exec raises (no such binary, no resources): the lock is
\* released and _proc keeps its value.
SpawnRaises ==
    /\ phase = "spawning"
    /\ Release
    /\ launched' = FALSE
    /\ UNCHANGED <<modelSet, snap, skipped, proc, alive, cmd>>

\* Mutant of HealthReturns: the poll has no deadline, and a server that died
\* never answers it.
HealthWithoutDeadline ==
    /\ phase = "health" /\ Running
    /\ Release
    /\ UNCHANGED <<modelSet, snap, skipped, proc, alive, cmd, launched>>

\* _wait_for_healthy returns, on a 200 or at its deadline alike.
HealthReturns ==
    /\ phase = "health"
    /\ Release
    /\ UNCHANGED <<modelSet, snap, skipped, proc, alive, cmd, launched>>

\* A llama-server exits.  _watch_process only logs it.
ProcExit(p) ==
    /\ p \in alive
    /\ alive' = alive \ {p}
    /\ cmd' = [cmd EXCEPT ![p] = NoRoster]
    /\ UNCHANGED <<modelSet, lockq, phase, snap, skipped, proc, launched>>

-----------------------------------------------------------------------------
\* The steps of the holder that return or suspend, and those that raise.
HolderStep ==
    \/ BeginStart \/ BeginDrain \/ BeginNotRunning
    \/ DrainTimeout \/ DrainEnds
    \/ SpawnSucceeds \/ HealthReturns

HolderRaises == SpawnRaises \/ KillRaises

\* The holder r is done in this step.
Returns(r) == Held /\ Holder = r /\ lockq' = Tail(lockq)

\* Processes that run but that the launcher no longer holds: nothing will
\* ever stop them.
Orphans == alive \ {proc}
=============================================================================
