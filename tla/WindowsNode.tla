---------------------------- MODULE WindowsNode ----------------------------
(***************************************************************************)
(* The Windows node application (windows/app): node.py, which starts and   *)
(* stops the llama process and its mDNS registration, the wizard and tray  *)
(* of gui.py that call it, and the configuration file of config.py that    *)
(* one run of the program hands to the next.                               *)
(*                                                                         *)
(* start() and stop() work on module globals without a lock, but only one  *)
(* thread at a time is let at them: the installer's, then the Tk thread    *)
(* through "Finish", then the tray's, one menu action after the other.  A  *)
(* call is cut where it can raise or where the process can exit under it.  *)
(*                                                                         *)
(* The program ends by "Exit", by the window's close button, by a crash or *)
(* with the machine, and may be launched again after each.                 *)
(***************************************************************************)
CONSTANTS
    Pids,       \* process identities
    NoProc      \* _proc is None

ASSUME NodeAssumption == NoProc \notin Pids

VARIABLES
    present, \* the installation directory exists, all along
    disk,    \* the role in config.json; "none": no such file, "torn": no JSON
    conf,    \* conf.role
    page,    \* the interface: a page of the wizard, "tray", "off", "dead"
    call,    \* what it is calling: "none", "start", "stop", "restart", "exit"
    at,      \* where in node.py that call is
    proc,    \* _proc
    alive,   \* the llama processes that run
    kind,    \* the role that each was started for
    zc,      \* _zc and _svc_info are both set: "held" or "none"
    air,     \* what _zc holds is advertised on the network: "on" or "off"
    leaked   \* so is one that a failed withdrawal gave up: "yes" or "no"

fileVars == <<present, disk>>
callVars == <<call, at>>
nodeVars == <<proc, alive, kind, zc, air, leaked>>

vars == <<fileVars, conf, page, callVars, nodeVars>>

Roles == {"worker", "orchestrator"}

Wizard == {"welcome", "role", "network",
           "blank",     \* an exception left the window empty
           "setup",     \* the installer's thread runs
           "done"}

\* Not running: never launched or left by "Exit", or ended in another way.
Ended == {"off", "dead"}

Places == {"idle", "deregister", "kill", "spawn", "register"}

\* Types of every variable.
TypeOK ==
    /\ present \in BOOLEAN
    /\ disk \in Roles \cup {"none", "torn"}
    /\ conf \in Roles
    /\ page \in Wizard \cup Ended \cup {"tray"}
    /\ call \in {"none", "start", "stop", "restart", "exit"}
    /\ at \in Places
    /\ proc \in Pids \cup {NoProc}
    /\ alive \subseteq Pids
    /\ kind \in [Pids -> Roles]
    /\ zc \in {"held", "none"}
    /\ air \in {"on", "off"}
    /\ leaked \in {"yes", "no"}

\* load(): defaults for a file that is missing or cannot be read.
Loaded == IF disk \in Roles THEN disk ELSE "worker"

Init ==
    /\ present \in BOOLEAN
    /\ disk = "none"
    /\ conf = "worker"
    /\ page = "off"
    /\ call = "none"
    /\ at = "idle"
    /\ proc = NoProc
    /\ alive = {}
    /\ kind = [p \in Pids |-> "worker"]
    /\ zc = "none"
    /\ air = "off"
    /\ leaked = "no"

Running == proc \in alive

Idle == at = "idle"

\* start() and stop() both begin with _deregister_mdns.
Begin(c) ==
    /\ Idle
    /\ call' = c
    /\ at' = "deregister"

\* The program is gone, with its threads and every Zeroconf that it made.
\* What llama processes it has are no one's.
End(as) ==
    /\ page' = as
    /\ call' = "none"
    /\ at' = "idle"
    /\ proc' = NoProc
    /\ zc' = "none"
    /\ air' = "off"
    /\ leaked' = "no"

\* The call returns or raises, and every caller carries on all the same: the
\* installer with "All done!", "Exit" with the end of the program.
Return ==
    \/ /\ call # "exit"
       /\ at' = "idle"
       /\ call' = "none"
       /\ page' = IF page = "setup" THEN "done" ELSE page
       /\ UNCHANGED <<zc, air, leaked>>
    \/ call = "exit" /\ End("off")

-----------------------------------------------------------------------------
(* gui.py and config.py.                                                   *)

\* App(): the configuration is loaded; run() looks for the directory, and not
\* for the configuration, to tell an installed node from a new one.
Launch ==
    /\ page \in Ended
    /\ conf' = Loaded
    /\ \/ /\ ~present
          /\ page' = "welcome"
          /\ UNCHANGED callVars
       \/ /\ present
          /\ page' = "tray"
          /\ Begin("start")
    /\ UNCHANGED <<fileVars, nodeVars>>

\* "Next" and "Back"; the role is taken over on the way to the network page.
Turn ==
    /\ \/ page = "welcome" /\ page' = "role" /\ UNCHANGED conf
       \/ page = "role" /\ page' = "welcome" /\ UNCHANGED conf
       \/ page = "role" /\ page' = "network" /\ conf' \in Roles
       \/ page = "network" /\ page' = "role" /\ UNCHANGED conf
    /\ UNCHANGED <<fileVars, callVars, nodeVars>>

\* Mutant of PageInstall: a configuration that is not saved stops nobody.
PageInstallAnyway ==
    /\ page = "network"
    /\ page' = "setup"
    /\ disk' \in {disk, conf, "torn"}
    /\ UNCHANGED <<present, conf, callVars, nodeVars>>

\* _page_install, up to its thread.  The page is cleared first of all: if a
\* field is no number, or saving raises, there is nothing on it.  save() opens
\* the file for writing and then fills it.
PageInstall ==
    /\ page = "network"
    /\ \/ page' = "blank" /\ disk' \in {disk, "torn"}
       \/ page' = "setup" /\ disk' = conf
    /\ UNCHANGED <<present, conf, callVars, nodeVars>>

\* _do_install comes to node.start().
Install ==
    /\ page = "setup"
    /\ Begin("start")
    /\ UNCHANGED <<fileVars, conf, page, nodeVars>>

\* "Finish": the tray, and another start() if the node is not running.
Finish ==
    /\ page = "done"
    /\ page' = "tray"
    /\ \/ ~Running /\ Begin("start")
       \/ Running /\ UNCHANGED callVars
    /\ UNCHANGED <<fileVars, conf, nodeVars>>

\* The tray's menu.
TrayAction(c) ==
    /\ page = "tray"
    /\ Begin(c)
    /\ UNCHANGED <<fileVars, conf, page, nodeVars>>

\* The wizard's close button, on any of its pages: nobody handles it, so that
\* it ends the program, in the middle of a call if there is one.
CloseWindow ==
    /\ page \in Wizard
    /\ End("dead")
    /\ UNCHANGED <<fileVars, conf, alive, kind>>

\* The program dies.
Crash ==
    /\ page \notin Ended
    /\ End("dead")
    /\ UNCHANGED <<fileVars, conf, alive, kind>>

\* The machine is switched off, in the middle of saving too.
PowerOff ==
    /\ End("dead")
    /\ alive' = {}
    /\ disk' \in IF page = "network" THEN {disk, "torn"} ELSE {disk}
    /\ UNCHANGED <<present, conf, kind>>

-----------------------------------------------------------------------------
(* node.py.                                                                *)

\* _deregister_mdns: the goodbye is sent, or an exception is swallowed and the
\* registration stays with a Zeroconf that nobody holds any more.
Deregister ==
    /\ at = "deregister"
    /\ \/ UNCHANGED leaked
       \/ zc = "held" /\ air = "on" /\ leaked' = "yes"
    /\ air' = "off"
    /\ zc' = "none"
    /\ at' = "kill"
    /\ UNCHANGED <<fileVars, conf, page, call, proc, alive, kind>>

\* Mutant of Kill: after the ten seconds the process is given up, not killed.
KillGivesUp ==
    /\ at = "kill"
    /\ proc' = NoProc
    /\ \/ alive' = alive \ {proc}
       \/ UNCHANGED alive
    /\ \/ call \in {"stop", "exit"} /\ Return
       \/ /\ call = "restart" /\ call' = "start" /\ at' = "deregister"
          /\ UNCHANGED <<page, zc, air, leaked>>
       \/ /\ call = "start" /\ at' = "spawn"
          /\ UNCHANGED <<page, call, zc, air, leaked>>
    /\ UNCHANGED <<fileVars, conf, kind>>

\* The rest of stop().  A restart is a stop() and then a start(), which is a
\* stop() first of all.
Kill ==
    /\ at = "kill"
    /\ proc' = NoProc
    /\ alive' = alive \ {proc}
    /\ \/ call \in {"stop", "exit"} /\ Return
       \/ /\ call = "restart" /\ call' = "start" /\ at' = "deregister"
          /\ UNCHANGED <<page, zc, air, leaked>>
       \/ /\ call = "start" /\ at' = "spawn"
          /\ UNCHANGED <<page, call, zc, air, leaked>>
    /\ UNCHANGED <<fileVars, conf, kind>>

\* Mutant of Spawn: a failed Popen does not end the call.
SpawnGoesOn ==
    /\ at = "spawn"
    /\ at' = "register"
    /\ \/ \E p \in Pids \ alive : /\ proc' = p
                                  /\ alive' = alive \cup {p}
                                  /\ kind' = [kind EXCEPT ![p] = conf]
       \/ UNCHANGED <<proc, alive, kind>>
    /\ UNCHANGED <<fileVars, conf, page, call, zc, air, leaked>>

\* Popen of the role's program, or its exception.
Spawn ==
    /\ at = "spawn"
    /\ \/ /\ \E p \in Pids \ alive : /\ proc' = p
                                     /\ alive' = alive \cup {p}
                                     /\ kind' = [kind EXCEPT ![p] = conf]
          /\ at' = "register"
          /\ UNCHANGED <<page, call, zc, air, leaked>>
       \/ /\ Return
          /\ UNCHANGED <<proc, alive, kind>>
    /\ UNCHANGED <<fileVars, conf>>

\* Mutant of Register: a registration that raises leaves _zc set alone.
RegisterHalf ==
    /\ at = "register"
    /\ \/ UNCHANGED <<zc, air>>
       \/ zc' = "half" /\ UNCHANGED air
       \/ zc' = "held" /\ leaked = "no" /\ air' = "on"
    /\ at' = "idle" /\ call' = "none"
    /\ UNCHANGED <<fileVars, conf, page, proc, alive, kind, leaked>>

\* _register_mdns, whatever the role: no Zeroconf can be made, or registration
\* raises (a name that is still taken), or the node is on the air.
Register ==
    /\ at = "register"
    /\ \/ UNCHANGED <<zc, air>>
       \/ zc' = "held" /\ UNCHANGED air
       \/ zc' = "held" /\ leaked = "no" /\ air' = "on"
    /\ at' = "idle"
    /\ call' = "none"
    /\ page' = IF page = "setup" THEN "done" ELSE page
    /\ UNCHANGED <<fileVars, conf, proc, alive, kind, leaked>>

\* llama exits; nobody watches it, and the registration stays.
ProcessExits(p) ==
    /\ p \in alive
    /\ alive' = alive \ {p}
    /\ UNCHANGED <<fileVars, conf, page, callVars, proc, kind, zc, air, leaked>>

User ==
    \/ Launch \/ Turn \/ PageInstall \/ Install \/ Finish \/ CloseWindow
    \/ \E c \in {"stop", "restart", "exit"} : TrayAction(c)

Node == Deregister \/ Kill \/ Spawn \/ Register

Fault == Crash \/ PowerOff \/ \E p \in Pids : ProcessExits(p)

Next == User \/ Node \/ Fault

Spec == Init /\ [][Next]_vars

-----------------------------------------------------------------------------
\* llama processes that no program can stop any more.
Orphans == alive \ {proc}

\* A llama process escapes from _proc only when the program ends otherwise than
\* by "Exit": no sequence of starts, stops, restarts and failures loses one,
\* in the first run of the program or in a later one beside earlier orphans.
OrphanOnlyByEnding ==
    [][Orphans' \subseteq Orphans \/ page' = "dead"]_vars

\* Between calls the node is on the air only if its last start() got as far as
\* a process: no failure of a start or a restart leaves an advertisement, held
\* by _zc, of a node that was never started.
OnAirOnlyStarted == Idle /\ air = "on" => proc # NoProc

\* The node runs in the role that its next run will load, wherever the wizard,
\* a failed save or a crash has left the file: a reboot changes no node's role.
RunsAsStored == proc # NoProc => kind[proc] = Loaded

\* "Workers run llama-rpc-server and advertise themselves" (README.md:45), so
\* what is advertised is one.  The code does not keep this: start() registers
\* an orchestrator's llama-server too, with the port of an RPC server.
OnAirServesRpc == Idle /\ air = "on" /\ Running => kind[proc] = "worker"
=============================================================================
