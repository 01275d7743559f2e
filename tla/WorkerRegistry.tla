--------------------------- MODULE WorkerRegistry ---------------------------
(***************************************************************************)
(* The orchestrator's registry of worker nodes                             *)
(* (orchestrator/app/discovery.py, class WorkerRegistry).                  *)
(*                                                                         *)
(* Every coroutine of the class takes the registry's asyncio.Lock and      *)
(* suspends nowhere inside it, so on the single event loop each one is a   *)
(* single atomic step.  A node's last_seen is abstracted to the one thing  *)
(* the code asks of it: whether it is older than WORKER_STALE_TIMEOUT.     *)
(*                                                                         *)
(* The operators below are the bodies of the coroutines; who calls them,   *)
(* and the on_change task that register and unregister schedule, is in     *)
(* module Orchestrator.                                                    *)
(***************************************************************************)
EXTENDS Naturals, FiniteSets

CONSTANTS
    Names,      \* worker names (the key of the _workers dict)
    Endpoints,  \* rpc endpoints, ip:port
    None        \* no entry for this name

ASSUME NoneAssumption == None \notin Endpoints

VARIABLES
    workers,    \* _workers: the endpoint registered under each name, or None
    stale       \* the registered names whose last_seen is too old

registryVars == <<workers, stale>>

\* What an --rpc list can be: an endpoint, or none, for each name.
Rosters == [Names -> Endpoints \cup {None}]

NoRoster == [n \in Names |-> None]

RegistryTypeOK == workers \in Rosters /\ stale \subseteq Names

RegistryInit == workers = NoRoster /\ stale = {}

-----------------------------------------------------------------------------
\* all_workers() and active_workers().
Registered == {n \in Names : workers[n] # None}

Active == Registered \ stale

\* The endpoints active_workers() hands to _build_cmd.
ActiveRoster == [n \in Names |-> IF n \in Active THEN workers[n] ELSE None]

\* register(): the entry is replaced by the freshly resolved node, whether or
\* not there was one; only the caller looks at `existing`.
Register(n, e) ==
    /\ workers' = [workers EXCEPT ![n] = e]
    /\ stale' = stale \ {n}

\* unregister(): pop(name, None).
Unregister(n) ==
    /\ workers' = [workers EXCEPT ![n] = None]
    /\ stale' = stale \ {n}

\* touch(): refreshes the entry if there is one, and does nothing otherwise.
\* The endpoint that the update carried is not looked at.
Touch(n) ==
    /\ stale' = stale \ {n}
    /\ UNCHANGED workers

\* is_stale becomes true as time passes in silence.
GoStale(n) ==
    /\ n \in Active
    /\ stale' = stale \cup {n}
    /\ UNCHANGED workers

\* prune_stale(): delete every stale entry.  on_change is not called.
PruneStale ==
    /\ stale # {}
    /\ workers' = [n \in Names |-> IF n \in stale THEN None ELSE workers[n]]
    /\ stale' = {}
=============================================================================
