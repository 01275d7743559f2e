------------------------- MODULE OrchestratorProofs -------------------------
(***************************************************************************)
(* What is proved of module Orchestrator for every set of names, services, *)
(* endpoints and processes, every naming of the services and every bound   *)
(* on the tasks: that the variables keep their types, that LauncherInv is  *)
(* inductive, from it RosterServed and OrphanOnlyByStart, that every step  *)
(* is one that RosterTracking allows, EndpointsServed, and that whoever    *)
(* waits in a queue gets on.                                               *)
(***************************************************************************)
EXTENDS Orchestrator, SequenceTheorems, TLAPS

USE DEF Up, Room, HeadIs, Held, Holder

-----------------------------------------------------------------------------
(* Queues.                                                                 *)

\* Taking from the front of a queue and adding at its end keep its type.
LEMMA QueueTypes ==
    ASSUME NEW S, NEW q \in Seq(S)
    PROVE  /\ q # <<>> => Head(q) \in S /\ Tail(q) \in Seq(S)
           /\ \A x \in S : Append(q, x) \in Seq(S)
  OBVIOUS

-----------------------------------------------------------------------------
(* Types.                                                                  *)

\* The command line that _build_cmd makes is a roster.
LEMMA RosterTypes ==
    ASSUME RegistryTypeOK
    PROVE  ActiveRoster \in Rosters /\ NoRoster \in Rosters
  BY DEF RegistryTypeOK, ActiveRoster, Rosters, NoRoster

LEMMA BeginLaunchTypes ==
    ASSUME TypeOK, BeginLaunch, Held
    PROVE  /\ lockq' \in Seq(Requests)
           /\ phase' \in Phases
           /\ snap' \in Rosters
           /\ skipped' \subseteq Names
           /\ launched' \in BOOLEAN
<1> USE DEF TypeOK, LauncherTypeOK, RegistryTypeOK
<1>1. lockq \in Seq(Requests) /\ Tail(lockq) \in Seq(Requests)
  BY QueueTypes
<1>2. ActiveRoster \in Rosters
  BY RosterTypes
<1> QED
  BY <1>1, <1>2 DEF BeginLaunch, Release, Phases

\* Every segment of the holder's coroutine keeps the launcher's types.
LEMMA HolderTypes ==
    ASSUME TypeOK, HolderStep \/ HolderRaises, PhaseInv
    PROVE  LauncherTypeOK'
<1> USE DEF TypeOK, LauncherTypeOK
<1>1. lockq # <<>> => Tail(lockq) \in Seq(Requests)
  BY QueueTypes
<1>2. CASE BeginStart
  BY <1>2, BeginLaunchTypes DEF BeginStart
<1>3. CASE BeginDrain
  BY <1>3 DEF BeginDrain, Phases
<1>4. ASSUME AfterStop, Held
      PROVE  /\ lockq' \in Seq(Requests)
             /\ phase' \in Phases
             /\ snap' \in Rosters
             /\ skipped' \subseteq Names
             /\ launched' \in BOOLEAN
  BY <1>4, <1>1, BeginLaunchTypes DEF AfterStop, Release, Phases
<1>5. CASE BeginNotRunning
  BY <1>5, <1>4 DEF BeginNotRunning
<1>6. CASE DrainTimeout
  BY <1>6 DEF DrainTimeout, Phases
<1>7. CASE DrainEnds
  BY <1>7, <1>4 DEF DrainEnds, PhaseInv
<1>8. CASE SpawnSucceeds
  BY <1>8 DEF SpawnSucceeds, Phases
<1>9. CASE HealthReturns
  BY <1>9, <1>1 DEF HealthReturns, PhaseInv, Release, Phases
<1>10. CASE SpawnRaises
  BY <1>10, <1>1 DEF SpawnRaises, PhaseInv, Release, Phases
<1>11. CASE KillRaises
  BY <1>11, <1>1 DEF KillRaises, PhaseInv, Release, Phases
<1> QED
  BY <1>2, <1>3, <1>5, <1>6, <1>7, <1>8, <1>9, <1>10, <1>11
     DEF HolderStep, HolderRaises

\* The tasks that the handlers schedule are tasks.
LEMMA TaskTypes ==
    /\ Change \in Tasks /\ Restart \in Tasks
    /\ \A n \in Names : /\ [op |-> "touch", name |-> n] \in Tasks
                        /\ [op |-> "unregister", name |-> n] \in Tasks
                        /\ \A e \in Endpoints :
                              [op |-> "register", name |-> n, ep |-> e] \in Tasks
  BY DEF Change, Restart, Tasks

\* What a task carries is what its kind says.
LEMMA TaskFields ==
    ASSUME NEW t \in Tasks
    PROVE  /\ t.op \in {"register", "unregister", "touch"} => t.name \in Names
           /\ t.op = "register" => t.ep \in Endpoints
  BY DEF Tasks

\* Every registry coroutine keeps the registry's types.
LEMMA RegistryTypes ==
    ASSUME RegistryTypeOK, NEW n \in Names, NEW e \in Endpoints,
           Register(n, e) \/ Unregister(n) \/ Touch(n) \/ GoStale(n) \/ PruneStale
    PROVE  RegistryTypeOK'
  BY DEF RegistryTypeOK, Rosters, Register, Unregister, Touch, GoStale,
         PruneStale, Active, Registered

\* Init satisfies the types.
LEMMA TypeInit == Init => TypeOK
  BY NodeNameAssumption
     DEF Init, TypeOK, RegistryInit, RegistryTypeOK, LauncherInit,
         LauncherTypeOK, NoRoster, Rosters, Phases, MainStates

\* Every step keeps the types.  (PhaseInv is needed for Tail(lockq).)
LEMMA TypeStep == TypeOK /\ PhaseInv /\ [Next]_vars => TypeOK'
<1> SUFFICES ASSUME TypeOK, PhaseInv, [Next]_vars
             PROVE  TypeOK'
  OBVIOUS
<1> USE DEF TypeOK
<1>1. \A t \in Tasks : Append(ready, t) \in Seq(Tasks)
  BY QueueTypes
<1>2. \A r \in Requests : Append(lockq, r) \in Seq(Requests)
  BY QueueTypes DEF LauncherTypeOK
<1>3. ready # <<>> => /\ Head(ready) \in Tasks /\ Tail(ready) \in Seq(Tasks)
                      /\ \A t \in Tasks : Append(Tail(ready), t) \in Seq(Tasks)
  BY QueueTypes
<1>4. ASSUME NEW r \in Requests, OnlyAsk(r)
      PROVE  LauncherTypeOK'
  BY <1>4, <1>2 DEF OnlyAsk, Ask, LauncherTypeOK
<1>5. UNCHANGED launcherVars => LauncherTypeOK'
  BY DEF LauncherTypeOK, launcherVars
<1>6. UNCHANGED registryVars => RegistryTypeOK'
  BY DEF RegistryTypeOK, registryVars
<1>7. ASSUME NEW s \in Services, AddService(s) \/ UpdateService(s) \/ RemoveService(s)
      PROVE  TypeOK'
  BY <1>7, <1>1, <1>5, <1>6, TaskTypes, ServicesAssumption, NodeNameAssumption
     DEF AddService, UpdateService, RemoveService, Schedule
<1>8. ASSUME NEW n \in Names, Silence(n)
      PROVE  TypeOK'
  BY <1>8, <1>5 DEF Silence, GoStale, Active, Registered, RegistryTypeOK
<1>9. ASSUME NEW p \in Pids, Exit(p)
      PROVE  TypeOK'
  <2>1. NoRoster \in Rosters
    BY RosterTypes
  <2> QED
    BY <1>9, <1>6, <2>1 DEF Exit, ProcExit, LauncherTypeOK
<1>10. CASE PostRestart
  BY <1>10, <1>1, <1>5, <1>6, TaskTypes DEF PostRestart, Schedule
<1>11. CASE EarlySignal
  BY <1>11, <1>5, <1>6 DEF EarlySignal, MainStates
<1>12. CASE Signal
  BY <1>12, <1>4, <1>6 DEF Signal, MainStates, Requests
<1>13. CASE RunRegister
  <2> DEFINE t == Head(ready)
  <2>1. t \in Tasks /\ t.name \in Names /\ t.ep \in Endpoints
    BY <1>13, <1>3, TaskFields DEF RunRegister
  <2>2. RegistryTypeOK'
    BY <1>13, <2>1, RegistryTypes DEF RunRegister
  <2> QED
    BY <1>13, <1>3, <1>5, <2>2, TaskTypes DEF RunRegister
<1>14. CASE RunUnregister
  <2> DEFINE n == Head(ready).name
  <2>1. n \in Names
    BY <1>14, <1>3, TaskFields DEF RunUnregister
  <2>2. RegistryTypeOK'
    BY <1>14, <2>1 DEF RunUnregister, Unregister, RegistryTypeOK, Rosters
  <2> QED
    BY <1>14, <1>3, <1>5, <2>2, TaskTypes DEF RunUnregister
<1>15. CASE RunTouch
  BY <1>15, <1>3, <1>5 DEF RunTouch, Touch, RegistryTypeOK
<1>16. CASE RunChange
  BY <1>16, <1>3, <1>4, <1>6 DEF RunChange, Requests
<1>17. CASE RunRestart
  BY <1>17, <1>3, <1>4, <1>6 DEF RunRestart, Requests
<1>18. CASE Prune
  <2>1. RegistryTypeOK'
    BY <1>18 DEF Prune, PruneStale, RegistryTypeOK, Rosters
  <2> QED
    BY <1>18, <2>1, <1>1, <1>5, TaskTypes DEF Prune, Schedule
<1>19. CASE WindowEnds
  BY <1>19, <1>4, <1>5, <1>6 DEF WindowEnds, Requests, MainStates
<1>20. CASE HolderRuns
  BY <1>20, <1>6, HolderTypes DEF HolderRuns, MainStates
<1>21. CASE HolderFails
  BY <1>21, <1>6, HolderTypes DEF HolderFails, MainStates
<1>22. CASE Close
  BY <1>22, <1>5, <1>6 DEF Close, MainStates
<1>23. CASE UNCHANGED vars
  BY <1>23, <1>5, <1>6 DEF vars
<1> QED
  BY <1>7, <1>8, <1>9, <1>10, <1>11, <1>12, <1>13, <1>14, <1>15, <1>16,
     <1>17, <1>18, <1>19, <1>20, <1>21, <1>22, <1>23
     DEF Next, Environment, System, RunTask, Terminated

-----------------------------------------------------------------------------
(* The lock and the phases.                                                *)

\* Asking for the lock does not disturb who holds it, and keeps PhaseInv.
LEMMA AskKeepsPhaseInv ==
    ASSUME TypeOK, PhaseInv, NEW r \in Requests, OnlyAsk(r)
    PROVE  PhaseInv'
<1>1. /\ lockq \in Seq(Requests)
      /\ lockq' = Append(lockq, r)
      /\ lockq' # <<>>
      /\ lockq # <<>> => Head(lockq') = Head(lockq)
  BY DEF TypeOK, LauncherTypeOK, OnlyAsk, Ask
<1> QED
  BY <1>1 DEF OnlyAsk, PhaseInv, Running

\* A segment of the holder keeps PhaseInv.
LEMMA HolderKeepsPhaseInv ==
    ASSUME TypeOK, PhaseInv, HolderStep \/ HolderRaises
    PROVE  PhaseInv'
<1> USE DEF PhaseInv, Running
<1>1. ASSUME Release
      PROVE  PhaseInv'
  BY <1>1 DEF Release
<1>2. CASE BeginStart
  BY <1>2, <1>1 DEF BeginStart, BeginLaunch, Starts
<1>3. CASE BeginDrain
  BY <1>3 DEF BeginDrain
<1>4. CASE BeginNotRunning
  BY <1>4, <1>1 DEF BeginNotRunning, AfterStop, BeginLaunch
<1>5. CASE DrainTimeout
  BY <1>5 DEF DrainTimeout
<1>6. CASE DrainEnds
  <2>1. proc' \notin alive'
    BY <1>6, NoProcAssumption DEF DrainEnds, TypeOK, LauncherTypeOK
  <2> QED
    BY <1>6, <1>1, <2>1 DEF DrainEnds, AfterStop, BeginLaunch
<1>7. CASE SpawnSucceeds
  BY <1>7 DEF SpawnSucceeds
<1>8. CASE HealthReturns
  BY <1>8, <1>1 DEF HealthReturns
<1>9. CASE HolderRaises
  BY <1>9, <1>1 DEF HolderRaises, SpawnRaises, KillRaises
<1> QED
  BY <1>2, <1>3, <1>4, <1>5, <1>6, <1>7, <1>8, <1>9 DEF HolderStep

\* No other step does more to the launcher than ask for its lock, or see a
\* process exit.
LEMMA LauncherFrame ==
    ASSUME [Next]_vars
    PROVE  \/ HolderStep \/ HolderRaises
           \/ \E r \in Requests : OnlyAsk(r)
           \/ \E p \in Pids : ProcExit(p)
           \/ UNCHANGED launcherVars
  BY DEF Next, Environment, System, RunTask, Terminated, vars, AddService,
         UpdateService, RemoveService, Silence, Exit, PostRestart, EarlySignal,
         Signal, RunRegister, RunUnregister, RunTouch, RunChange, RunRestart,
         Prune, WindowEnds, HolderRuns, HolderFails, Close, Requests

LEMMA PhaseStep == TypeOK /\ PhaseInv /\ [Next]_vars => PhaseInv'
<1> SUFFICES ASSUME TypeOK, PhaseInv, [Next]_vars
             PROVE  PhaseInv'
  OBVIOUS
<1>1. ASSUME NEW p \in Pids, ProcExit(p)
      PROVE  PhaseInv'
  BY <1>1 DEF ProcExit, PhaseInv, Running
<1>2. CASE UNCHANGED launcherVars
  BY <1>2 DEF launcherVars, PhaseInv, Running
<1> QED
  BY <1>1, <1>2, LauncherFrame, AskKeepsPhaseInv, HolderKeepsPhaseInv

-----------------------------------------------------------------------------
(* The last snapshot.                                                      *)

\* A request or a task that relaunches, once added, is outstanding.
LEMMA AddedIsOutstanding ==
    ASSUME TypeOK, PhaseInv
    PROVE  /\ \A t \in Tasks : /\ t.op \in {"change", "restart"}
                               /\ \/ ready' = Append(ready, t)
                                  \/ ready # <<>> /\ ready' = Append(Tail(ready), t)
                               => ChangeOutstanding'
           /\ \A r \in Requests : OnlyAsk(r) /\ r # "stop" => ChangeOutstanding'
<1>1. ASSUME NEW t \in Tasks, t.op \in {"change", "restart"},
             \/ ready' = Append(ready, t)
             \/ ready # <<>> /\ ready' = Append(Tail(ready), t)
      PROVE  ChangeOutstanding'
  <2>1. ready \in Seq(Tasks)
    BY DEF TypeOK
  <2>2. Len(ready') \in DOMAIN ready' /\ ready'[Len(ready')] = t
    BY <1>1, <2>1
  <2> QED
    BY <1>1, <2>2 DEF ChangeOutstanding
<1>2. ASSUME NEW r \in Requests, OnlyAsk(r), r # "stop"
      PROVE  ChangeOutstanding'
  <2>1. lockq \in Seq(Requests)
    BY DEF TypeOK, LauncherTypeOK
  <2>2. /\ Len(lockq') \in DOMAIN lockq' /\ lockq'[Len(lockq')] = r
        /\ lockq # <<>> => Len(lockq') > 1
    BY <1>2, <2>1 DEF OnlyAsk, Ask
  <2>3. lockq = <<>> => phase' = "idle"
    BY <1>2 DEF OnlyAsk, PhaseInv
  <2> QED
    BY <1>2, <2>2, <2>3 DEF ChangeOutstanding
<1> QED
  BY <1>1, <1>2

\* What is outstanding stays so while the queues only grow.
LEMMA OutstandingStays ==
    ASSUME TypeOK, PhaseInv, ChangeOutstanding,
           \/ UNCHANGED ready
           \/ \E t \in Tasks : Schedule(t)
           \/ /\ ready # <<>> /\ Head(ready).op \notin {"change", "restart"}
              /\ \/ ready' = Tail(ready)
                 \/ \E t \in Tasks : ready' = Append(Tail(ready), t),
           \/ UNCHANGED <<lockq, phase>>
           \/ \E r \in Requests : OnlyAsk(r)
    PROVE  ChangeOutstanding'
<1>1. ready \in Seq(Tasks) /\ lockq \in Seq(Requests)
  BY DEF TypeOK, LauncherTypeOK
<1>2. ASSUME NEW i \in DOMAIN ready, ready[i].op \in {"change", "restart"}
      PROVE  ChangeOutstanding'
  <2>1. CASE UNCHANGED ready \/ \E t \in Tasks : Schedule(t)
    <3>1. i \in DOMAIN ready' /\ ready'[i] = ready[i]
      BY <2>1, <1>1 DEF Schedule
    <3> QED
      BY <1>2, <3>1 DEF ChangeOutstanding
  <2>2. CASE /\ ready # <<>> /\ Head(ready).op \notin {"change", "restart"}
             /\ \/ ready' = Tail(ready)
                \/ \E t \in Tasks : ready' = Append(Tail(ready), t)
    <3>1. i # 1
      BY <1>1, <1>2, <2>2
    <3>2. i - 1 \in DOMAIN ready' /\ ready'[i - 1] = ready[i]
      BY <1>1, <2>2, <3>1
    <3> QED
      BY <1>2, <3>2 DEF ChangeOutstanding
  <2> QED
    BY <2>1, <2>2
<1>3. ASSUME NEW i \in DOMAIN lockq, lockq[i] # "stop",
             i > 1 \/ phase \in {"idle", "draining", "killing"}
      PROVE  ChangeOutstanding'
  <2>1. i \in DOMAIN lockq' /\ lockq'[i] = lockq[i] /\ phase' = phase
    BY <1>1 DEF OnlyAsk, Ask
  <2> QED
    BY <1>3, <2>1 DEF ChangeOutstanding
<1> QED
  BY <1>2, <1>3 DEF ChangeOutstanding

\* Giving the lock back drops nothing that is outstanding, if the holder had
\* taken its snapshot or was stop().
LEMMA ReleaseKeepsOutstanding ==
    ASSUME TypeOK, Held, Release, UNCHANGED ready, ChangeOutstanding,
           Holder = "stop" \/ phase \in {"spawning", "health"}
    PROVE  ChangeOutstanding'
<1>1. lockq \in Seq(Requests)
  BY DEF TypeOK, LauncherTypeOK
<1>2. CASE \E i \in DOMAIN ready : ready[i].op \in {"change", "restart"}
  BY <1>2 DEF ChangeOutstanding
<1>3. ASSUME NEW i \in DOMAIN lockq, lockq[i] # "stop",
             i > 1 \/ phase \in {"idle", "draining", "killing"}
      PROVE  ChangeOutstanding'
  <2>1. i # 1
    BY <1>1, <1>3
  <2>2. i - 1 \in DOMAIN lockq' /\ lockq'[i - 1] = lockq[i] /\ phase' = "idle"
    BY <1>1, <2>1 DEF Release
  <2> QED
    BY <1>3, <2>2 DEF ChangeOutstanding
<1> QED
  BY <1>2, <1>3 DEF ChangeOutstanding

\* A launch that gets past the model check takes a snapshot that agrees with
\* the registry; one that does not records the failure.
LEMMA BeginLaunchAgrees ==
    ASSUME TypeOK, BeginLaunch, UNCHANGED registryVars
    PROVE  \/ phase' = "spawning" /\ SnapAgrees'
           \/ phase' = "idle" /\ ~launched'
<1>1. CASE phase' = "spawning"
  <2>1. snap' = ActiveRoster /\ skipped' = Registered \cap stale
    BY <1>1 DEF BeginLaunch, Release
  <2>2. {n \in Names : snap'[n] # None} = Registered \ stale
    BY <2>1 DEF ActiveRoster, Active, Registered
  <2>3. Registered' = Registered
    BY DEF Registered, registryVars
  <2> QED
    BY <1>1, <2>1, <2>2, <2>3 DEF SnapAgrees, Considered
<1> QED
  BY <1>1 DEF BeginLaunch, Release

LEMMA HolderKeepsSnapInv ==
    ASSUME LauncherInv, HolderStep \/ HolderRaises,
           UNCHANGED <<registryVars, ready>>
    PROVE  SnapInv'
<1> USE DEF LauncherInv, Running
<1>1. ASSUME UNCHANGED <<snap, skipped>>, SnapAgrees
      PROVE  SnapAgrees'
  BY <1>1 DEF SnapAgrees, Considered, Registered, registryVars
<1>2. CASE BeginStart
  BY <1>2, BeginLaunchAgrees DEF BeginStart, SnapInv
<1>3. ASSUME UNCHANGED <<lockq, snap, skipped, proc, alive, cmd, launched>>,
             phase \in {"idle", "draining"}, phase' \in {"draining", "killing"}
      PROVE  SnapInv'
  <2>1. ChangeOutstanding' <=> ChangeOutstanding
    BY <1>3 DEF ChangeOutstanding
  <2> QED
    BY <1>1, <1>3, <2>1 DEF SnapInv
<1>4. ASSUME UNCHANGED <<snap, skipped, launched>>, Held, Release,
             Holder = "stop" \/ phase \in {"spawning", "health"}
      PROVE  ~ChangeOutstanding' /\ launched' => SnapAgrees'
  BY <1>1, <1>4, ReleaseKeepsOutstanding DEF SnapInv
<1>5. ASSUME AfterStop, ~(proc' \in alive'), Held
      PROVE  SnapInv'
  <2>1. CASE Holder = "restart" /\ BeginLaunch
    BY <1>5, <2>1, BeginLaunchAgrees DEF SnapInv
  <2>2. CASE Holder = "stop" /\ Release /\ UNCHANGED <<snap, skipped, launched>>
    BY <1>4, <1>5, <2>2 DEF SnapInv, Release
  <2> QED
    BY <1>5, <2>1, <2>2 DEF AfterStop
<1>6. CASE BeginDrain
  BY <1>3, <1>6 DEF BeginDrain
<1>7. CASE BeginNotRunning
  BY <1>5, <1>7 DEF BeginNotRunning
<1>8. CASE DrainTimeout
  BY <1>3, <1>8 DEF DrainTimeout
<1>9. CASE DrainEnds
  <2>1. ~(proc' \in alive')
    BY <1>9, NoProcAssumption DEF DrainEnds, TypeOK, LauncherTypeOK
  <2> QED
    BY <1>5, <1>9, <2>1 DEF DrainEnds, PhaseInv
<1>10. CASE SpawnSucceeds
  <2>1. ChangeOutstanding' <=> ChangeOutstanding
    BY <1>10 DEF SpawnSucceeds, ChangeOutstanding
  <2>2. cmd'[proc'] = snap'
    BY <1>10 DEF SpawnSucceeds, TypeOK, LauncherTypeOK
  <2> QED
    BY <1>1, <1>10, <2>1, <2>2 DEF SpawnSucceeds, SnapInv
<1>11. CASE HealthReturns
  BY <1>4, <1>11 DEF HealthReturns, PhaseInv, SnapInv, Release
<1>12. CASE HolderRaises
  BY <1>12 DEF HolderRaises, SpawnRaises, KillRaises, Release, SnapInv
<1> QED
  BY <1>2, <1>6, <1>7, <1>8, <1>9, <1>10, <1>11, <1>12 DEF HolderStep

\* A step outside the launcher keeps SnapInv if it leaves the set of
\* registered names alone or makes a change outstanding.
LEMMA OthersKeepSnapInv ==
    ASSUME LauncherInv,
           UNCHANGED <<snap, skipped, phase, proc, alive, cmd, launched>>,
           ChangeOutstanding' \/ (/\ Registered' = Registered
                                  /\ ChangeOutstanding => ChangeOutstanding')
    PROVE  SnapInv'
  BY DEF LauncherInv, SnapInv, SnapAgrees, Considered, Running

LEMMA SnapStep == LauncherInv /\ [Next]_vars => SnapInv'
<1> SUFFICES ASSUME LauncherInv, [Next]_vars
             PROVE  SnapInv'
  OBVIOUS
<1> USE DEF LauncherInv
<1>1. TypeOK /\ PhaseInv
  OBVIOUS
<1>2. ASSUME UNCHANGED <<registryVars, launcherVars>>,
             UNCHANGED ready \/ \E t \in Tasks : Schedule(t)
      PROVE  SnapInv'
  <2>1. ChangeOutstanding => ChangeOutstanding'
    BY <1>1, <1>2, OutstandingStays DEF launcherVars
  <2> QED
    BY <1>2, <2>1, OthersKeepSnapInv DEF launcherVars, registryVars, Registered
<1>3. ASSUME NEW r \in Requests, OnlyAsk(r), UNCHANGED registryVars,
             r # "stop" \/ UNCHANGED ready
      PROVE  SnapInv'
  <2>1. ChangeOutstanding' \/ (ChangeOutstanding => ChangeOutstanding')
    BY <1>1, <1>3, AddedIsOutstanding, OutstandingStays
  <2> QED
    BY <1>3, <2>1, OthersKeepSnapInv DEF OnlyAsk, registryVars, Registered
<1>4. ASSUME NEW s \in Services, AddService(s) \/ UpdateService(s) \/ RemoveService(s)
      PROVE  SnapInv'
  BY <1>2, <1>4, TaskTypes, ServicesAssumption, NodeNameAssumption
     DEF AddService, UpdateService, RemoveService
<1>5. ASSUME NEW n \in Names, Silence(n)
      PROVE  SnapInv'
  <2>1. ChangeOutstanding => ChangeOutstanding'
    BY <1>5 DEF Silence, ChangeOutstanding, launcherVars
  <2> QED
    BY <1>5, <2>1, OthersKeepSnapInv
       DEF Silence, GoStale, Registered, launcherVars
<1>6. ASSUME NEW p \in Pids, Exit(p)
      PROVE  SnapInv'
  BY <1>6 DEF Exit, ProcExit, SnapInv, SnapAgrees, Considered, Registered, registryVars,
              ChangeOutstanding, Running, TypeOK, LauncherTypeOK
<1>7. CASE PostRestart \/ EarlySignal \/ Close
  BY <1>2, <1>7, TaskTypes DEF PostRestart, EarlySignal, Close
<1>8. CASE Signal \/ RunChange \/ RunRestart \/ WindowEnds
  BY <1>2, <1>3, <1>8
     DEF Signal, RunChange, RunRestart, WindowEnds, Requests
<1>9. CASE RunRegister \/ RunUnregister
  <2> DEFINE n == Head(ready).name
  <2>1. Head(ready) \in Tasks /\ n \in Names
    BY <1>1, <1>9, QueueTypes, TaskFields
       DEF RunRegister, RunUnregister, TypeOK
  <2>2. CASE ready' = Append(Tail(ready), Change)
    <3>1. ChangeOutstanding'
      BY <1>1, <1>9, <2>2, AddedIsOutstanding, TaskTypes
         DEF RunRegister, RunUnregister, Change
    <3> QED
      BY <1>9, <3>1, OthersKeepSnapInv DEF RunRegister, RunUnregister, launcherVars
  <2>3. CASE ready' = Tail(ready)
    <3>1. ChangeOutstanding => ChangeOutstanding'
      BY <1>1, <1>9, <2>3, OutstandingStays
         DEF RunRegister, RunUnregister, launcherVars
    <3>2. Registered' = Registered
      <4>1. CASE RunRegister /\ n \in Registered
        <5>1. Head(ready).ep \in Endpoints
          BY <2>1, <4>1, TaskFields DEF RunRegister
        <5> QED
          BY <1>1, <2>1, <4>1, <5>1, NoneAssumption
             DEF RunRegister, Register, Registered, TypeOK, RegistryTypeOK, Rosters
      <4>2. CASE RunUnregister /\ n \notin Registered
        BY <1>1, <2>1, <4>2
           DEF RunUnregister, Unregister, Registered, TypeOK, RegistryTypeOK, Rosters
      <4>3. Append(Tail(ready), Change) # Tail(ready)
        BY <1>1, <1>9 DEF RunRegister, RunUnregister, TypeOK
      <4> QED
        BY <1>9, <2>3, <4>1, <4>2, <4>3 DEF RunRegister, RunUnregister
    <3> QED
      BY <1>9, <3>1, <3>2, OthersKeepSnapInv
         DEF RunRegister, RunUnregister, launcherVars
  <2> QED
    BY <1>9, <2>2, <2>3 DEF RunRegister, RunUnregister
<1>10. CASE RunTouch
  <2>1. ChangeOutstanding => ChangeOutstanding'
    BY <1>1, <1>10, OutstandingStays DEF RunTouch, launcherVars
  <2> QED
    BY <1>10, <2>1, OthersKeepSnapInv DEF RunTouch, Touch, Registered, launcherVars
<1>11. CASE Prune
  <2>1. ChangeOutstanding'
    BY <1>1, <1>11, AddedIsOutstanding, TaskTypes DEF Prune, Schedule, Restart
  <2> QED
    BY <1>11, <2>1, OthersKeepSnapInv DEF Prune, launcherVars
<1>12. CASE HolderRuns \/ HolderFails
  BY <1>12, HolderKeepsSnapInv DEF HolderRuns, HolderFails
<1>13. CASE UNCHANGED vars
  BY <1>2, <1>13 DEF vars
<1> QED
  BY <1>4, <1>5, <1>6, <1>7, <1>8, <1>9, <1>10, <1>11, <1>12, <1>13
     DEF Next, Environment, System, RunTask, Terminated

-----------------------------------------------------------------------------
(* The theorems.                                                           *)

\* LauncherInv is an invariant: the registry, the queues and the launcher stay
\* in step in every reachable state.
THEOREM LauncherInvariant == Spec => []LauncherInv
<1>1. Init => LauncherInv
  <2> SUFFICES ASSUME Init
               PROVE  LauncherInv
    OBVIOUS
  <2>1. PhaseInv
    BY DEF Init, LauncherInit, PhaseInv
  <2>2. SnapAgrees
    BY DEF Init, LauncherInit, RegistryInit, SnapAgrees, Considered, NoRoster, Registered
  <2>3. ~Running
    BY DEF Init, LauncherInit, Running
  <2> QED
    BY <2>1, <2>2, <2>3, TypeInit DEF LauncherInv, SnapInv
<1>2. LauncherInv /\ [Next]_vars => LauncherInv'
  BY TypeStep, PhaseStep, SnapStep DEF LauncherInv
<1> QED
  BY <1>1, <1>2, PTL DEF Spec

\* Every variable keeps its type.
THEOREM TypeCorrect == Spec => []TypeOK
<1>1. LauncherInv => TypeOK
  BY DEF LauncherInv
<1> QED
  BY <1>1, LauncherInvariant, PTL

\* No join, leave or prune is lost on its way to llama-server's --rpc list,
\* for any number of workers, tasks and processes (main.py, on_worker_change;
\* launcher.py, _build_cmd).
THEOREM RosterAlwaysServed == Spec => []RosterServed
<1>1. LauncherInv => RosterServed
  <2> SUFFICES ASSUME LauncherInv, Settled, Running
               PROVE  Registered = Served(proc) \cup skipped
    BY DEF RosterServed
  <2>1. SnapAgrees /\ cmd[proc] = snap
    BY DEF LauncherInv, SnapInv, Settled
  <2> QED
    BY <2>1 DEF SnapAgrees, Considered, Served
<1> QED
  BY <1>1, LauncherInvariant, PTL

\* Only start() can lose hold of a running llama-server (launcher.py, restart,
\* stop and _stop_server never do).
THEOREM OrphansOnlyByStart == Spec => OrphanOnlyByStart
<1> DEFINE ByStart == phase = "spawning" /\ Holder \in Starts /\ Running
<1>1. LauncherInv /\ [Next]_vars => [Orphans' \subseteq Orphans \/ ByStart]_vars
  <2> SUFFICES ASSUME LauncherInv, [Next]_vars
               PROVE  Orphans' \subseteq Orphans \/ ByStart
    OBVIOUS
  <2> USE DEF Orphans, Running
  <2>1. CASE HolderStep \/ HolderRaises
    <3>1. CASE SpawnSucceeds
      <4>1. CASE ByStart
        BY <4>1
      <4>2. CASE ~ByStart
        <5>1. ~Running
          BY <3>1, <4>2 DEF SpawnSucceeds, LauncherInv, PhaseInv, TypeOK,
                            LauncherTypeOK, Requests, Starts
        <5> QED
          BY <3>1, <5>1 DEF SpawnSucceeds
      <4> QED
        BY <4>1, <4>2
    <3>2. CASE DrainEnds
      BY <3>2 DEF DrainEnds
    <3> QED
      BY <2>1, <3>1, <3>2
         DEF HolderStep, HolderRaises, BeginStart, BeginDrain, BeginNotRunning,
             DrainTimeout, HealthReturns, SpawnRaises, KillRaises
  <2>2. CASE \E r \in Requests : OnlyAsk(r)
    BY <2>2 DEF OnlyAsk
  <2>3. CASE \E p \in Pids : ProcExit(p)
    BY <2>3 DEF ProcExit
  <2>4. CASE UNCHANGED launcherVars
    BY <2>4 DEF launcherVars
  <2> QED
    BY <2>1, <2>2, <2>3, <2>4, LauncherFrame
<1> QED
  BY <1>1, LauncherInvariant, PTL DEF Spec, OrphanOnlyByStart

-----------------------------------------------------------------------------
(* The refinement of RosterTracking.                                       *)

LaunchOk == launched \/ phase = "spawning"

\* A step of the orchestrator that its abstract specification does not see.
LEMMA Stutters ==
    ASSUME UNCHANGED <<Registered, Considered>>,
           ChangeOutstanding' <=> ChangeOutstanding,
           LaunchOk' <=> LaunchOk,
           Up' <=> Up
    PROVE  UNCHANGED Roster!rosterVars
<1>1. ChangeOutstanding' = ChangeOutstanding
  BY Zenon
<1>2. (launched \/ phase = "spawning")' = (launched \/ phase = "spawning")
  BY Zenon DEF LaunchOk
<1>3. Up' = Up
  BY SMT
<1> QED
  BY <1>1, <1>2, <1>3, Zenon DEF Roster!rosterVars

\* What is not outstanding does not become so when the queues lose their
\* heads, get a stop() or a task that relaunches nothing, or when the holder
\* goes on.
LEMMA NothingBecomesOutstanding ==
    ASSUME TypeOK, PhaseInv, ChangeOutstanding',
           \/ UNCHANGED ready
           \/ ready # <<>> /\ ready' = Tail(ready)
           \/ \E t \in Tasks : Schedule(t) /\ t.op \notin {"change", "restart"},
           \/ UNCHANGED <<lockq, phase>>
           \/ OnlyAsk("stop")
           \/ UNCHANGED lockq /\ (phase' \in {"idle", "draining", "killing"} =>
                                     phase \in {"idle", "draining", "killing"})
           \/ Held /\ Release
    PROVE  ChangeOutstanding
<1>1. ready \in Seq(Tasks) /\ lockq \in Seq(Requests)
  BY DEF TypeOK, LauncherTypeOK
<1>2. ASSUME NEW i \in DOMAIN ready', ready'[i].op \in {"change", "restart"}
      PROVE  ChangeOutstanding
  <2>1. CASE UNCHANGED ready
    BY <1>2, <2>1 DEF ChangeOutstanding
  <2>2. CASE ready # <<>> /\ ready' = Tail(ready)
    <3>1. i + 1 \in DOMAIN ready /\ ready[i + 1] = ready'[i]
      BY <1>1, <1>2, <2>2
    <3> QED
      BY <1>2, <3>1 DEF ChangeOutstanding
  <2>3. ASSUME NEW t \in Tasks, Schedule(t), t.op \notin {"change", "restart"}
        PROVE  ChangeOutstanding
    <3>1. i \in DOMAIN ready /\ ready[i] = ready'[i]
      BY <1>1, <1>2, <2>3 DEF Schedule
    <3> QED
      BY <1>2, <3>1 DEF ChangeOutstanding
  <2> QED
    BY <2>1, <2>2, <2>3
<1>3. ASSUME NEW i \in DOMAIN lockq', lockq'[i] # "stop",
             i > 1 \/ phase' \in {"idle", "draining", "killing"}
      PROVE  ChangeOutstanding
  <2>1. CASE UNCHANGED lockq
    BY <1>3, <2>1 DEF ChangeOutstanding, OnlyAsk, Ask, Release
  <2>2. CASE OnlyAsk("stop")
    <3>1. i \in DOMAIN lockq /\ lockq[i] = lockq'[i] /\ phase' = phase
      BY <1>1, <1>3, <2>2 DEF OnlyAsk, Ask
    <3> QED
      BY <1>3, <3>1 DEF ChangeOutstanding
  <2>3. CASE Held /\ Release
    <3>1. i + 1 \in DOMAIN lockq /\ lockq[i + 1] = lockq'[i] /\ i + 1 > 1
      BY <1>1, <1>3, <2>3 DEF Release
    <3> QED
      BY <1>3, <3>1 DEF ChangeOutstanding
  <2> QED
    BY <2>1, <2>2, <2>3
<1> QED
  BY <1>2, <1>3 DEF ChangeOutstanding

\* The steps of the abstract specification, from what they need.
LEMMA FailRefines ==
    ASSUME Up, ~LaunchOk', ChangeOutstanding' => ChangeOutstanding,
           UNCHANGED <<Registered, Considered>>
    PROVE  Roster!Next
<1> HIDE DEF Up
<1>1. (launched \/ phase = "spawning")' = FALSE
  BY Zenon DEF LaunchOk
<1>2. ChangeOutstanding' = ChangeOutstanding \/ ChangeOutstanding' = FALSE
  <2>1. CASE ChangeOutstanding'
    <3>1. ChangeOutstanding
      BY <2>1
    <3> QED
      BY <2>1, <3>1, Zenon
  <2>2. CASE ~ChangeOutstanding'
    BY <2>2, SMT
  <2> QED
    BY <2>1, <2>2
<1>3. ChangeOutstanding' \in {ChangeOutstanding, FALSE}
  BY <1>2, Zenon
<1>4. Up' \in BOOLEAN
  BY Zenon DEF Up
<1> QED
  BY <1>1, <1>3, <1>4, Zenon DEF Roster!Fail, Roster!Next

LEMMA LaunchRefines ==
    ASSUME Up, Up', LaunchOk', ChangeOutstanding,
           Considered' = Registered, UNCHANGED Registered
    PROVE  Roster!Next
<1> HIDE DEF Up
<1>1. (launched \/ phase = "spawning")' = TRUE
  BY Zenon DEF LaunchOk
<1>2. ChangeOutstanding' \in BOOLEAN
  BY Zenon DEF ChangeOutstanding
<1>3. Up' = Up
  BY SMT
<1> QED
  BY <1>1, <1>2, <1>3, Zenon DEF Roster!Launch, Roster!Next

LEMMA AskRefines ==
    ASSUME Up, Up', ~ChangeOutstanding, ChangeOutstanding', LaunchOk' <=> LaunchOk,
           UNCHANGED <<Registered, Considered>>
    PROVE  Roster!Next
<1> HIDE DEF Up
<1>1. (launched \/ phase = "spawning")' = (launched \/ phase = "spawning")
  BY Zenon DEF LaunchOk
<1>2. ChangeOutstanding' = TRUE
  BY Zenon
<1>3. Up' = Up
  BY SMT
<1> QED
  BY <1>1, <1>2, <1>3, Zenon DEF Roster!AskLaunch, Roster!Next

LEMMA ChangeRefines ==
    ASSUME Up, Up', ChangeOutstanding', LaunchOk' <=> LaunchOk,
           Registered' # Registered, UNCHANGED Considered
    PROVE  Roster!Next
<1> HIDE DEF Up
<1>1. (launched \/ phase = "spawning")' = (launched \/ phase = "spawning")
  BY Zenon DEF LaunchOk
<1>2. ChangeOutstanding' = TRUE
  BY Zenon
<1>3. Up' = Up
  BY SMT
<1>4. Registered' \in (SUBSET Names) \ {Registered}
  BY DEF Registered
<1> QED
  BY <1>1, <1>2, <1>3, <1>4, Zenon DEF Roster!RosterChanges, Roster!Next

LEMMA DownRefines ==
    ASSUME Up, ~Up', ChangeOutstanding' <=> ChangeOutstanding,
           LaunchOk' <=> LaunchOk, UNCHANGED <<Registered, Considered>>
    PROVE  Roster!Next
<1> HIDE DEF Up
<1>1. (launched \/ phase = "spawning")' = (launched \/ phase = "spawning")
  BY Zenon DEF LaunchOk
<1>2. ChangeOutstanding' = ChangeOutstanding
  BY Zenon
<1>3. Up' = FALSE
  BY SMT
<1> QED
  BY <1>1, <1>2, <1>3, Zenon DEF Roster!ShutDown, Roster!Next

\* A coroutine of the launcher that gets to its launch looks at the roster, or
\* fails.
LEMMA BeginLaunchRefines ==
    ASSUME TypeOK, PhaseInv, BeginLaunch, Held, Holder # "stop",
           phase \in {"idle", "draining", "killing"},
           UNCHANGED <<registryVars, ready>>, Up, Up'
    PROVE  Roster!Next
<1>1. UNCHANGED Registered
  BY DEF Registered, registryVars
<1>2. ChangeOutstanding
  <2>1. lockq \in Seq(Requests) /\ lockq # <<>> /\ Head(lockq) # "stop"
    BY DEF TypeOK, LauncherTypeOK, Held, Holder
  <2>2. 1 \in DOMAIN lockq /\ lockq[1] # "stop"
    BY <2>1
  <2> QED
    BY <2>2 DEF ChangeOutstanding
<1>3. CASE phase' = "spawning" /\ SnapAgrees'
  BY <1>1, <1>2, <1>3, LaunchRefines DEF SnapAgrees, LaunchOk
<1>4. CASE phase' = "idle" /\ ~launched'
  <2>1. UNCHANGED Considered
    BY <1>4 DEF BeginLaunch, Considered
  <2> QED
    BY <1>1, <1>2, <1>4, <2>1, FailRefines DEF LaunchOk
<1> QED
  BY <1>3, <1>4, BeginLaunchAgrees

\* Every segment of the holder's coroutine is a step of RosterTracking or none.
LEMMA HolderRefines ==
    ASSUME TypeOK, PhaseInv, HolderRuns \/ HolderFails
    PROVE  Roster!Next \/ UNCHANGED Roster!rosterVars
<1> USE DEF LaunchOk
<1>1. /\ Up /\ UNCHANGED <<registryVars, ready>>
      /\ HolderRuns => HolderStep /\ Up'
      /\ HolderFails => HolderRaises
  BY DEF HolderRuns, HolderFails
<1>2. UNCHANGED Registered
  BY <1>1 DEF registryVars, Registered
<1>3. UNCHANGED <<snap, skipped>> => UNCHANGED Considered
  BY DEF Considered
<1>5. ASSUME Held, Release, UNCHANGED <<snap, skipped>>
      PROVE  /\ ChangeOutstanding' => ChangeOutstanding
             /\ UNCHANGED Considered
  BY <1>1, <1>3, <1>5, NothingBecomesOutstanding
<1>6. ASSUME Held, Release, UNCHANGED <<snap, skipped, launched>>, Up',
             Holder = "stop" \/ phase = "health", phase # "spawning"
      PROVE  UNCHANGED Roster!rosterVars
  <2>1. ChangeOutstanding => ChangeOutstanding'
    BY <1>1, <1>6, ReleaseKeepsOutstanding
  <2>2. LaunchOk' <=> LaunchOk
    BY <1>6 DEF Release
  <2> QED
    BY <1>1, <1>2, <1>5, <1>6, <2>1, <2>2, Stutters
<1>7. ASSUME AfterStop, Held, Up', phase \in {"idle", "draining", "killing"}
      PROVE  Roster!Next \/ UNCHANGED Roster!rosterVars
  <2>1. CASE Holder = "restart" /\ BeginLaunch
    BY <1>1, <1>7, <2>1, BeginLaunchRefines
  <2>2. CASE Holder = "stop" /\ Release /\ UNCHANGED <<snap, skipped, launched>>
    BY <1>6, <1>7, <2>2
  <2> QED
    BY <1>7, <2>1, <2>2 DEF AfterStop
<1>8. ASSUME BeginStart, Up' PROVE Roster!Next
  BY <1>1, <1>8, BeginLaunchRefines DEF BeginStart, Starts
<1>9. ASSUME BeginDrain \/ DrainTimeout \/ SpawnSucceeds, Up'
      PROVE  UNCHANGED Roster!rosterVars
  <2>1. UNCHANGED <<lockq, snap, skipped>>
    BY <1>9 DEF BeginDrain, DrainTimeout, SpawnSucceeds
  <2>2. LaunchOk' <=> LaunchOk
    BY <1>9 DEF BeginDrain, DrainTimeout, SpawnSucceeds
  <2>3. \/ phase \in {"idle", "draining"} /\ phase' \in {"draining", "killing"}
        \/ phase = "spawning" /\ phase' = "health"
    BY <1>9 DEF BeginDrain, DrainTimeout, SpawnSucceeds
  <2>4. ChangeOutstanding' <=> ChangeOutstanding
    BY <1>1, <2>1, <2>3 DEF ChangeOutstanding
  <2> QED
    BY <1>1, <1>2, <1>3, <1>9, <2>1, <2>2, <2>4, Stutters
<1>10. ASSUME BeginNotRunning \/ DrainEnds, Up'
       PROVE  Roster!Next \/ UNCHANGED Roster!rosterVars
  BY <1>7, <1>10 DEF BeginNotRunning, DrainEnds, PhaseInv
<1>11. ASSUME HealthReturns, Up' PROVE UNCHANGED Roster!rosterVars
  BY <1>6, <1>11 DEF HealthReturns, PhaseInv
<1>12. CASE HolderRaises
  <2>1. Held /\ Release /\ UNCHANGED <<snap, skipped>> /\ ~LaunchOk'
    BY <1>12 DEF HolderRaises, SpawnRaises, KillRaises, PhaseInv, Release
  <2> QED
    BY <1>1, <1>2, <1>5, <2>1, FailRefines
<1> QED
  BY <1>1, <1>8, <1>9, <1>10, <1>11, <1>12 DEF HolderStep

\* A step beside the launcher and main(): what it schedules, and whether it
\* changes the roster, decides what it is in the abstract.
LEMMA OthersRefine ==
    ASSUME LauncherInv, Up, Up', UNCHANGED <<snap, skipped, launched, phase>>,
           \/ ChangeOutstanding'
           \/ Registered' = Registered /\ (ChangeOutstanding' <=> ChangeOutstanding)
    PROVE  Roster!Next \/ UNCHANGED Roster!rosterVars
<1>1. UNCHANGED Considered
  BY DEF Considered
<1>2. LaunchOk' <=> LaunchOk
  BY DEF LaunchOk
<1>3. CASE Registered' # Registered
  BY <1>1, <1>2, <1>3, ChangeRefines
<1>4. CASE Registered' = Registered /\ ChangeOutstanding' /\ ~ChangeOutstanding
  BY <1>1, <1>2, <1>4, AskRefines
<1>5. CASE Registered' = Registered /\ (ChangeOutstanding' <=> ChangeOutstanding)
  BY <1>1, <1>2, <1>5, Stutters
<1> QED
  BY <1>3, <1>4, <1>5

\* main() goes down, with the queues as they are.
LEMMA EndRefines ==
    ASSUME Up, ~Up', UNCHANGED <<registryVars, launcherVars, ready>>
    PROVE  Roster!Next
<1>1. UNCHANGED <<Registered, Considered>>
  BY DEF registryVars, launcherVars, Registered, Considered
<1>2. ChangeOutstanding' <=> ChangeOutstanding
  BY DEF launcherVars, ChangeOutstanding
<1>3. LaunchOk' <=> LaunchOk
  BY DEF launcherVars, LaunchOk
<1> QED
  BY <1>1, <1>2, <1>3, DownRefines

\* A registry coroutine that schedules no callback has left the set of names
\* alone.
LEMMA SameRoster ==
    ASSUME TypeOK, RunRegister \/ RunUnregister, ready' = Tail(ready)
    PROVE  Registered' = Registered
<1> DEFINE n == Head(ready).name
<1>1. Head(ready) \in Tasks /\ n \in Names
  BY QueueTypes, TaskFields DEF RunRegister, RunUnregister, TypeOK
<1>2. CASE RunRegister /\ n \in Registered
  <2>1. Head(ready).ep \in Endpoints
    BY <1>1, <1>2, TaskFields DEF RunRegister
  <2> QED
    BY <1>1, <1>2, <2>1, NoneAssumption
       DEF RunRegister, Register, Registered, TypeOK, RegistryTypeOK, Rosters
<1>3. CASE RunUnregister /\ n \notin Registered
  BY <1>1, <1>3
     DEF RunUnregister, Unregister, Registered, TypeOK, RegistryTypeOK, Rosters
<1>4. Append(Tail(ready), Change) # Tail(ready)
  BY DEF RunRegister, RunUnregister, TypeOK
<1> QED
  BY <1>2, <1>3, <1>4 DEF RunRegister, RunUnregister

\* Every step of the orchestrator is a step of RosterTracking or none.
LEMMA StepRefines ==
    ASSUME LauncherInv, [Next]_vars
    PROVE  [Roster!Next]_Roster!rosterVars
<1> SUFFICES Roster!Next \/ UNCHANGED Roster!rosterVars
  BY Zenon
<1> USE DEF LauncherInv
<1>1. TypeOK /\ PhaseInv
  OBVIOUS
<1>2. ASSUME UNCHANGED launcherVars, Up, Up', UNCHANGED Registered,
             \/ UNCHANGED ready
             \/ \E t \in Tasks : Schedule(t) /\ t.op \notin {"change", "restart"}
             \/ /\ ready # <<>> /\ Head(ready).op \notin {"change", "restart"}
                /\ ready' = Tail(ready)
      PROVE  Roster!Next \/ UNCHANGED Roster!rosterVars
  <2>1. UNCHANGED <<lockq, phase, snap, skipped, launched>>
    BY <1>2 DEF launcherVars
  <2>2. ChangeOutstanding => ChangeOutstanding'
    BY <1>1, <1>2, <2>1, OutstandingStays
  <2>3. ChangeOutstanding' => ChangeOutstanding
    BY <1>1, <1>2, <2>1, NothingBecomesOutstanding
  <2> QED
    BY <1>2, <2>1, <2>2, <2>3, OthersRefine
<1>3. ASSUME UNCHANGED launcherVars, Up, Up',
             \E t \in Tasks : /\ t.op \in {"change", "restart"}
                             /\ \/ ready' = Append(ready, t)
                                \/ ready # <<>> /\ ready' = Append(Tail(ready), t)
      PROVE  Roster!Next \/ UNCHANGED Roster!rosterVars
  <2>1. ChangeOutstanding'
    BY <1>1, <1>3, AddedIsOutstanding
  <2> QED
    BY <1>3, <2>1, OthersRefine DEF launcherVars
<1>4. ASSUME NEW r \in Requests \ {"stop"}, OnlyAsk(r), Up, Up'
      PROVE  Roster!Next \/ UNCHANGED Roster!rosterVars
  <2>1. ChangeOutstanding'
    BY <1>1, <1>4, AddedIsOutstanding
  <2> QED
    BY <1>4, <2>1, OthersRefine DEF OnlyAsk
<1>5. ASSUME NEW s \in Services, AddService(s) \/ UpdateService(s) \/ RemoveService(s)
      PROVE  Roster!Next \/ UNCHANGED Roster!rosterVars
  <2>1. UNCHANGED Registered
    BY <1>5 DEF AddService, UpdateService, RemoveService, registryVars, Registered
  <2>2. UNCHANGED ready \/ \E t \in Tasks : Schedule(t) /\ t.op \notin {"change", "restart"}
    <3>1. s \in Names /\ NodeName[s] \in Names
      BY ServicesAssumption, NodeNameAssumption
    <3>2. ASSUME NEW e \in Endpoints,
                 Schedule([op |-> "register", name |-> NodeName[s], ep |-> e])
          PROVE  \E t \in Tasks : Schedule(t) /\ t.op \notin {"change", "restart"}
      <4> DEFINE t == [op |-> "register", name |-> NodeName[s], ep |-> e]
      <4>1. t \in Tasks /\ t.op \notin {"change", "restart"}
        BY <3>1, TaskTypes
      <4> QED
        BY <3>2, <4>1
    <3>3. CASE UpdateService(s)
      <4> DEFINE t == [op |-> "touch", name |-> NodeName[s]]
      <4>1. t \in Tasks /\ t.op \notin {"change", "restart"}
        BY <3>1, TaskTypes
      <4> QED
        BY <3>3, <4>1 DEF UpdateService
    <3>4. CASE RemoveService(s)
      <4> DEFINE t == [op |-> "unregister", name |-> s]
      <4>1. t \in Tasks /\ t.op \notin {"change", "restart"}
        BY <3>1, TaskTypes
      <4> QED
        BY <3>4, <4>1 DEF RemoveService
    <3> QED
      BY <1>5, <3>2, <3>3, <3>4 DEF AddService
  <2> QED
    BY <1>2, <1>5, <2>1, <2>2 DEF AddService, UpdateService, RemoveService
<1>6. ASSUME NEW n \in Names, Silence(n)
      PROVE  Roster!Next \/ UNCHANGED Roster!rosterVars
  BY <1>2, <1>6 DEF Silence, GoStale, Registered
<1>7. ASSUME NEW p \in Pids, Exit(p)
      PROVE  UNCHANGED Roster!rosterVars
  <2>1. UNCHANGED <<Registered, Considered>>
    BY <1>7 DEF Exit, ProcExit, registryVars, Registered, Considered
  <2>2. ChangeOutstanding' <=> ChangeOutstanding
    BY <1>7 DEF Exit, ProcExit, ChangeOutstanding
  <2>3. (LaunchOk' <=> LaunchOk) /\ (Up' <=> Up)
    BY <1>7 DEF Exit, ProcExit, LaunchOk
  <2> QED
    BY <2>1, <2>2, <2>3, Stutters
<1>8. CASE PostRestart \/ Prune
  BY <1>3, <1>8, TaskTypes DEF PostRestart, Prune, Schedule, Restart
<1>9. CASE EarlySignal \/ Close
  BY <1>9, EndRefines DEF EarlySignal, Close
<1>10. CASE Signal
  <2>1. UNCHANGED Registered /\ Up /\ Up' /\ UNCHANGED <<snap, skipped, launched, phase>>
    BY <1>10 DEF Signal, OnlyAsk, registryVars, Registered
  <2>2. ChangeOutstanding => ChangeOutstanding'
    BY <1>1, <1>10, OutstandingStays DEF Signal, Requests
  <2>3. ChangeOutstanding' => ChangeOutstanding
    BY <1>1, <1>10, NothingBecomesOutstanding DEF Signal
  <2> QED
    BY <2>1, <2>2, <2>3, OthersRefine
<1>11. CASE RunChange \/ RunRestart
  BY <1>4, <1>11 DEF RunChange, RunRestart, Requests
<1>12. CASE WindowEnds
  <2>1. CASE OnlyAsk("main_start")
    BY <1>4, <1>12, <2>1 DEF WindowEnds, Requests
  <2>2. CASE UNCHANGED launcherVars
    BY <1>2, <1>12, <2>2 DEF WindowEnds, registryVars, Registered
  <2> QED
    BY <1>12, <2>1, <2>2 DEF WindowEnds
<1>13. CASE RunRegister \/ RunUnregister
  <2>1. CASE ready' = Append(Tail(ready), Change)
    BY <1>3, <1>13, <2>1, TaskTypes DEF RunRegister, RunUnregister, Change
  <2>2. CASE ready' = Tail(ready)
    BY <1>2, <1>13, <2>2, SameRoster DEF RunRegister, RunUnregister
  <2> QED
    BY <1>13, <2>1, <2>2 DEF RunRegister, RunUnregister
<1>14. CASE RunTouch
  BY <1>2, <1>14 DEF RunTouch, Touch, Registered
<1>15. CASE HolderRuns \/ HolderFails
  BY <1>1, <1>15, HolderRefines
<1>16. CASE UNCHANGED vars
  <2>1. UNCHANGED <<Registered, Considered>> /\ (Up' <=> Up) /\ (LaunchOk' <=> LaunchOk)
    BY <1>16 DEF vars, registryVars, launcherVars, Registered, Considered, LaunchOk
  <2>2. ChangeOutstanding' <=> ChangeOutstanding
    BY <1>16 DEF vars, launcherVars, ChangeOutstanding
  <2> QED
    BY <2>1, <2>2, Stutters
<1> QED
  BY <1>5, <1>6, <1>7, <1>8, <1>9, <1>10, <1>11, <1>12, <1>13, <1>14, <1>15, <1>16
     DEF Next, Environment, System, RunTask, Terminated

\* The orchestrator implements the safety part of RosterTracking: whatever the
\* tasks, the lock and the processes do, no change of the roster is forgotten
\* (main.py, on_worker_change; launcher.py).
THEOREM RosterIsTracked == Spec => Roster!Spec
<1>1. Init => Roster!Init
  <2> SUFFICES ASSUME Init PROVE Roster!Init
    OBVIOUS
  <2>1. Registered = {} /\ Considered = {}
    BY DEF Init, LauncherInit, RegistryInit, Registered, Considered, NoRoster
  <2>2. ChangeOutstanding = FALSE
    BY DEF Init, LauncherInit, ChangeOutstanding
  <2>3. (launched \/ phase = "spawning") = TRUE /\ Up = TRUE
    BY DEF Init, LauncherInit
  <2> QED
    BY <2>1, <2>2, <2>3 DEF Roster!Init
<1>2. LauncherInv /\ [Next]_vars => [Roster!Next]_Roster!rosterVars
  BY StepRefines
<1> QED
  BY <1>1, <1>2, LauncherInvariant, PTL DEF Spec, Roster!Spec

-----------------------------------------------------------------------------
(* Endpoints.                                                              *)

\* An entry for n is, or will be, made at place i of the tasks q: place 0 is
\* the registry itself, R, and the place behind the last stands for the
\* register task that the browser may still cause, unless n is in K, which it
\* knows.
RegAt(q, R, K, i, n) ==
    \/ i = 0 /\ n \in R
    \/ i \in 1..Len(q) /\ q[i].op = "register" /\ q[i].name = n
    \/ i = Len(q) + 1 /\ n \notin K

UnAt(q, k, n) == q[k].op = "unregister" /\ q[k].name = n

\* Between two of them the entry is taken out.
Alternate(q, R, K) ==
    \A n \in Names : \A i, j \in 0..(Len(q) + 1) :
        i < j /\ RegAt(q, R, K, i, n) /\ RegAt(q, R, K, j, n) =>
            \E k \in 1..Len(q) : i < k /\ k < j /\ UnAt(q, k, n)

\* Fewer entries, and more services that are known, alternate all the more.
LEMMA FewerAlternate ==
    ASSUME NEW q \in Seq(Tasks), NEW R, NEW K, NEW R2 \in SUBSET R, NEW K2,
           K \subseteq K2, Alternate(q, R, K)
    PROVE  Alternate(q, R2, K2)
BY DEF Alternate, RegAt

\* Tasks that neither make nor take entries do not count.
LEMMA OtherAlternate ==
    ASSUME NEW q \in Seq(Tasks), NEW R, NEW K, NEW t \in Tasks,
           t.op \notin {"register", "unregister"}, Alternate(q, R, K)
    PROVE  Alternate(Append(q, t), R, K)
<1> DEFINE r == Append(q, t)
<1>1. Len(r) = Len(q) + 1 /\ \A i \in 1..Len(q) : r[i] = q[i]
  OBVIOUS
<1>2. r[Len(q) + 1] = t
  OBVIOUS
<1> HIDE DEF r
<1> SUFFICES ASSUME NEW n \in Names, NEW i \in 0..(Len(r) + 1), NEW j \in 0..(Len(r) + 1),
                    i < j, RegAt(r, R, K, i, n), RegAt(r, R, K, j, n)
             PROVE  \E k \in 1..Len(r) : i < k /\ k < j /\ UnAt(r, k, n)
  BY DEF Alternate, r
<1> DEFINE Old(m) == IF m = Len(r) + 1 THEN Len(q) + 1 ELSE m
<1>3. i # Len(q) + 1 /\ j # Len(q) + 1
  BY <1>1, <1>2 DEF RegAt
<1>4. /\ Old(i) \in 0..(Len(q) + 1) /\ Old(j) \in 0..(Len(q) + 1) /\ Old(i) < Old(j)
      /\ RegAt(q, R, K, Old(i), n) /\ RegAt(q, R, K, Old(j), n)
  BY <1>1, <1>3 DEF RegAt
<1>5. PICK k \in 1..Len(q) : Old(i) < k /\ k < Old(j) /\ UnAt(q, k, n)
  BY <1>4 DEF Alternate
<1> QED
  BY <1>1, <1>3, <1>5 DEF UnAt

\* add_service: a register task for a service that was not known.
LEMMA RegisterAlternates ==
    ASSUME NEW q \in Seq(Tasks), NEW R, NEW K, NEW t \in Tasks,
           t.op = "register", t.name \notin K, Alternate(q, R, K)
    PROVE  Alternate(Append(q, t), R, K \cup {t.name})
<1> DEFINE r == Append(q, t)
           L == K \cup {t.name}
<1>1. Len(r) = Len(q) + 1 /\ \A i \in 1..Len(q) : r[i] = q[i]
  OBVIOUS
<1>2. r[Len(q) + 1] = t
  OBVIOUS
<1> HIDE DEF r
<1> SUFFICES ASSUME NEW n \in Names, NEW i \in 0..(Len(r) + 1), NEW j \in 0..(Len(r) + 1),
                    i < j, RegAt(r, R, L, i, n), RegAt(r, R, L, j, n)
             PROVE  \E k \in 1..Len(r) : i < k /\ k < j /\ UnAt(r, k, n)
  BY DEF Alternate, r
<1> DEFINE Old(m) == IF m = Len(r) + 1 THEN Len(q) + 1 ELSE m
<1>3. i # Len(q) + 1
  BY <1>1, <1>2 DEF RegAt
<1>4. j \in {Len(q) + 1, Len(r) + 1} => n \notin K
  BY <1>1, <1>2 DEF RegAt
<1>5. i # Len(r) + 1
  BY <1>1
<1>6. /\ i \in 0..(Len(q) + 1) /\ Old(j) \in 0..(Len(q) + 1) /\ i < Old(j)
      /\ RegAt(q, R, K, i, n) /\ RegAt(q, R, K, Old(j), n)
  BY <1>1, <1>3, <1>4, <1>5 DEF RegAt
<1>7. PICK k \in 1..Len(q) : i < k /\ k < Old(j) /\ UnAt(q, k, n)
  BY <1>6 DEF Alternate
<1> QED
  BY <1>1, <1>7 DEF UnAt

\* remove_service: an unregister task, and the service may be added again.
LEMMA UnregisterAlternates ==
    ASSUME NEW q \in Seq(Tasks), NEW R, NEW K, NEW t \in Tasks,
           t.op = "unregister", Alternate(q, R, K)
    PROVE  Alternate(Append(q, t), R, K \ {t.name})
<1> DEFINE r == Append(q, t)
           L == K \ {t.name}
<1>1. Len(r) = Len(q) + 1 /\ \A i \in 1..Len(q) : r[i] = q[i]
  OBVIOUS
<1>2. r[Len(q) + 1] = t
  OBVIOUS
<1> HIDE DEF r
<1> SUFFICES ASSUME NEW n \in Names, NEW i \in 0..(Len(r) + 1), NEW j \in 0..(Len(r) + 1),
                    i < j, RegAt(r, R, L, i, n), RegAt(r, R, L, j, n)
             PROVE  \E k \in 1..Len(r) : i < k /\ k < j /\ UnAt(r, k, n)
  BY DEF Alternate, r
<1>3. i # Len(q) + 1 /\ j # Len(q) + 1 /\ i # Len(r) + 1
  BY <1>1, <1>2 DEF RegAt
<1>4. CASE j = Len(r) + 1 /\ n = t.name
  <2>1. UnAt(r, Len(q) + 1, n)
    BY <1>2, <1>4 DEF UnAt
  <2> QED
    BY <1>1, <1>3, <1>4, <2>1
<1>5. CASE ~(j = Len(r) + 1 /\ n = t.name)
  <2> DEFINE Old(m) == IF m = Len(r) + 1 THEN Len(q) + 1 ELSE m
  <2>1. /\ i \in 0..(Len(q) + 1) /\ Old(j) \in 0..(Len(q) + 1) /\ i < Old(j)
        /\ RegAt(q, R, K, i, n) /\ RegAt(q, R, K, Old(j), n)
    BY <1>1, <1>3, <1>5 DEF RegAt
  <2>2. PICK k \in 1..Len(q) : i < k /\ k < Old(j) /\ UnAt(q, k, n)
    BY <2>1 DEF Alternate
  <2> QED
    BY <1>1, <2>2 DEF UnAt
<1> QED
  BY <1>4, <1>5

\* The first task runs.
LEMMA TailAlternates ==
    ASSUME NEW q \in Seq(Tasks), q # <<>>, NEW R, NEW K, NEW R2,
           Alternate(q, R, K),
           R2 \subseteq R \/ (q[1].op = "register" /\ R2 \subseteq R \cup {q[1].name}),
           q[1].op = "unregister" => q[1].name \notin R2
    PROVE  Alternate(Tail(q), R2, K)
<1> DEFINE r == Tail(q)
<1>1. Len(q) = Len(r) + 1 /\ Len(r) \in Nat /\ \A i \in 1..Len(r) : r[i] = q[i + 1]
  OBVIOUS
<1> HIDE DEF r
<1> SUFFICES ASSUME NEW n \in Names, NEW i \in 0..(Len(r) + 1), NEW j \in 0..(Len(r) + 1),
                    i < j, RegAt(r, R2, K, i, n), RegAt(r, R2, K, j, n)
             PROVE  \E k \in 1..Len(r) : i < k /\ k < j /\ UnAt(r, k, n)
  BY DEF Alternate, r
<1>2. j + 1 \in 0..(Len(q) + 1) /\ RegAt(q, R, K, j + 1, n)
  <2>1. j + 1 \in 0..(Len(q) + 1) /\ j # 0
    BY <1>1
  <2>2. CASE j \in 1..Len(r)
    <3>1. r[j] = q[j + 1] /\ j + 1 \in 1..Len(q) /\ j # Len(r) + 1
      BY <1>1, <2>2
    <3>2. r[j].op = "register" /\ r[j].name = n
      BY <2>1, <3>1 DEF RegAt
    <3> QED
      BY <2>1, <3>1, <3>2 DEF RegAt
  <2>3. CASE j = Len(r) + 1
    <3>1. j \notin 1..Len(r) /\ j + 1 = Len(q) + 1
      BY <1>1, <2>3
    <3> QED
      BY <2>1, <3>1 DEF RegAt
  <2> QED
    BY <1>1, <2>1, <2>2, <2>3
<1>3. ASSUME NEW k \in 1..Len(q), k > i + 1, k < j + 1, UnAt(q, k, n)
      PROVE  \E m \in 1..Len(r) : i < m /\ m < j /\ UnAt(r, m, n)
  <2>1. k - 1 \in 1..Len(r) /\ i < k - 1 /\ k - 1 < j
    BY <1>1, <1>3
  <2>2. r[k - 1] = q[k]
    BY <1>1, <2>1
  <2> QED
    BY <1>3, <2>1, <2>2 DEF UnAt
<1>4. CASE i > 0 \/ n \notin R
  <2>1. i + 1 \in 0..(Len(q) + 1) /\ i + 1 < j + 1
    BY <1>1
  <2>2. RegAt(q, R, K, i + 1, n)
    BY <1>1, <1>4 DEF RegAt
  <2>3. PICK k \in 1..Len(q) : i + 1 < k /\ k < j + 1 /\ UnAt(q, k, n)
    BY <1>2, <2>1, <2>2 DEF Alternate
  <2> QED
    BY <1>3, <2>3
<1>5. CASE i = 0 /\ n \in R
  <2>1. RegAt(q, R, K, 0, n) /\ n \in R2
    BY <1>1, <1>5 DEF RegAt
  <2>2. PICK k \in 1..Len(q) : 0 < k /\ k < j + 1 /\ UnAt(q, k, n)
    BY <1>1, <1>2, <1>5, <2>1 DEF Alternate
  <2>3. k # 1
    BY <2>1, <2>2 DEF UnAt
  <2>4. k > i + 1
    BY <1>5, <2>2, <2>3
  <2> QED
    BY <1>3, <2>2, <2>4
<1> QED
  BY <1>4, <1>5

\* The labels of the services are their node_names.
LabelsAreNames == \A s \in Services : NodeName[s] = s

\* Register and unregister tasks alternate, name by name.
EntriesInv == Alternate(ready, Registered, known)

\* With labels that are names, EntriesInv is inductive.
LEMMA EntriesStep ==
    ASSUME LabelsAreNames, TypeOK, EntriesInv, [Next]_vars
    PROVE  EntriesInv'
<1> USE DEF EntriesInv
<1>1. /\ ready \in Seq(Tasks)
      /\ Change \in Tasks /\ Change.op = "change"
      /\ Restart \in Tasks /\ Restart.op = "restart"
  BY TaskTypes, NoneAssumption DEF TypeOK, Change, Restart
<1>2. ASSUME NEW s \in Services, AddService(s)
      PROVE  EntriesInv'
  <2>1. Registered' = Registered
    BY <1>2 DEF AddService, registryVars, Registered
  <2>2. CASE UNCHANGED ready
    BY <1>1, <1>2, <2>1, <2>2, FewerAlternate DEF AddService
  <2>3. ASSUME NEW e \in Endpoints,
               Schedule([op |-> "register", name |-> NodeName[s], ep |-> e])
        PROVE  EntriesInv'
    <3> DEFINE t == [op |-> "register", name |-> NodeName[s], ep |-> e]
    <3>1. t \in Tasks /\ t.op = "register" /\ t.name = s
      BY TaskTypes, NodeNameAssumption DEF LabelsAreNames
    <3>2. s \notin known /\ known' = known \cup {s} /\ ready' = Append(ready, t)
      BY <1>2, <2>3 DEF AddService, Schedule
    <3> HIDE DEF t
    <3> QED
      BY <1>1, <2>1, <3>1, <3>2, RegisterAlternates
  <2> QED
    BY <1>2, <2>2, <2>3 DEF AddService
<1>3. ASSUME NEW s \in Services, UpdateService(s)
      PROVE  EntriesInv'
  <2> DEFINE t == [op |-> "touch", name |-> NodeName[s]]
  <2>1. t \in Tasks /\ t.op = "touch"
    BY TaskTypes, NodeNameAssumption
  <2>2. ready' = Append(ready, t) /\ known' = known /\ Registered' = Registered
    BY <1>3 DEF UpdateService, Schedule, registryVars, Registered
  <2> HIDE DEF t
  <2> QED
    BY <1>1, <2>1, <2>2, OtherAlternate
<1>4. ASSUME NEW s \in Services, RemoveService(s)
      PROVE  EntriesInv'
  <2> DEFINE t == [op |-> "unregister", name |-> s]
  <2>1. t \in Tasks /\ t.op = "unregister" /\ t.name = s
    BY TaskTypes, ServicesAssumption
  <2>2. /\ ready' = Append(ready, t) /\ known' = known \ {s}
        /\ Registered' = Registered
    BY <1>4 DEF RemoveService, Schedule, registryVars, Registered
  <2> HIDE DEF t
  <2> QED
    BY <1>1, <2>1, <2>2, UnregisterAlternates
<1>5. ASSUME NEW t \in Tasks, Schedule(t), t.op \notin {"register", "unregister"},
             Registered' \subseteq Registered, UNCHANGED known
      PROVE  EntriesInv'
  <2>1. Alternate(ready', Registered, known)
    BY <1>1, <1>5, OtherAlternate DEF Schedule
  <2>2. ready' \in Seq(Tasks)
    BY <1>1, <1>5 DEF Schedule
  <2> QED
    BY <1>5, <2>1, <2>2, FewerAlternate
<1>6. CASE PostRestart \/ Prune
  <2>1. Schedule(Restart) /\ UNCHANGED known
    BY <1>6 DEF PostRestart, Prune
  <2>2. Registered' \subseteq Registered
    BY <1>6 DEF PostRestart, Prune, PruneStale, registryVars, Registered
  <2> QED
    BY <1>1, <1>5, <2>1, <2>2
<1>7. CASE RunTask
  <2> DEFINE h == ready[1]
  <2>1. ready # <<>> /\ Head(ready) = h /\ h \in Tasks /\ UNCHANGED known
    BY <1>1, <1>7
       DEF RunTask, RunRegister, RunUnregister, RunTouch, RunChange, RunRestart
  <2>2. Tail(ready) \in Seq(Tasks)
    BY <1>1, <2>1
  <2>3. /\ \/ Registered' \subseteq Registered
           \/ h.op = "register" /\ Registered' \subseteq Registered \cup {h.name}
        /\ h.op = "unregister" => h.name \notin Registered'
    <3>1. CASE RunRegister
      BY <2>1, <3>1 DEF RunRegister, Register, Registered, TypeOK, RegistryTypeOK,
                        Rosters
    <3>2. CASE RunUnregister
      <4>1. h.name \in Names
        BY <2>1, <3>2, TaskFields DEF RunUnregister
      <4> QED
        BY <2>1, <3>2, <4>1 DEF RunUnregister, Unregister, Registered, TypeOK,
                                RegistryTypeOK, Rosters
    <3>3. CASE RunTouch
      BY <2>1, <3>3 DEF RunTouch, Touch, Registered
    <3>4. CASE RunChange \/ RunRestart
      BY <2>1, <3>4 DEF RunChange, RunRestart, registryVars, Registered
    <3> QED
      BY <1>7, <3>1, <3>2, <3>3, <3>4 DEF RunTask
  <2>4. Alternate(Tail(ready), Registered', known)
    BY <1>1, <2>1, <2>3, TailAlternates
  <2>5. CASE ready' = Tail(ready)
    BY <2>1, <2>4, <2>5
  <2>6. CASE ready' = Append(Tail(ready), Change)
    BY <1>1, <2>1, <2>2, <2>4, <2>6, OtherAlternate
  <2> QED
    BY <1>7, <2>5, <2>6
       DEF RunTask, RunRegister, RunUnregister, RunTouch, RunChange, RunRestart
<1>8. ASSUME NEW n \in Names, Silence(n)
      PROVE  EntriesInv'
  BY <1>8 DEF Silence, GoStale, Registered
<1>9. ASSUME UNCHANGED <<registryVars, ready, known>>
      PROVE  EntriesInv'
  BY <1>9 DEF registryVars, Registered
<1>10. CASE EarlySignal \/ Signal \/ WindowEnds \/ HolderRuns \/ HolderFails \/ Close
            \/ UNCHANGED vars \/ \E p \in Pids : Exit(p)
  BY <1>9, <1>10 DEF EarlySignal, Signal, WindowEnds, HolderRuns, HolderFails, Close,
                     Exit, vars
<1> QED
  BY <1>2, <1>3, <1>4, <1>6, <1>7, <1>8, <1>10
     DEF Next, Environment, System, Terminated

\* What changes an entry leaves a change outstanding: with labels that are
\* names, register() never replaces one.
LEMMA EntriesChangeOutstanding ==
    ASSUME TypeOK, PhaseInv, EntriesInv, [Next]_vars, workers' # workers
    PROVE  ChangeOutstanding'
<1>1. /\ ready \in Seq(Tasks)
      /\ Change \in Tasks /\ Change.op = "change"
      /\ Restart \in Tasks /\ Restart.op = "restart"
  BY TaskTypes DEF TypeOK, Change, Restart
<1>2. CASE Prune
  BY <1>1, <1>2, AddedIsOutstanding DEF Prune, Schedule
<1>3. CASE RunRegister
  <2> DEFINE h == ready[1]
  <2>1. /\ ready # <<>> /\ Head(ready) = h /\ h.op = "register"
        /\ h.name \in Names /\ Len(ready) \in Nat /\ Len(ready) > 0
    BY <1>1, <1>3, TaskFields DEF RunRegister
  <2>2. h.name \notin Registered
    <3>1. RegAt(ready, Registered, known, 1, h.name)
      BY <2>1 DEF RegAt
    <3>2. h.name \in Registered => RegAt(ready, Registered, known, 0, h.name)
      BY <2>1 DEF RegAt
    <3>3. 0 \in 0..(Len(ready) + 1) /\ 1 \in 0..(Len(ready) + 1) /\ 0 < 1
      BY <2>1
    <3>4. ASSUME h.name \in Registered PROVE FALSE
      <4>1. PICK k \in 1..Len(ready) : 0 < k /\ k < 1
        BY <2>1, <3>1, <3>2, <3>3, <3>4 DEF EntriesInv, Alternate
      <4> QED
        BY <4>1
    <3> QED
      BY <3>4
  <2>3. ready' = Append(Tail(ready), Change)
    BY <1>3, <2>1, <2>2 DEF RunRegister
  <2> QED
    BY <1>1, <2>1, <2>3, AddedIsOutstanding
<1>4. CASE RunUnregister
  <2>1. ready # <<>> /\ Head(ready) \in Tasks /\ Head(ready).name \in Names
    BY <1>1, <1>4, TaskFields DEF RunUnregister
  <2>2. Head(ready).name \in Registered
    BY <1>4, <2>1 DEF RunUnregister, Unregister, Registered, TypeOK, RegistryTypeOK,
                      Rosters
  <2>3. ready' = Append(Tail(ready), Change)
    BY <1>4, <2>2 DEF RunUnregister
  <2> QED
    BY <1>1, <2>1, <2>3, AddedIsOutstanding
<1>5. CASE ~(Prune \/ RunRegister \/ RunUnregister)
  <2>1. UNCHANGED workers
    BY <1>5 DEF Next, Environment, System, RunTask, Terminated, vars, registryVars,
           AddService, UpdateService, RemoveService, Silence, GoStale, Exit,
           PostRestart, EarlySignal, Signal, RunTouch, Touch, RunChange, RunRestart,
           WindowEnds, HolderRuns, HolderFails, Close
  <2> QED
    BY <2>1
<1> QED
  BY <1>2, <1>3, <1>4, <1>5

\* The last snapshot has the addresses of now, unless a change is outstanding.
SnapCurrent == \A n \in Names : snap[n] # None => snap[n] = workers[n]

EndpointsInv == ~ChangeOutstanding /\ (phase = "spawning" \/ launched) => SnapCurrent

\* A step of the holder keeps the last snapshot's endpoints current, or takes
\* a new one.
LEMMA HolderKeepsEndpoints ==
    ASSUME LauncherInv, EndpointsInv, HolderStep \/ HolderRaises,
           UNCHANGED <<registryVars, ready>>
    PROVE  EndpointsInv'
<1> USE DEF LauncherInv, EndpointsInv
<1>1. UNCHANGED snap => (SnapCurrent' <=> SnapCurrent)
  BY DEF SnapCurrent, registryVars
<1>2. ASSUME BeginLaunch
      PROVE  EndpointsInv'
  <2>1. CASE phase' = "spawning"
    <3>1. snap' = ActiveRoster
      BY <1>2, <2>1 DEF BeginLaunch, Release
    <3> QED
      BY <3>1 DEF SnapCurrent, ActiveRoster, registryVars
  <2>2. CASE phase' # "spawning"
    BY <1>2, <2>2 DEF BeginLaunch, Release
  <2> QED
    BY <2>1, <2>2
<1>3. ASSUME UNCHANGED <<snap, launched>>, Held, Release,
             Holder = "stop" \/ phase = "health"
      PROVE  EndpointsInv'
  <2>1. ChangeOutstanding => ChangeOutstanding'
    BY <1>3, ReleaseKeepsOutstanding
  <2> QED
    BY <1>1, <1>3, <2>1 DEF Release
<1>4. ASSUME AfterStop, Held
      PROVE  EndpointsInv'
  BY <1>2, <1>3, <1>4 DEF AfterStop
<1>5. CASE BeginStart
  BY <1>2, <1>5 DEF BeginStart
<1>6. CASE BeginDrain \/ DrainTimeout
  <2>1. ChangeOutstanding' <=> ChangeOutstanding
    BY <1>6 DEF BeginDrain, DrainTimeout, ChangeOutstanding
  <2> QED
    BY <1>1, <1>6, <2>1 DEF BeginDrain, DrainTimeout
<1>7. CASE BeginNotRunning \/ DrainEnds
  BY <1>4, <1>7 DEF BeginNotRunning, DrainEnds, PhaseInv
<1>8. CASE SpawnSucceeds
  <2>1. ChangeOutstanding' <=> ChangeOutstanding
    BY <1>8 DEF SpawnSucceeds, ChangeOutstanding
  <2> QED
    BY <1>1, <1>8, <2>1 DEF SpawnSucceeds
<1>9. CASE HealthReturns
  BY <1>3, <1>9 DEF HealthReturns, PhaseInv
<1>10. CASE HolderRaises
  BY <1>10 DEF HolderRaises, SpawnRaises, KillRaises, Release
<1> QED
  BY <1>5, <1>6, <1>7, <1>8, <1>9, <1>10 DEF HolderStep

\* Steps beside the holder leave the launch alone, and outstanding what is.
LEMMA OthersKeepOutstanding ==
    ASSUME TypeOK, PhaseInv, [Next]_vars, ~HolderRuns, ~HolderFails
    PROVE  /\ UNCHANGED <<snap, launched, phase>>
           /\ ChangeOutstanding => ChangeOutstanding'
<1>1. CASE \E s \in Services : AddService(s) \/ UpdateService(s) \/ RemoveService(s)
  <2>1. UNCHANGED launcherVars /\ (UNCHANGED ready \/ \E t \in Tasks : Schedule(t))
    BY <1>1, TaskTypes, ServicesAssumption, NodeNameAssumption
       DEF AddService, UpdateService, RemoveService
  <2> QED
    BY <2>1, OutstandingStays DEF launcherVars
<1>2. CASE PostRestart \/ Prune \/ EarlySignal \/ Close
           \/ \E n \in Names : Silence(n)
  <2>1. UNCHANGED launcherVars /\ (UNCHANGED ready \/ \E t \in Tasks : Schedule(t))
    BY <1>2, TaskTypes DEF PostRestart, Prune, EarlySignal, Close, Silence
  <2> QED
    BY <2>1, OutstandingStays DEF launcherVars
<1>3. CASE RunChange \/ RunRestart
  BY <1>3, AddedIsOutstanding DEF RunChange, RunRestart, OnlyAsk, Requests
<1>4. CASE Signal
  BY <1>4, OutstandingStays DEF Signal, OnlyAsk, Requests
<1>5. CASE WindowEnds
  <2>1. CASE OnlyAsk("main_start")
    BY <2>1, AddedIsOutstanding DEF OnlyAsk, Requests
  <2>2. CASE UNCHANGED launcherVars /\ UNCHANGED ready
    BY <2>2, OutstandingStays DEF launcherVars
  <2> QED
    BY <1>5, <2>1, <2>2 DEF WindowEnds
<1>6. CASE RunRegister \/ RunUnregister \/ RunTouch
  <2>1. /\ UNCHANGED launcherVars
        /\ ready # <<>> /\ Head(ready).op \notin {"change", "restart"}
        /\ \/ ready' = Tail(ready)
           \/ \E t \in Tasks : ready' = Append(Tail(ready), t)
    BY <1>6, TaskTypes DEF RunRegister, RunUnregister, RunTouch
  <2> QED
    BY <2>1, OutstandingStays DEF launcherVars
<1>7. CASE \E p \in Pids : Exit(p)
  BY <1>7 DEF Exit, ProcExit, ChangeOutstanding
<1>8. CASE UNCHANGED vars
  BY <1>8 DEF vars, launcherVars, ChangeOutstanding
<1> QED
  BY <1>1, <1>2, <1>3, <1>4, <1>5, <1>6, <1>7, <1>8
     DEF Next, Environment, System, RunTask, Terminated

\* The inductive invariant of the registry and its tasks.
LEMMA EntriesInvariant ==
    ASSUME LabelsAreNames
    PROVE  Spec => []EntriesInv
<1>1. Init => EntriesInv
  BY DEF Init, RegistryInit, NoRoster, Registered, EntriesInv, Alternate, RegAt
<1>2. TypeOK /\ EntriesInv /\ [Next]_vars => EntriesInv'
  BY EntriesStep
<1> QED
  BY <1>1, <1>2, TypeCorrect, PTL DEF Spec

\* Where labels are node_names, a registered worker whose service is gone has
\* its unregister task under way, for any number of workers and tasks
\* (discovery.py, remove_service and unregister).
THEOREM NoGhosts ==
    ASSUME LabelsAreNames
    PROVE  Spec => []NoGhostWorkers
<1>1. TypeOK /\ EntriesInv => NoGhostWorkers
  <2> SUFFICES ASSUME TypeOK, EntriesInv, NEW n \in Registered \ known
               PROVE  \E k \in DOMAIN ready :
                         ready[k].op = "unregister" /\ ready[k].name = n
    BY DEF NoGhostWorkers
  <2>1. n \in Names /\ DOMAIN ready = 1..Len(ready) /\ Len(ready) \in Nat
    BY DEF TypeOK, Registered
  <2>2. /\ RegAt(ready, Registered, known, 0, n)
        /\ RegAt(ready, Registered, known, Len(ready) + 1, n)
    BY <2>1 DEF RegAt
  <2>3. PICK k \in 1..Len(ready) : UnAt(ready, k, n)
    BY <2>1, <2>2 DEF EntriesInv, Alternate
  <2> QED
    BY <2>1, <2>3 DEF UnAt
<1> QED
  BY <1>1, TypeCorrect, EntriesInvariant, PTL

\* Where labels are node_names, the running server has the current address of
\* every worker it was started with, for any number of workers and however
\* they come, go and move (discovery.py, register).
THEOREM EndpointsAlwaysServed ==
    ASSUME LabelsAreNames
    PROVE  Spec => []EndpointsServed
<1>1. Init => EndpointsInv
  BY DEF Init, LauncherInit, NoRoster, SnapCurrent, EndpointsInv
<1>2. LauncherInv /\ EntriesInv /\ EndpointsInv /\ [Next]_vars => EndpointsInv'
  <2> SUFFICES ASSUME LauncherInv, EntriesInv, EndpointsInv, [Next]_vars
               PROVE  EndpointsInv'
    OBVIOUS
  <2>1. CASE workers' # workers
    BY <2>1, EntriesChangeOutstanding DEF LauncherInv, EndpointsInv
  <2>2. CASE HolderRuns \/ HolderFails
    BY <2>2, HolderKeepsEndpoints DEF HolderRuns, HolderFails
  <2>3. CASE UNCHANGED workers /\ ~HolderRuns /\ ~HolderFails
    <3>1. /\ UNCHANGED <<snap, launched, phase>>
          /\ ChangeOutstanding => ChangeOutstanding'
      BY <2>3, OthersKeepOutstanding DEF LauncherInv
    <3> QED
      BY <2>3, <3>1 DEF EndpointsInv, SnapCurrent
  <2> QED
    BY <2>1, <2>2, <2>3
<1>3. LauncherInv /\ EndpointsInv => EndpointsServed
  BY DEF LauncherInv, SnapInv, EndpointsInv, SnapCurrent, EndpointsServed, Settled, Served
<1> QED
  BY <1>1, <1>2, <1>3, LauncherInvariant, EntriesInvariant, PTL DEF Spec

-----------------------------------------------------------------------------
(* Liveness.  What is ENABLED is beyond the provers, and so is induction   *)
(* on the length of a queue: that the fair actions are enabled where their *)
(* guards hold is a hypothesis here and an invariant that TLC checks, that *)
(* the guards hold where they have to is proved, and so is that whoever    *)
(* waits in a queue, at any place, gets nearer to its head, and from there *)
(* on.                                                                     *)

RequestAt(k, r) == Up /\ k \in DOMAIN lockq /\ lockq[k] = r

TaskAt(k, t) == Up /\ k \in DOMAIN ready /\ ready[k] = t

\* The next place in the queue; for a stop() at its head, the end of it.
Nearer(k, r) ==
    \/ ~Up
    \/ k > 1 /\ RequestAt(k - 1, r)
    \/ k = 1 /\ main = "closing"

\* How the holder's coroutine goes from segment to segment.
Onward ==
    \/ phase = "idle" /\ phase' \in {"draining", "spawning"}
    \/ phase = "draining" /\ phase' \in {"killing", "spawning"}
    \/ phase = "killing" /\ phase' = "spawning"
    \/ phase = "spawning" /\ phase' = "health"

LEMMA HolderOnward ==
    ASSUME TypeOK, PhaseInv, HolderStep \/ HolderRaises
    PROVE  /\ Held
           /\ Release \/ (Onward /\ UNCHANGED lockq)
           /\ ~(phase = "killing" /\ Running)
<1> USE DEF Onward, PhaseInv
<1>1. CASE BeginStart
  BY <1>1 DEF BeginStart, BeginLaunch
<1>2. CASE BeginDrain \/ DrainTimeout
  BY <1>2 DEF BeginDrain, DrainTimeout
<1>3. CASE BeginNotRunning
  BY <1>3 DEF BeginNotRunning, AfterStop, BeginLaunch
<1>4. CASE DrainEnds
  BY <1>4 DEF DrainEnds, AfterStop, BeginLaunch
<1>5. CASE SpawnSucceeds \/ HealthReturns
  BY <1>5 DEF SpawnSucceeds, HealthReturns
<1>6. CASE HolderRaises
  BY <1>6 DEF HolderRaises, SpawnRaises, KillRaises
<1> QED
  BY <1>1, <1>2, <1>3, <1>4, <1>5, <1>6 DEF HolderStep

\* When the holder has released the lock, everyone else is a place nearer, and
\* main() goes on from its stop().
LEMMA ReleaseAdvances ==
    ASSUME TypeOK, HolderRuns \/ HolderFails, Held, Release,
           NEW k \in Nat \ {0}, NEW r \in Requests, k = 1 => r = "stop",
           RequestAt(k, r)
    PROVE  Nearer(k, r)'
<1>1. lockq \in Seq(Requests) /\ lockq # <<>> /\ lockq' = Tail(lockq)
  BY DEF TypeOK, LauncherTypeOK, Release
<1>2. CASE k = 1
  <2>1. Head(lockq) = "stop"
    BY <1>1, <1>2 DEF RequestAt
  <2>2. main' \in {"closing", "down"}
    BY <1>1, <2>1 DEF HolderRuns, HolderFails, Returns
  <2> QED
    BY <1>2, <2>2 DEF Nearer
<1>3. CASE k > 1 /\ Up'
  <2>1. k - 1 \in DOMAIN lockq' /\ lockq'[k - 1] = r
    BY <1>1, <1>3 DEF RequestAt
  <2> QED
    BY <1>3, <2>1 DEF Nearer, RequestAt
<1> QED
  BY <1>2, <1>3 DEF Nearer

\* Whoever is not the holder does no more to the launcher than ask for its
\* lock, or exit as its server.
LEMMA OthersFrame ==
    ASSUME [Next]_vars, ~HolderRuns, ~HolderFails
    PROVE  \/ \E q \in Requests : OnlyAsk(q)
           \/ \E p \in Pids : ProcExit(p)
           \/ UNCHANGED launcherVars
  BY DEF Next, Environment, System, RunTask, Terminated, vars, AddService,
         UpdateService, RemoveService, Silence, Exit, PostRestart, EarlySignal,
         Signal, RunRegister, RunUnregister, RunTouch, RunChange, RunRestart,
         Prune, WindowEnds, Close, Requests

\* What a step of anyone leaves of a request in its place: it gets nearer, or
\* stays while the holder goes on, or while nothing happens to either.
LEMMA LockSteps ==
    ASSUME TypeOK, PhaseInv, [Next]_vars,
           NEW k \in Nat \ {0}, NEW r \in Requests, k = 1 => r = "stop",
           RequestAt(k, r)
    PROVE  \/ Nearer(k, r)'
           \/ RequestAt(k, r)' /\ Onward /\ ~(phase = "killing" /\ Running)
           \/ /\ RequestAt(k, r)' /\ UNCHANGED phase
              /\ ~HolderRuns /\ ~HolderFails
              /\ phase = "killing" /\ Running' => Running
<1>1. lockq \in Seq(Requests)
  BY DEF TypeOK, LauncherTypeOK
<1>2. CASE HolderRuns \/ HolderFails
  <2>1. HolderStep \/ HolderRaises
    BY <1>2 DEF HolderRuns, HolderFails
  <2>2. CASE Release
    BY <1>2, <2>1, <2>2, HolderOnward, ReleaseAdvances
  <2>3. CASE UNCHANGED lockq /\ Onward
    BY <2>1, <2>3, HolderOnward DEF RequestAt, Nearer
  <2> QED
    BY <2>1, <2>2, <2>3, HolderOnward
<1>3. CASE ~HolderRuns /\ ~HolderFails
  <2>1. \/ \E q \in Requests : OnlyAsk(q)
        \/ \E p \in Pids : ProcExit(p)
        \/ UNCHANGED launcherVars
    BY <1>3, OthersFrame
  <2>2. UNCHANGED phase /\ (Running' => Running)
    BY <2>1 DEF OnlyAsk, ProcExit, launcherVars, Running
  <2>3. k \in DOMAIN lockq' /\ lockq'[k] = r
    <3>1. ASSUME NEW q \in Requests, lockq' = Append(lockq, q)
          PROVE  k \in DOMAIN lockq' /\ lockq'[k] = r
      BY <1>1, <3>1 DEF RequestAt
    <3> QED
      BY <2>1, <3>1 DEF RequestAt, OnlyAsk, Ask, ProcExit, launcherVars
  <2> QED
    BY <1>3, <2>2, <2>3 DEF RequestAt, Nearer
<1> QED
  BY <1>2, <1>3


\* How far main() gets in the steps that are not the lock's holder's, and what
\* it asks of the launcher.
LEMMA MainSteps ==
    ASSUME [Next]_vars, ~HolderRuns, ~HolderFails
    PROVE  \/ main' = main /\ lockq' = lockq
           \/ main' = main /\ (lockq' = Append(lockq, "start")
                               \/ lockq' = Append(lockq, "restart"))
           \/ main # "stopping" /\ main' = "down" /\ lockq' = lockq
           \/ main = "window" /\ main' = "starting"
              /\ lockq' = Append(lockq, "main_start")
           \/ main = "window" /\ main' = "serving" /\ lockq' = lockq
           \/ main = "serving" /\ main' = "stopping" /\ lockq' = Append(lockq, "stop")
<1> USE DEF OnlyAsk, Ask, launcherVars
<1>1. CASE \/ \E s \in Services : AddService(s) \/ UpdateService(s) \/ RemoveService(s)
           \/ \E n \in Names : Silence(n)
           \/ \E p \in Pids : Exit(p)
           \/ PostRestart \/ EarlySignal \/ Signal
  BY <1>1 DEF AddService, UpdateService, RemoveService, Silence, Exit, ProcExit,
              PostRestart, EarlySignal, Signal
<1>2. CASE RunTask
  BY <1>2 DEF RunTask, RunRegister, RunUnregister, RunTouch, RunChange, RunRestart
<1>3. CASE Prune \/ WindowEnds \/ Close
  BY <1>3 DEF Prune, WindowEnds, Close
<1>4. CASE Terminated \/ UNCHANGED vars
  BY <1>4 DEF Terminated, vars
<1> QED
  BY <1>1, <1>2, <1>3, <1>4 DEF Next, Environment, System

\* While main() awaits launcher.stop(), its request is in the queue, at some
\* place that RequestsAdvance is about.
LEMMA StopIsQueued ==
    Spec => [](main = "stopping" => \E k \in Nat \ {0} : RequestAt(k, "stop"))
<1> DEFINE Inv == main = "stopping" => \E k \in Nat \ {0} : RequestAt(k, "stop")
<1>1. Init => Inv
  BY DEF Init
<1>2. TypeOK /\ PhaseInv /\ Inv /\ [Next]_vars => Inv'
  <2> SUFFICES ASSUME TypeOK, PhaseInv, Inv, [Next]_vars, main' = "stopping"
               PROVE  \E k \in Nat \ {0} : RequestAt(k, "stop")'
    OBVIOUS
  <2>1. CASE main = "stopping"
    <3>1. PICK k \in Nat \ {0} : RequestAt(k, "stop")
      BY <2>1
    <3>2. Nearer(k, "stop")' \/ RequestAt(k, "stop")'
      BY <3>1, LockSteps DEF Requests
    <3>3. CASE k > 1 /\ RequestAt(k - 1, "stop")'
      <4>1. k - 1 \in Nat \ {0}
        BY <3>3
      <4> QED
        BY <3>3, <4>1
    <3> QED
      BY <3>1, <3>2, <3>3 DEF Nearer
  <2>2. CASE main # "stopping"
    <3>1. lockq' = Append(lockq, "stop") /\ lockq \in Seq(Requests)
      BY <2>2, MainSteps DEF HolderRuns, HolderFails, TypeOK, LauncherTypeOK
    <3>2. PICK k \in Nat \ {0} : k = Len(lockq) + 1
      BY <3>1
    <3>3. RequestAt(k, "stop")'
      BY <3>1, <3>2 DEF RequestAt
    <3> QED
      BY <3>3
  <2> QED
    BY <2>1, <2>2
<1> QED
  BY <1>1, <1>2, LauncherInvariant, PTL DEF Spec, LauncherInv

\* While main() awaits launcher.start(), its request is in the queue.
LEMMA StartIsQueued ==
    Spec => [](main = "starting" => \E k \in Nat \ {0} : RequestAt(k, "main_start"))
<1> DEFINE Inv == main = "starting" => \E k \in Nat \ {0} : RequestAt(k, "main_start")
<1>1. Init => Inv
  BY DEF Init
<1>2. TypeOK /\ PhaseInv /\ Inv /\ [Next]_vars => Inv'
  <2> SUFFICES ASSUME TypeOK, PhaseInv, Inv, [Next]_vars, main' = "starting"
               PROVE  \E k \in Nat \ {0} : RequestAt(k, "main_start")'
    OBVIOUS
  <2>1. lockq \in Seq(Requests)
    BY DEF TypeOK, LauncherTypeOK
  <2>2. CASE main = "starting"
    <3>1. PICK k \in Nat \ {0} : RequestAt(k, "main_start")
      BY <2>2
    <3>2. CASE k > 1
      <4>1. Nearer(k, "main_start")' \/ RequestAt(k, "main_start")'
        BY <3>1, <3>2, LockSteps DEF Requests
      <4>2. CASE RequestAt(k - 1, "main_start")'
        <5>1. k - 1 \in Nat \ {0}
          BY <3>2
        <5> QED
          BY <4>2, <5>1
      <4> QED
        BY <3>2, <4>1, <4>2 DEF Nearer
    <3>3. CASE k = 1 /\ (HolderRuns \/ HolderFails)
      <4>1. Held /\ Holder = "main_start"
        BY <2>1, <3>1, <3>3 DEF RequestAt, Held, Holder
      <4>2. ~Release
        BY <2>2, <3>3, <4>1
           DEF HolderRuns, HolderFails, Returns, Release, HolderRaises, SpawnRaises,
               KillRaises
      <4>3. UNCHANGED lockq
        BY <3>3, <4>2, HolderOnward DEF HolderRuns, HolderFails
      <4> QED
        BY <3>1, <4>3 DEF RequestAt
    <3>4. CASE ~HolderRuns /\ ~HolderFails
      <4>1. ASSUME NEW q \in Requests, lockq' = Append(lockq, q)
            PROVE  RequestAt(k, "main_start")'
        BY <2>1, <3>1, <4>1 DEF RequestAt
      <4>2. lockq' = lockq => RequestAt(k, "main_start")'
        BY <3>1 DEF RequestAt
      <4> QED
        BY <2>2, <3>4, <4>1, <4>2, MainSteps DEF Requests
    <3> QED
      BY <3>2, <3>3, <3>4
  <2>3. CASE main # "starting"
    <3>1. lockq' = Append(lockq, "main_start")
      BY <2>3, MainSteps DEF HolderRuns, HolderFails
    <3>2. PICK k \in Nat \ {0} : k = Len(lockq) + 1
      BY <2>1
    <3>3. RequestAt(k, "main_start")'
      BY <2>1, <3>1, <3>2 DEF RequestAt
    <3> QED
      BY <3>3
  <2> QED
    BY <2>2, <2>3
<1> QED
  BY <1>1, <1>2, LauncherInvariant, PTL DEF Spec, LauncherInv

\* In every reachable state, whoever has something to do has the guard of its
\* next step: the lock's holder in each of its awaits, the task whose turn it
\* is, and main(), which never awaits a call that is not in the queue.  With
\* what TLC finds of the guards, nothing blocks (launcher.py, main.py).
THEOREM NothingEverBlocks == Spec => []CanGoOn /\ ([]GuardsEnable => []NothingBlocks)
<1>1. TypeOK /\ PhaseInv => (HolderDue => HolderCan)
  <2> SUFFICES ASSUME TypeOK, PhaseInv, HolderDue
               PROVE  HolderCan
    OBVIOUS
  <2>1. Holder \in Requests
    BY DEF HolderDue, Held, Holder, TypeOK, LauncherTypeOK
  <2> QED
    BY <2>1 DEF HolderDue, HolderCan, PhaseInv, TypeOK, LauncherTypeOK, Phases
<1>2. TypeOK => (Up /\ ready # <<>> => TaskCan)
  <2> SUFFICES ASSUME TypeOK, Up, ready # <<>>
               PROVE  TaskCan
    OBVIOUS
  <2>1. Head(ready) \in Tasks
    BY DEF TypeOK
  <2> QED
    BY <2>1 DEF Tasks, TaskCan
<1>3. (main = "starting" => \E k \in Nat \ {0} : RequestAt(k, "main_start"))
        => (main = "starting" => \E k \in DOMAIN lockq : lockq[k] = "main_start")
  BY DEF RequestAt
<1>4. (main = "stopping" => \E k \in Nat \ {0} : RequestAt(k, "stop"))
        => (main = "stopping" => \E k \in DOMAIN lockq : lockq[k] = "stop")
  BY DEF RequestAt
<1>5. LauncherInv => TypeOK /\ PhaseInv
  BY DEF LauncherInv
<1> QED
  BY <1>1, <1>2, <1>3, <1>4, <1>5, LauncherInvariant, StartIsQueued, StopIsQueued, PTL
     DEF CanGoOn, NothingBlocks

\* What main() awaits of the launcher, of which it asks for one at a time.
MainInv ==
    \A i \in DOMAIN lockq :
        lockq[i] \in {"main_start", "stop"} =>
            /\ \/ main = "down"
               \/ main = "starting" /\ lockq[i] = "main_start"
               \/ main = "stopping" /\ lockq[i] = "stop"
            /\ \A j \in DOMAIN lockq : lockq[j] = lockq[i] => j = i

LEMMA MainInvariant == Spec => []MainInv
<1>1. Init => MainInv
  BY DEF Init, LauncherInit, MainInv
<1>2. TypeOK /\ PhaseInv /\ MainInv /\ [Next]_vars => MainInv'
  <2> SUFFICES ASSUME TypeOK, PhaseInv, MainInv, [Next]_vars
               PROVE  MainInv'
    OBVIOUS
  <2>1. lockq \in Seq(Requests)
    BY DEF TypeOK, LauncherTypeOK
  <2>2. CASE HolderRuns \/ HolderFails
    <3>1. HolderStep \/ HolderRaises
      BY <2>2 DEF HolderRuns, HolderFails
    <3>2. CASE UNCHANGED lockq
      <4>1. ~Returns("main_start") /\ ~Returns("stop")
        BY <2>1, <3>2 DEF Returns
      <4>2. main' = main \/ main' = "down"
        BY <2>2, <4>1 DEF HolderRuns, HolderFails
      <4> QED
        BY <3>2, <4>2 DEF MainInv
    <3>3. CASE Release
      <4>1. lockq # <<>> /\ lockq' = Tail(lockq)
        BY <3>1, <3>3, HolderOnward DEF Release
      <4>2. \A i \in DOMAIN lockq' : /\ i \in 1..Len(lockq') /\ i + 1 \in DOMAIN lockq
                                     /\ lockq'[i] = lockq[i + 1]
        BY <2>1, <4>1
      <4>3. 1 \in DOMAIN lockq /\ Holder = lockq[1]
        BY <2>1, <4>1
      <4>4. CASE Holder \in {"main_start", "stop"}
        <5>1. \A i \in DOMAIN lockq' : lockq'[i] \notin {"main_start", "stop"}
          <6> SUFFICES ASSUME NEW i \in DOMAIN lockq',
                              lockq'[i] \in {"main_start", "stop"}
                       PROVE  FALSE
            OBVIOUS
          <6>1. i + 1 \in DOMAIN lockq /\ i + 1 # 1 /\ lockq[i + 1] = lockq'[i]
            BY <4>2
          <6>2. main # "down"
            BY <2>2 DEF HolderRuns, HolderFails
          <6>3. lockq[i + 1] = lockq[1]
            BY <4>3, <4>4, <6>1, <6>2 DEF MainInv
          <6> QED
            BY <4>3, <4>4, <6>1, <6>3 DEF MainInv
        <5> QED
          BY <5>1 DEF MainInv
      <4>5. CASE Holder \notin {"main_start", "stop"}
        <5>1. UNCHANGED main
          BY <2>2, <4>5 DEF HolderRuns, HolderFails, Returns
        <5> QED
          BY <4>2, <5>1 DEF MainInv
      <4> QED
        BY <4>4, <4>5
    <3> QED
      BY <3>1, <3>2, <3>3, HolderOnward
  <2>3. CASE ~HolderRuns /\ ~HolderFails
    <3>1. ASSUME NEW q \in Requests, lockq' = Append(lockq, q)
          PROVE  \A i \in DOMAIN lockq' :
                    \/ i \in DOMAIN lockq /\ lockq'[i] = lockq[i]
                    \/ i = Len(lockq) + 1 /\ lockq'[i] = q
      BY <2>1, <3>1
    <3>2. CASE lockq' = lockq
      BY <2>3, <3>2, MainSteps DEF MainInv
    <3>3. CASE \E q \in {"start", "restart"} : lockq' = Append(lockq, q) /\ main' = main
      BY <3>1, <3>3 DEF MainInv, Requests
    <3>4. CASE \/ /\ main = "window" /\ main' = "starting"
                  /\ lockq' = Append(lockq, "main_start")
               \/ /\ main = "serving" /\ main' = "stopping"
                  /\ lockq' = Append(lockq, "stop")
      BY <3>1, <3>4 DEF MainInv, Requests
    <3> QED
      BY <2>3, <3>2, <3>3, <3>4, MainSteps
  <2> QED
    BY <2>2, <2>3
<1> QED
  BY <1>1, <1>2, LauncherInvariant, PTL DEF Spec, LauncherInv

\* main()'s stop() ends without a server: past whatever requests it waited for,
\* killed in time or not, and also when kill() raises (launcher.py, stop and
\* _stop_server; main.py, _run).
THEOREM StopAlwaysStops == Spec => StopStops
<1>1. LauncherInv /\ MainInv /\ [Next]_vars
        => [main = "stopping" /\ main' # "stopping" => ~Running']_vars
  <2> SUFFICES ASSUME TypeOK, PhaseInv, MainInv, [Next]_vars,
                      main = "stopping", main' # "stopping"
               PROVE  ~Running'
    BY DEF LauncherInv
  <2>1. HolderRuns \/ HolderFails
    BY MainSteps
  <2>2. Held /\ Holder = "stop"
    <3>1. Held /\ Holder \in {"main_start", "stop"}
      BY <2>1 DEF HolderRuns, HolderFails, Returns, HolderRaises, SpawnRaises, KillRaises,
                  PhaseInv
    <3>2. 1 \in DOMAIN lockq /\ lockq[1] = Holder
      BY <3>1 DEF Held, Holder, TypeOK, LauncherTypeOK
    <3> QED
      BY <3>1, <3>2 DEF MainInv
  <2>3. ~Running /\ UNCHANGED alive /\ proc' \in {proc, NoProc}
    <3>1. CASE HolderRuns
      <4>1. Release
        BY <2>1, <2>2, <3>1, HolderOnward DEF HolderRuns, Returns, Held, TypeOK,
           LauncherTypeOK
      <4> QED
        BY <2>2, <3>1, <4>1
           DEF HolderRuns, HolderStep, BeginStart, BeginDrain, BeginNotRunning,
               DrainTimeout, DrainEnds, SpawnSucceeds, HealthReturns, Release, Starts,
               PhaseInv, Running
    <3>2. CASE HolderFails
      BY <2>2, <3>2 DEF HolderFails, HolderRaises, SpawnRaises, KillRaises, PhaseInv
    <3> QED
      BY <2>1, <3>1, <3>2
  <2> QED
    BY <2>3, NoProcAssumption DEF Running, TypeOK, LauncherTypeOK
<1> QED
  BY <1>1, LauncherInvariant, MainInvariant, PTL DEF Spec, StopStops

\* Every request for the lock gets nearer to it, from any place in the queue,
\* past any holder and whatever the server does; and the stop() that has the
\* lock ends the program (launcher.py, _restart_lock; main.py, _run).
THEOREM RequestsAdvance ==
    ASSUME NEW k \in Nat \ {0}, NEW r \in Requests, k = 1 => r = "stop"
    PROVE  FairSpec /\ []GuardsEnable =>
              (RequestAt(k, r) ~> ~Up \/ (k > 1 /\ RequestAt(k - 1, r)))
<1> DEFINE Waits == RequestAt(k, r)
           Done == Nearer(k, r)
           Closing == main = "closing"
           Goal == ~Up \/ (k > 1 /\ RequestAt(k - 1, r))
           Idle == Waits /\ phase = "idle"
           Draining == Waits /\ phase = "draining"
           Killing == Waits /\ phase = "killing" /\ Running
           Killed == Waits /\ phase = "killing" /\ ~Running
           Spawning == Waits /\ phase = "spawning"
           Health == Waits /\ phase = "health"
<1>1. TypeOK /\ PhaseInv /\ [Next]_vars
        => /\ Idle => (Idle \/ Draining \/ Spawning \/ Done)'
           /\ Draining => (Draining \/ Killing \/ Killed \/ Spawning \/ Done)'
           /\ Killing => (Killing \/ Killed \/ Done)'
           /\ Killed => (Killed \/ Spawning \/ Done)'
           /\ Spawning => (Spawning \/ Health \/ Done)'
           /\ Health => (Health \/ Done)'
  BY LockSteps DEF Onward
<1>2. TypeOK /\ PhaseInv /\ [Next]_vars /\ <<HolderRuns \/ HolderFails>>_vars
        => /\ Idle => (Draining \/ Spawning \/ Done)'
           /\ Draining => (Killing \/ Killed \/ Spawning \/ Done)'
           /\ Killed => (Spawning \/ Done)'
           /\ Spawning => (Health \/ Done)'
           /\ Health => Done'
  BY LockSteps DEF Onward
<1>3. Killing /\ <<phase = "killing" /\ Exit(proc)>>_vars => Killed'
  BY DEF Exit, ProcExit, Running, RequestAt
<1>4. TypeOK /\ Waits
        => Idle \/ Draining \/ Killing \/ Killed \/ Spawning \/ Health
  BY DEF TypeOK, LauncherTypeOK, Phases
<1>5. TypeOK
        => /\ Idle \/ Draining \/ Killed \/ Spawning \/ Health => HolderDue
           /\ Killing => KillDue
  BY DEF HolderDue, KillDue, RequestAt, TypeOK, LauncherTypeOK
<1>6. Done => Goal \/ Closing
  BY DEF Nearer
<1>7. TypeOK /\ MainInv /\ [Next]_vars => (Closing => (Closing \/ Goal)')
  <2> SUFFICES ASSUME TypeOK, MainInv, [Next]_vars, main = "closing"
               PROVE  main' \in {"closing", "down"}
    OBVIOUS
  <2>1. CASE HolderRuns \/ HolderFails
    <3>1. Returns("main_start") => 1 \in DOMAIN lockq /\ lockq[1] = "main_start"
      BY DEF Returns, TypeOK, LauncherTypeOK
    <3> QED
      BY <2>1, <3>1 DEF HolderRuns, HolderFails, MainInv
  <2>2. CASE ~HolderRuns /\ ~HolderFails
    BY <2>2, MainSteps
  <2> QED
    BY <2>1, <2>2
<1>8. Closing /\ <<Close>>_vars => Goal'
  BY DEF Close
<1>9. LauncherInv => TypeOK /\ PhaseInv
  BY DEF LauncherInv
<1>10. /\ RequestAt(k, r) <=> Waits
       /\ ~Up \/ (k > 1 /\ RequestAt(k - 1, r)) <=> Goal
       /\ main = "closing" <=> Closing
  OBVIOUS
<1> HIDE DEF Waits, Done, Idle, Draining, Killing, Killed, Spawning, Health, Closing,
             Goal
<1> QED
  BY <1>1, <1>2, <1>3, <1>4, <1>5, <1>6, <1>7, <1>8, <1>9, <1>10, LauncherInvariant,
     MainInvariant, NothingEverBlocks, PTL
     DEF FairSpec, Fairness, Spec, NothingBlocks, CanGoOn, GuardsEnable

\* A task that runs leaves the queue to those behind it.
LEMMA TaskRun ==
    ASSUME TypeOK, RunTask, NEW k \in Nat \ {0, 1}, NEW t \in Tasks, TaskAt(k, t)
    PROVE  TaskAt(k - 1, t)'
<1>1. ready \in Seq(Tasks) /\ ready # <<>>
  BY DEF TypeOK, RunTask, RunRegister, RunUnregister, RunTouch, RunChange, RunRestart
<1>2. ready' = Tail(ready) \/ ready' = Append(Tail(ready), Change)
  BY DEF RunTask, RunRegister, RunUnregister, RunTouch, RunChange, RunRestart
<1>3. UNCHANGED main
  BY DEF RunTask, RunRegister, RunUnregister, RunTouch, RunChange, RunRestart
<1>4. /\ k - 1 \in DOMAIN Tail(ready) /\ Tail(ready)[k - 1] = t
      /\ Tail(ready) \in Seq(Tasks)
  BY <1>1 DEF TaskAt
<1>5. k - 1 \in DOMAIN ready' /\ ready'[k - 1] = t
  BY <1>2, <1>4
<1> QED
  BY <1>3, <1>5 DEF TaskAt

\* A scheduled task gets nearer to its turn, from any place in the queue.
THEOREM TasksAdvance ==
    ASSUME NEW k \in Nat \ {0, 1}, NEW t \in Tasks
    PROVE  FairSpec /\ []GuardsEnable => (TaskAt(k, t) ~> ~Up \/ TaskAt(k - 1, t))
<1> DEFINE Waits == TaskAt(k, t)
           Done == ~Up \/ TaskAt(k - 1, t)
           Due == Up /\ ready # <<>>
<1>1. TypeOK /\ [Next]_vars => (Waits => (Waits \/ Done)')
  <2> SUFFICES ASSUME TypeOK, [Next]_vars, Waits, Up'
               PROVE  TaskAt(k, t)' \/ TaskAt(k - 1, t)'
    OBVIOUS
  <2>1. ready \in Seq(Tasks)
    BY DEF TypeOK
  <2>2. CASE UNCHANGED ready
    BY <2>2 DEF TaskAt
  <2>3. ASSUME NEW u, ready' = Append(ready, u)
        PROVE  TaskAt(k, t)'
    BY <2>1, <2>3 DEF TaskAt
  <2>4. CASE RunTask
    BY <2>4, TaskRun
  <2>5. CASE ~RunTask
    BY <2>5, <2>2, <2>3
       DEF Next, Environment, System, Terminated, vars, AddService, UpdateService,
           RemoveService, Silence, Exit, PostRestart, EarlySignal, Signal, Prune,
           Schedule, WindowEnds, HolderRuns, HolderFails, Close
  <2> QED
    BY <2>4, <2>5
<1>2. TypeOK /\ Waits /\ <<RunTask>>_vars => Done'
  BY TaskRun
<1>3. TypeOK /\ Waits => Due
  BY DEF TaskAt, TypeOK
<1>4. (TaskAt(k, t) <=> Waits) /\ ((~Up \/ TaskAt(k - 1, t)) <=> Done)
      /\ (Due <=> (Up /\ ready # <<>>))
  OBVIOUS
<1> HIDE DEF Waits, Done, Due
<1> QED
  BY <1>1, <1>2, <1>3, <1>4, TypeCorrect, NothingEverBlocks, PTL
     DEF FairSpec, Fairness, Spec, NothingBlocks, CanGoOn, GuardsEnable

\* A change, or the prune loop's restart, whose turn has come asks for a launch.
THEOREM ChangeAsks ==
    ASSUME NEW t \in Tasks, t.op \in {"change", "restart"}
    PROVE  FairSpec /\ []GuardsEnable =>
              (TaskAt(1, t) ~>
                  ~Up \/ \E k \in DOMAIN lockq : lockq[k] \in {"start", "restart"})
<1> DEFINE Waits == TaskAt(1, t)
           Asks == \E k \in DOMAIN lockq : lockq[k] \in {"start", "restart"}
           Due == Up /\ ready # <<>>
<1>1. ASSUME TypeOK, Waits, RunTask
      PROVE  Asks'
  <2>1. ready \in Seq(Tasks) /\ Head(ready) = t /\ lockq \in Seq(Requests)
    BY <1>1 DEF TypeOK, LauncherTypeOK, TaskAt
  <2>2. \E r \in {"start", "restart"} : lockq' = Append(lockq, r)
    BY <1>1, <2>1 DEF RunTask, RunRegister, RunUnregister, RunTouch, RunChange,
                      RunRestart, OnlyAsk, Ask
  <2>3. PICK r \in {"start", "restart"} : lockq' = Append(lockq, r)
    BY <2>2
  <2>4. r \in Requests
    BY DEF Requests
  <2>5. \E k \in DOMAIN lockq' : lockq'[k] = r
    BY <2>1, <2>3, <2>4
  <2> QED
    BY <2>5
<1>2. TypeOK /\ [Next]_vars => (Waits => (Waits \/ Asks \/ ~Up)')
  <2> SUFFICES ASSUME TypeOK, [Next]_vars, Waits, Up', ~RunTask
               PROVE  Waits'
    BY <1>1
  <2>1. ready \in Seq(Tasks)
    BY DEF TypeOK
  <2>2. ASSUME NEW u, ready' = Append(ready, u)
        PROVE  Waits'
    BY <2>1, <2>2 DEF TaskAt
  <2>3. CASE UNCHANGED ready
    BY <2>3 DEF TaskAt
  <2> QED
    BY <2>2, <2>3
       DEF Next, Environment, System, Terminated, vars, AddService, UpdateService,
           RemoveService, Silence, Exit, PostRestart, EarlySignal, Signal, Prune,
           Schedule, WindowEnds, HolderRuns, HolderFails, Close
<1>3. TypeOK /\ Waits /\ <<RunTask>>_vars => Asks'
  BY <1>1
<1>4. TypeOK /\ Waits => Due
  BY DEF TaskAt, TypeOK
<1>5. (TaskAt(1, t) <=> Waits) /\ (Due <=> (Up /\ ready # <<>>))
      /\ (Asks <=> \E k \in DOMAIN lockq : lockq[k] \in {"start", "restart"})
  OBVIOUS
<1> HIDE DEF Waits, Asks, Due
<1> QED
  BY <1>2, <1>3, <1>4, <1>5, TypeCorrect, NothingEverBlocks, PTL
     DEF FairSpec, Fairness, Spec, NothingBlocks, CanGoOn, GuardsEnable

\* A request that has the lock gets to its launch, with the roster as it then
\* is, or fails: past SIGTERM, SIGKILL, and a missing model (launcher.py,
\* start, restart, _stop_server, _launch).
THEOREM LaunchesSettle ==
    FairSpec /\ []GuardsEnable =>
        (Up /\ Held /\ Holder # "stop" /\ phase \in {"idle", "draining", "killing"} ~>
            Considered = Registered \/ ~(launched \/ phase = "spawning") \/ ~Up)
<1> DEFINE Has == Up /\ Held /\ Holder # "stop"
           Idle == Has /\ phase = "idle"
           Draining == Has /\ phase = "draining"
           Killing == Has /\ phase = "killing" /\ Running
           Killed == Has /\ phase = "killing" /\ ~Running
           Settles == SnapAgrees \/ ~LaunchOk \/ ~Up
<1>1. ASSUME TypeOK, PhaseInv, Has, phase \in {"idle", "draining", "killing"},
             HolderRuns \/ HolderFails
      PROVE  /\ Settles' \/ (Has' /\ Onward /\ phase' # "spawning")
             /\ ~(phase = "killing" /\ Running)
  <2>1. HolderStep \/ HolderRaises
    BY <1>1 DEF HolderRuns, HolderFails
  <2>2. ASSUME BeginLaunch, UNCHANGED registryVars
        PROVE  Settles'
    BY <1>1, <2>2, BeginLaunchAgrees DEF LaunchOk, BeginLaunch, Release
  <2>3. UNCHANGED registryVars
    BY <1>1 DEF HolderRuns, HolderFails
  <2>4. CASE BeginStart
    BY <2>2, <2>3, <2>4, <1>1 DEF BeginStart
  <2>5. CASE BeginDrain \/ DrainTimeout
    <3>1. lockq' = lockq /\ phase' \in {"draining", "killing"} /\ lockq # <<>>
      BY <1>1, <2>5 DEF BeginDrain, DrainTimeout
    <3>2. Onward
      BY <1>1, <2>1, <3>1, HolderOnward DEF Release
    <3> QED
      BY <1>1, <2>1, <3>1, <3>2, HolderOnward
  <2>6. CASE BeginNotRunning \/ DrainEnds
    BY <1>1, <2>1, <2>2, <2>3, <2>6, HolderOnward
       DEF BeginNotRunning, DrainEnds, AfterStop
  <2>7. CASE SpawnSucceeds \/ HealthReturns
    BY <1>1, <2>7 DEF SpawnSucceeds, HealthReturns
  <2>8. CASE HolderRaises
    BY <1>1, <2>8 DEF HolderRaises, SpawnRaises, KillRaises, Release, LaunchOk
  <2> QED
    BY <1>1, <2>1, <2>4, <2>5, <2>6, <2>7, <2>8, HolderOnward DEF HolderStep
<1>2. ASSUME TypeOK, Has, [Next]_vars, ~HolderRuns, ~HolderFails
      PROVE  ~Up' \/ (Has' /\ UNCHANGED phase /\ (Running' => Running))
  <2>1. lockq \in Seq(Requests)
    BY <1>2 DEF TypeOK, LauncherTypeOK
  <2>2. ASSUME NEW q \in Requests, lockq' = Append(lockq, q)
        PROVE  lockq' # <<>> /\ Head(lockq') = Head(lockq)
    BY <1>2, <2>1, <2>2
  <2>3. lockq' # <<>> /\ Head(lockq') = Head(lockq)
    BY <1>2, <2>2, OthersFrame DEF OnlyAsk, Ask, ProcExit, launcherVars
  <2> QED
    BY <1>2, <2>3, OthersFrame DEF OnlyAsk, ProcExit, launcherVars, Running
<1>3. TypeOK /\ PhaseInv /\ [Next]_vars
        => /\ Idle => (Idle \/ Draining \/ Settles)'
           /\ Draining => (Draining \/ Killing \/ Killed \/ Settles)'
           /\ Killing => (Killing \/ Killed \/ Settles)'
           /\ Killed => (Killed \/ Settles)'
  BY <1>1, <1>2 DEF Onward
<1>4. TypeOK /\ PhaseInv /\ <<HolderRuns \/ HolderFails>>_vars
        => /\ Idle => (Draining \/ Settles)'
           /\ Draining => (Killing \/ Killed \/ Settles)'
           /\ Killed => Settles'
  BY <1>1 DEF Onward
<1>5. Killing /\ <<phase = "killing" /\ Exit(proc)>>_vars => Killed'
  BY DEF Exit, ProcExit, Running
<1>6. /\ Idle \/ Draining \/ Killed => HolderDue
      /\ Killing => KillDue
  BY DEF HolderDue, KillDue
<1>7. /\ Has /\ phase \in {"idle", "draining", "killing"}
           => Idle \/ Draining \/ Killing \/ Killed
      /\ Settles => Considered = Registered \/ ~(launched \/ phase = "spawning") \/ ~Up
      /\ Has <=> Up /\ Held /\ Holder # "stop"
  BY DEF SnapAgrees, LaunchOk
<1>8. LauncherInv => TypeOK /\ PhaseInv
  BY DEF LauncherInv
<1> HIDE DEF Has, Idle, Draining, Killing, Killed, Settles
<1> QED
  BY <1>3, <1>4, <1>5, <1>6, <1>7, <1>8, LauncherInvariant, NothingEverBlocks, PTL
     DEF FairSpec, Fairness, Spec, NothingBlocks, CanGoOn, GuardsEnable
=============================================================================
