--------------------- MODULE WindowsOrchestratorProofs ---------------------
(***************************************************************************)
(* Proofs about module WindowsOrchestrator, for any workers, endpoints and *)
(* processes, and any number of restart and monitor threads.               *)
(***************************************************************************)
EXTENDS WindowsOrchestrator, TLAPS

\* The operators on the registry keep its type, and have a roster to show.
LEMMA RegistryTypes ==
    ASSUME RegistryTypeOK, NEW n \in Names, NEW e \in Endpoints,
           Register(n, e) \/ Unregister(n) \/ Touch(n) \/ GoStale(n)
    PROVE  RegistryTypeOK'
  BY DEF RegistryTypeOK, Rosters, Register, Unregister, Touch, GoStale, Active,
         Registered

LEMMA RosterTypes ==
    ASSUME RegistryTypeOK
    PROVE  ActiveRoster \in Rosters /\ NoRoster \in Rosters
  BY DEF RegistryTypeOK, ActiveRoster, Rosters, NoRoster

\* What a change callback does to its three variables.
LEMMA ChangeTypes ==
    ASSUME TypeOK, OnChange \/ NoChange
    PROVE  pending' \in Nat /\ missed' \in BOOLEAN /\ listening' \in BOOLEAN
<1>1. pending \in Nat /\ missed \in BOOLEAN /\ listening \in BOOLEAN
  BY DEF TypeOK
<1>2. /\ pending' = pending \/ pending' = pending + 1
      /\ missed' = missed \/ missed' = TRUE
      /\ listening' = listening \/ listening' = FALSE
  BY DEF OnChange, NoChange
<1>3. pending' \in Nat
  BY <1>1, <1>2
<1>4. missed' \in BOOLEAN /\ listening' \in BOOLEAN
  BY <1>1, <1>2, Zenon
<1> QED
  BY <1>3, <1>4, Zenon

\* The flags among the variables, and the rest.
Flags == listening \in BOOLEAN /\ stopping \in BOOLEAN /\ missed \in BOOLEAN

\* The steps of the browser's thread keep every variable's type.
LEMMA BrowserTypes ==
    ASSUME TypeOK, NEW n \in Names,
           AddService(n) \/ UpdateService(n) \/ RemoveService(n) \/ Silence(n)
    PROVE  TypeOK'
<1>1. UNCHANGED browserFrame
  BY DEF AddService, UpdateService, RemoveService, Silence
<1>2. OnChange \/ NoChange
  BY DEF AddService, UpdateService, RemoveService, Silence
<1>3. known' \subseteq Names
  BY DEF AddService, UpdateService, RemoveService, Silence, TypeOK
<1>4. RegistryTypeOK'
  <2>1. CASE UNCHANGED registryVars
    BY <2>1 DEF TypeOK, RegistryTypeOK, registryVars
  <2>2. CASE \E e \in Endpoints : Register(n, e)
    BY <2>2, RegistryTypes DEF TypeOK
  <2>3. CASE Unregister(n) \/ Touch(n) \/ GoStale(n)
    BY <2>3 DEF TypeOK, RegistryTypeOK, Rosters, Unregister, Touch, GoStale, Active,
                Registered
  <2> QED
    BY <2>1, <2>2, <2>3 DEF AddService, UpdateService, RemoveService, Silence
<1>5. pending' \in Nat /\ missed' \in BOOLEAN /\ listening' \in BOOLEAN
  BY <1>2, ChangeTypes
<1>6. /\ watchers' = watchers /\ crashers' = crashers
      /\ proc' = proc /\ alive' = alive /\ cmd' = cmd
      /\ holder' = holder /\ step' = step /\ stage' = stage
      /\ quit' = quit /\ stopping' = stopping
      /\ snap' = snap /\ skipped' = skipped
  BY <1>1 DEF browserFrame, procVars, lockVars
<1>7. Flags'
  <2>1. stopping' \in BOOLEAN
    BY <1>1, Zenon DEF TypeOK, browserFrame
  <2> QED
    BY <1>5, <2>1 DEF Flags
<1> QED
  BY <1>3, <1>4, <1>5, <1>6, <1>7 DEF TypeOK, Flags, RegistryTypeOK, Holders, Steps, QuitStages

\* Every variable of the Windows orchestrator keeps its type.
THEOREM TypeCorrect == Spec => []TypeOK
<1>1. Init => TypeOK
  <2> SUFFICES ASSUME Init
               PROVE  TypeOK
    OBVIOUS
  <2>1. NoRoster \in Rosters
    BY DEF NoRoster, Rosters
  <2>2. Flags
    BY Zenon DEF Init, Flags
  <2>3. cmd \in [Pids -> Rosters] /\ RegistryTypeOK
    BY <2>1 DEF Init, RegistryInit, RegistryTypeOK
  <2> QED
    BY <2>1, <2>2, <2>3 DEF Init, TypeOK, Flags, Holders, Steps, Quitters, QuitStages
<1>2. TypeOK /\ [Next]_vars => TypeOK'
  <2> SUFFICES ASSUME TypeOK, [Next]_vars
               PROVE  TypeOK'
    OBVIOUS
  <2> USE DEF TypeOK, RegistryTypeOK, Holders, Steps, Quitters, QuitStages,
              registryVars, threadVars, procVars, lockVars, appVars, listVars, lockFrame, monitorFrame
  <2>1. CASE \E n \in Names : AddService(n) \/ UpdateService(n)
                                 \/ RemoveService(n) \/ Silence(n)
    BY <2>1, BrowserTypes
  <2>2. CASE \E p \in Pids : ServerExits(p)
    BY <2>2, RosterTypes DEF ServerExits
  <2>3. CASE TrayRestart
    BY <2>3 DEF TrayRestart
  <2>4. CASE \E w \in Quitters : Quit(w)
    <3>1. quit' \in [Quitters -> QuitStages]
      BY <2>4 DEF Quit
    <3>2. Flags'
      BY <2>4, Zenon DEF Quit, Flags
    <3> QED
      BY <2>4, <3>1, <3>2 DEF Quit, Flags
  <2>5. CASE Drain
    BY <2>5, RosterTypes DEF Drain, Release
  <2>6. CASE WakeUp \/ Announce \/ Report
    BY <2>6 DEF WakeUp, Announce, Report, Release
  <2>7. CASE Build
    <3>1. Registered \cap stale \subseteq Names
      BY DEF Registered
    <3>2. /\ snap' = snap \/ snap' = ActiveRoster
          /\ skipped' = skipped \/ skipped' = Registered \cap stale
          /\ holder' = holder \/ holder' = "none"
          /\ step' = step \/ step' = "report" \/ step' = "announce"
          /\ UNCHANGED <<lockFrame, threadVars, procVars, stage, quit>>
      BY <2>7 DEF Build, Release
    <3>3. Flags'
      BY <2>7, Zenon DEF Build, Flags
    <3> QED
      BY <3>1, <3>2, <3>3, RosterTypes DEF Flags
  <2>8. CASE Spawn
    <3>1. /\ watchers' \in Nat
          /\ proc' \in Pids \cup {NoProc} /\ alive' \subseteq Pids
          /\ cmd' \in [Pids -> Rosters]
      BY <2>8 DEF Spawn
    <3>2. /\ holder' = holder \/ holder' = "none"
          /\ step' = step \/ step' = "report"
          /\ UNCHANGED <<lockFrame, pending, crashers, listVars, stage, quit>>
      BY <2>8 DEF Spawn, Release
    <3>3. Flags'
      BY <2>8, Zenon DEF Spawn, Flags
    <3> QED
      BY <3>1, <3>2, <3>3 DEF Flags
  <2>9. CASE TakeLock
    BY <2>9 DEF TakeLock, TakeStart, TakeRestart, TakeCrash, TakeStop, Take
  <2>10. CASE MonitorSees \/ MonitorEnds
    BY <2>10 DEF MonitorSees, MonitorEnds
  <2>11. CASE WindowEnds \/ \E w \in Quitters : Leave(w) \/ Destroy(w)
    <3>1. quit' \in [Quitters -> QuitStages] /\ stage' \in {stage, "asking"}
      BY <2>11 DEF WindowEnds, Leave, Destroy
    <3>2. Flags'
      BY <2>11, Zenon DEF WindowEnds, Leave, Destroy, Flags
    <3> QED
      BY <2>11, <3>1, <3>2 DEF WindowEnds, Leave, Destroy, Flags
  <2>12. CASE Terminated \/ UNCHANGED vars
    BY <2>12 DEF Terminated, vars
  <2> QED
    BY <2>1, <2>2, <2>3, <2>4, <2>5, <2>6, <2>7, <2>8, <2>9, <2>10, <2>11, <2>12
       DEF Next, Environment, HolderStep
<1> QED
  BY <1>1, <1>2, PTL DEF Spec

\* Before start() there is no server, nobody waits in the window, and whoever
\* holds the lock after it stays clear of Popen; later, whoever is on the way
\* to Popen has cleared _proc, or start() found it clear.
SoleInv ==
    /\ alive \subseteq {proc}
    /\ stage # "started" => proc = NoProc
    /\ stage = "window" => Free /\ pending = 0 /\ crashers = 0
                           /\ \A w \in Quitters : quit[w] # "asked"
    /\ stage = "asking" /\ ~Free => step \in {"drain", "asleep", "build"}
    /\ ~Free /\ step \in {"asleep", "build", "announce", "spawn"} => proc = NoProc

\* SoleInv is inductive, with the types.
LEMMA SoleInvariant == Spec => []SoleInv
<1>1. Init => SoleInv
  BY DEF Init, SoleInv, Free
<1>2. TypeOK /\ SoleInv /\ [Next]_vars => SoleInv'
  <2> SUFFICES ASSUME TypeOK, SoleInv, [Next]_vars
               PROVE  SoleInv'
    OBVIOUS
  <2> USE DEF SoleInv, Free, procVars, lockVars, lockFrame, threadVars, appVars,
              monitorFrame
  <2>1. CASE \E n \in Names : AddService(n) \/ UpdateService(n)
                                 \/ RemoveService(n) \/ Silence(n)
    <3>1. UNCHANGED <<procVars, lockVars, stage, quit, crashers>>
      BY <2>1 DEF AddService, UpdateService, RemoveService, Silence, browserFrame
    <3>2. pending' = pending \/ Running
      BY <2>1 DEF AddService, UpdateService, RemoveService, Silence, OnChange,
                  NoChange
    <3>3. Running => proc # NoProc
      BY WindowsAssumption DEF Running, TypeOK
    <3> QED
      BY <3>1, <3>2, <3>3
  <2>2. CASE \E p \in Pids : ServerExits(p)
    BY <2>2 DEF ServerExits
  <2>3. CASE TrayRestart
    BY <2>3 DEF TrayRestart
  <2>4. CASE \E w \in Quitters : Quit(w)
    BY <2>4 DEF Quit, TypeOK
  <2>5. CASE Drain
    BY <2>5 DEF Drain, Release, At
  <2>6. CASE WakeUp
    BY <2>6 DEF WakeUp, At
  <2>7. CASE Announce
    BY <2>7 DEF Announce, At
  <2>8. CASE Report
    BY <2>8 DEF Report, Release, At
  <2>9. CASE Build
    BY <2>9 DEF Build, Release, At
  <2>10. CASE Spawn
    <3>1. proc = NoProc /\ alive = {} /\ stage = "started"
      BY <2>10, WindowsAssumption DEF Spawn, At, TypeOK
    <3> QED
      BY <2>10, <3>1 DEF Spawn, Release, At
  <2>11. CASE TakeLock
    BY <2>11 DEF TakeLock, TakeStart, TakeRestart, TakeCrash, TakeStop, Take
  <2>12. CASE MonitorSees \/ MonitorEnds
    BY <2>12 DEF MonitorSees, MonitorEnds, TypeOK
  <2>13. CASE WindowEnds \/ \E w \in Quitters : Leave(w) \/ Destroy(w)
    BY <2>13 DEF WindowEnds, Leave, Destroy, TypeOK
  <2>14. CASE Terminated \/ UNCHANGED vars
    BY <2>14 DEF Terminated, vars
  <2> QED
    BY <2>1, <2>2, <2>3, <2>4, <2>5, <2>6, <2>7, <2>8, <2>9, <2>10, <2>11, <2>12,
       <2>13, <2>14 DEF Next, Environment, HolderStep
<1> QED
  BY <1>1, <1>2, TypeCorrect, PTL DEF Spec

\* However starts, restarts, crash handlers and stop() come by the lock, and
\* however many of them there are, no llama-server escapes from _proc.
THEOREM ServerIsSole == Spec => []SoleServer
<1>1. SoleInv => SoleServer
  BY DEF SoleInv, SoleServer, Orphans
<1> QED
  BY <1>1, SoleInvariant, PTL

-----------------------------------------------------------------------------
(* The roster.                                                             *)

SnapAgrees == Considered = Registered

\* Unless a launch is owed or a change was missed, the running server, or the
\* one on its way, has the roster of now; a running server was started with the
\* last command line; and stop() only drains.
RosterInv ==
    /\ ~Owed /\ ~missed /\ (Running \/ Launching) => SnapAgrees
    /\ Running => cmd[proc] = snap
    /\ holder \in Quitters => step = "drain"

\* A registry call that tells on_change nothing leaves the names alone.
LEMMA BrowserRoster ==
    ASSUME TypeOK, NEW n \in Names,
           AddService(n) \/ UpdateService(n) \/ RemoveService(n) \/ Silence(n)
    PROVE  \/ NoChange /\ Registered' = Registered
           \/ OnChange
<1> USE DEF TypeOK, RegistryTypeOK, Rosters
<1>1. CASE AddService(n)
  <2>1. CASE UNCHANGED registryVars /\ NoChange
    BY <2>1 DEF registryVars, Registered
  <2>2. CASE n \in Registered /\ NoChange /\ \E e \in Endpoints : Register(n, e)
    BY <2>2, NoneAssumption DEF Register, Registered
  <2> QED
    BY <1>1, <2>1, <2>2 DEF AddService
<1>2. CASE UpdateService(n)
  BY <1>2 DEF UpdateService, Touch, Registered
<1>3. CASE RemoveService(n)
  BY <1>3 DEF RemoveService, Unregister, Registered
<1>4. CASE Silence(n)
  BY <1>4 DEF Silence, GoStale, Registered
<1> QED
  BY <1>1, <1>2, <1>3, <1>4

\* RosterInv is inductive, with the types and SoleInv.
LEMMA RosterInvariant == Spec => []RosterInv
<1>1. Init => RosterInv
  BY WindowsAssumption DEF Init, RosterInv, Owed, Running, Launching, Free
<1>2. TypeOK /\ SoleInv /\ RosterInv /\ [Next]_vars => RosterInv'
  <2> SUFFICES ASSUME TypeOK, SoleInv, RosterInv, [Next]_vars
               PROVE  RosterInv'
    OBVIOUS
  <2>0. /\ Running => proc # NoProc
        /\ {"none", "start", "restart", "crash"} \cap Quitters = {}
    BY WindowsAssumption DEF Running, TypeOK, Quitters
  <2> USE DEF RosterInv, Owed, Launching, Free, procVars, lockVars, lockFrame,
              threadVars, appVars, listVars, monitorFrame, browserFrame
  <2>1. CASE \E n \in Names : AddService(n) \/ UpdateService(n)
                                 \/ RemoveService(n) \/ Silence(n)
    <3>1. PICK n \in Names : AddService(n) \/ UpdateService(n)
                                 \/ RemoveService(n) \/ Silence(n)
      BY <2>1
    <3>2. UNCHANGED <<procVars, lockVars, stage, crashers, snap, skipped>>
      BY <3>1 DEF AddService, UpdateService, RemoveService, Silence
    <3>3. CASE NoChange /\ Registered' = Registered
      BY <3>2, <3>3 DEF NoChange, SnapAgrees, Considered, Running
    <3>4. CASE OnChange
      BY <3>2, <3>4 DEF OnChange, Running, TypeOK
    <3> QED
      BY <3>1, <3>3, <3>4, BrowserRoster
  <2>2. ASSUME UNCHANGED <<registryVars, snap, skipped>>
        PROVE  SnapAgrees' <=> SnapAgrees
    BY <2>2 DEF SnapAgrees, Considered, Registered, registryVars
  <2>3. CASE \E p \in Pids : ServerExits(p)
    BY <2>2, <2>3 DEF ServerExits, Running, TypeOK
  <2>4. CASE TrayRestart
    BY <2>4 DEF TrayRestart, Running, TypeOK
  <2>5. CASE \E w \in Quitters : Quit(w)
    BY <2>2, <2>5 DEF Quit, Running
  <2>6. CASE Drain
    <3>1. ~Running'
      BY <2>6, WindowsAssumption DEF Drain, Running, TypeOK
    <3>2. ~Launching' /\ (holder' \in Quitters => step' = "drain")
      BY <2>0, <2>6 DEF Drain, Release, At
    <3> QED
      BY <3>1, <3>2
  <2>7. CASE WakeUp
    BY <2>0, <2>7 DEF WakeUp, At, SoleInv, Running, TypeOK, Holders
  <2>8. CASE Build
    <3>1. proc' = NoProc /\ ~Running'
      BY <2>0, <2>8, WindowsAssumption DEF Build, At, SoleInv, Running, TypeOK
    <3>2. CASE step' = "announce" /\ snap' = ActiveRoster
               /\ skipped' = Registered \cap stale
      <4>1. {n \in Names : ActiveRoster[n] # None} = Registered \ stale
        BY DEF ActiveRoster, Active, Registered
      <4>2. Registered' = Registered
        BY <2>8 DEF Build, Registered, registryVars
      <4>3. SnapAgrees'
        BY <3>2, <4>1, <4>2 DEF SnapAgrees, Considered, Registered
      <4>4. step = "build" /\ holder \notin Quitters /\ holder' = holder
        BY <2>8, <3>2 DEF Build, At, Release
      <4> HIDE DEF Owed
      <4> QED
        BY <3>1, <4>3, <4>4
    <3>3. CASE ~(step' = "announce" /\ snap' = ActiveRoster
                 /\ skipped' = Registered \cap stale)
      <4>1. step = "build" /\ holder \notin Quitters
        BY <2>8 DEF Build, At
      <4>2. \/ holder' = "none" /\ step' = step
            \/ holder' = holder /\ step' = "report"
        BY <2>8, <3>3 DEF Build, Release
      <4>3. ~Launching' /\ (holder' \in Quitters => step' = "drain")
        BY <2>0, <4>1, <4>2
      <4> QED
        BY <3>1, <4>3
    <3> QED
      BY <3>2, <3>3
  <2>9. CASE Announce
    BY <2>2, <2>9 DEF Announce, At, Running
  <2>10. CASE Spawn
    <3>1. Launching /\ ~Running /\ proc = NoProc
      BY <2>0, <2>10 DEF Spawn, At, SoleInv
    <3>2. holder \notin Quitters
      BY <2>10 DEF Spawn, At
    <3>3. CASE UNCHANGED procVars
      BY <2>0, <2>10, <3>1, <3>2, <3>3 DEF Spawn, Release, At, Running
    <3>4. CASE ~UNCHANGED procVars
      <4>1. /\ cmd'[proc'] = snap' /\ step' = "report"
            /\ UNCHANGED <<holder, pending, crashers, stage, missed, snap, skipped,
                           registryVars>>
        BY <2>10, <3>4 DEF Spawn, TypeOK
      <4> QED
        BY <2>2, <3>1, <3>2, <4>1 DEF At
    <3> QED
      BY <3>3, <3>4
  <2>11. CASE Report
    BY <2>0, <2>2, <2>11 DEF Report, Release, At, Running
  <2>12. CASE TakeStart \/ TakeRestart \/ TakeCrash
    BY <2>0, <2>2, <2>12 DEF TakeStart, TakeRestart, TakeCrash, Take, Running
  <2>13. CASE \E w \in Quitters : TakeStop(w)
    BY <2>2, <2>13 DEF TakeStop, Take, Running
  <2>14. CASE MonitorSees
    BY <2>14 DEF MonitorSees, Running, TypeOK
  <2>15. CASE MonitorEnds
    BY <2>2, <2>15 DEF MonitorEnds, Running
  <2>16. CASE WindowEnds \/ \E w \in Quitters : Leave(w) \/ Destroy(w)
    BY <2>2, <2>16 DEF WindowEnds, Leave, Destroy, Running
  <2>17. CASE Terminated \/ UNCHANGED vars
    BY <2>2, <2>17 DEF Terminated, vars, Running
  <2> QED
    BY <2>1, <2>3, <2>4, <2>5, <2>6, <2>7, <2>8, <2>9, <2>10, <2>11, <2>12,
       <2>13, <2>14, <2>15, <2>16, <2>17 DEF Next, Environment, HolderStep, TakeLock
<1> QED
  BY <1>1, <1>2, TypeCorrect, SoleInvariant, PTL DEF Spec

\* At rest the running server has the registered workers, unless a change came
\* that on_change dropped, for any number of workers and threads (gui.py,
\* _on_worker_change; launcher.py, _build_cmd).
THEOREM RosterServedButMissed == Spec => []RosterServedUnlessMissed
<1>1. TypeOK /\ RosterInv => RosterServedUnlessMissed
  <2> SUFFICES ASSUME TypeOK, RosterInv, AtRest, Running, ~missed
               PROVE  Registered = Served(proc) \cup skipped
    BY DEF RosterServedUnlessMissed
  <2>1. ~Owed
    BY DEF AtRest, Owed
  <2> QED
    BY <2>1 DEF RosterInv, SnapAgrees, Considered, Served
<1> QED
  BY <1>1, TypeCorrect, RosterInvariant, PTL

-----------------------------------------------------------------------------
(* The refinement of RosterTracking.                                       *)

LaunchOk == stage # "started" \/ Running \/ Launching

Debt == Owed \/ missed

\* The values that the mapping gives the Boolean variables of RosterTracking.
LEMMA Mapped ==
           /\ LaunchOk = (stage # "started" \/ Running \/ Launching)
           /\ LaunchOk' = (stage # "started" \/ Running \/ Launching)'
           /\ Debt = (Owed \/ missed)
           /\ Debt' = (Owed \/ missed)'
           /\ LaunchOk \in BOOLEAN /\ LaunchOk' \in BOOLEAN
           /\ Up \in BOOLEAN /\ Up' \in BOOLEAN
BY Zenon DEF LaunchOk, Debt, Up

\* A step that leaves the roster alone and launches nothing: a debt is made,
\* a launch fails, or nothing happens to speak of.
LEMMA QuietRefines ==
    ASSUME Up, Up', UNCHANGED <<Registered, Considered>>,
           \/ (LaunchOk' <=> LaunchOk) /\ (Debt => Debt')
           \/ ~LaunchOk' /\ (Debt' => Debt)
    PROVE  Roster!Next \/ UNCHANGED Roster!rosterVars
<1> HIDE DEF Up
<1>1. Up' = Up /\ Up' \in BOOLEAN
  BY Mapped, SMT
<1>2. CASE ~LaunchOk' /\ (Debt' => Debt)
  <2>1. LaunchOk' = FALSE /\ (Debt' = Debt \/ Debt' = FALSE)
    BY <1>2, SMT DEF LaunchOk, Debt
  <2> QED
    BY <1>1, <2>1, Mapped, Zenon DEF Roster!Fail, Roster!Next
<1>3. CASE (LaunchOk' <=> LaunchOk) /\ Debt' /\ ~Debt
  <2>1. LaunchOk' = LaunchOk /\ Debt' = TRUE
    BY <1>3, SMT DEF LaunchOk, Debt
  <2> QED
    BY <1>1, <1>3, <2>1, Mapped, Zenon DEF Roster!AskLaunch, Roster!Next
<1>4. CASE (LaunchOk' <=> LaunchOk) /\ (Debt' <=> Debt)
  <2>1. LaunchOk' = LaunchOk /\ Debt' = Debt
    BY <1>4, SMT DEF LaunchOk, Debt
  <2> QED
    BY <1>1, <2>1, Mapped, Zenon DEF Roster!rosterVars
<1> QED
  BY <1>2, <1>3, <1>4

\* A launch that looks at the roster.
LEMMA LaunchRefines ==
    ASSUME Up, Up', LaunchOk', Debt, Considered' = Registered, UNCHANGED Registered
    PROVE  Roster!Next
<1> HIDE DEF Up
<1>1. Up' = Up /\ LaunchOk' = TRUE /\ Debt' \in BOOLEAN
  BY Mapped, SMT DEF LaunchOk, Debt
<1> QED
  BY <1>1, Mapped, Zenon DEF Roster!Launch, Roster!Next

\* A change of the roster is owed a launch from the step that makes it.
LEMMA ChangeRefines ==
    ASSUME Up, Up', Debt', LaunchOk' <=> LaunchOk, Registered' # Registered,
           UNCHANGED Considered
    PROVE  Roster!Next
<1> HIDE DEF Up
<1>1. Up' = Up /\ LaunchOk' = LaunchOk /\ Debt' = TRUE
  BY Mapped, SMT DEF LaunchOk, Debt
<1>2. Registered' \in (SUBSET Names) \ {Registered}
  BY DEF Registered
<1> QED
  BY <1>1, <1>2, Mapped, Zenon DEF Roster!RosterChanges, Roster!Next

\* The browser's thread: what it changes is owed a launch, or was dropped by
\* on_change.
LEMMA BrowserRefines ==
    ASSUME TypeOK, Up, NEW n \in Names,
           AddService(n) \/ UpdateService(n) \/ RemoveService(n) \/ Silence(n)
    PROVE  Roster!Next \/ UNCHANGED Roster!rosterVars
<1>1. /\ UNCHANGED <<watchers, crashers, procVars, lockVars, stage, quit, snap, skipped>>
      /\ UNCHANGED Considered
  BY DEF AddService, UpdateService, RemoveService, Silence, browserFrame, Considered
<1>2. UNCHANGED quit
  BY <1>1
<1>3. Up' /\ (LaunchOk' <=> LaunchOk)
  BY <1>1, <1>2 DEF Up, LaunchOk, Running, Launching, Free, procVars, lockVars
<1>4. CASE NoChange /\ Registered' = Registered
  <2>1. Debt' <=> Debt
    BY <1>1, <1>4 DEF NoChange, Debt, Owed, Free, lockVars
  <2> QED
    BY <1>1, <1>3, <1>4, <2>1, QuietRefines
<1>5. CASE OnChange
  <2>1. Debt'
    BY <1>5 DEF OnChange, Debt, Owed, TypeOK
  <2>2. CASE Registered' = Registered
    BY <1>1, <1>3, <2>1, <2>2, QuietRefines
  <2>3. CASE Registered' # Registered
    BY <1>1, <1>3, <2>1, <2>3, ChangeRefines
  <2> QED
    BY <2>2, <2>3
<1> QED
  BY <1>4, <1>5, BrowserRoster

\* The lock's holder: a launch looks at the roster before it is settled, and a
\* server is stopped only for one, or for good.
LEMMA HolderRefines ==
    ASSUME TypeOK, SoleInv, RosterInv, HolderStep
    PROVE  Roster!Next \/ UNCHANGED Roster!rosterVars
<1> USE DEF Free, procVars, lockVars, lockFrame, threadVars, appVars, listVars, At,
            Release
<1>1. Up /\ ~Free /\ UNCHANGED <<registryVars, crashers, pending>>
  BY DEF HolderStep, Drain, WakeUp, Build, Announce, Spawn, Report
<1>2. UNCHANGED Registered
  BY <1>1 DEF Registered, registryVars
<1>3. CASE WakeUp \/ Announce \/ Report
  <2>1. /\ Up' /\ UNCHANGED <<Considered, stage>>
        /\ (Running' <=> Running) /\ (missed' <=> missed)
    BY <1>3 DEF WakeUp, Announce, Report, Up, Running, Considered
  <2>2. (Launching' <=> Launching) /\ (Owed' <=> Owed)
    BY <1>3 DEF WakeUp, Announce, Report, Launching, Owed, TypeOK, Holders
  <2>3. (LaunchOk' <=> LaunchOk) /\ (Debt' <=> Debt)
    BY <2>1, <2>2 DEF LaunchOk, Debt
  <2> QED
    BY <1>1, <1>2, <2>1, <2>3, QuietRefines
<1>4. CASE Drain
  <2>1. Up' /\ UNCHANGED <<Considered, stage, missed>>
    BY <1>1, <1>4 DEF Drain, Up, Considered, TypeOK
  <2>2. ~Running' /\ ~Launching'
    BY <1>4, WindowsAssumption DEF Drain, Running, Launching, TypeOK
  <2>3. Owed' => Owed
    BY <1>4 DEF Drain, Owed
  <2>4. CASE stage = "started"
    BY <1>1, <1>2, <2>1, <2>2, <2>3, <2>4, QuietRefines DEF LaunchOk, Debt
  <2>5. CASE stage = "asking"
    BY <1>1, <1>2, <2>1, <2>5, QuietRefines DEF LaunchOk, Debt, Owed
  <2> QED
    BY <1>1, <2>4, <2>5 DEF SoleInv, TypeOK
<1>5. CASE Build
  <2>1. Up' /\ UNCHANGED <<stage, proc, alive>> /\ Owed /\ ~Launching
    BY <1>5 DEF Build, Up, Owed, Launching, RosterInv
  <2>2. Running' <=> Running
    BY <2>1 DEF Running
  <2>3. CASE stage = "asking"
    <3>1. UNCHANGED Considered
      BY <1>5, <2>3 DEF Build, Considered
    <3> QED
      BY <1>1, <1>2, <2>1, <2>3, <3>1, QuietRefines DEF LaunchOk, Debt, Owed
  <2>4. CASE stage # "asking" /\ step' = "report"
    <3>1. UNCHANGED <<Considered, holder>> /\ missed' = missed
      BY <1>5, <2>4 DEF Build, Considered
    <3>2. stage = "started" /\ proc = NoProc
      BY <1>5, <2>4 DEF Build, SoleInv, TypeOK
    <3>3. ~Running' /\ ~Launching'
      BY <2>1, <2>4, <3>2, WindowsAssumption DEF Running, Launching, TypeOK
    <3> QED
      BY <1>1, <1>2, <2>1, <3>1, <3>2, <3>3, QuietRefines DEF LaunchOk, Debt
  <2>5. CASE stage # "asking" /\ step' = "announce"
    <3>1. /\ snap' = ActiveRoster /\ skipped' = Registered \cap stale
          /\ UNCHANGED holder
      BY <1>5, <2>5 DEF Build
    <3>2. {n \in Names : ActiveRoster[n] # None} = Registered \ stale
      BY DEF ActiveRoster, Active, Registered
    <3>3. Considered' = Registered
      BY <3>1, <3>2 DEF Considered, Registered
    <3>4. Launching'
      BY <1>1, <2>5, <3>1 DEF Launching
    <3> QED
      BY <1>1, <1>2, <2>1, <3>3, <3>4, LaunchRefines DEF LaunchOk, Debt
  <2> QED
    BY <1>5, <2>3, <2>4, <2>5 DEF Build
<1>6. CASE Spawn
  <2>1. /\ Up' /\ UNCHANGED <<Considered, stage>> /\ missed' = missed
        /\ proc = NoProc /\ Launching /\ stage = "started"
    BY <1>6 DEF Spawn, Up, Considered, SoleInv, Launching, TypeOK
  <2>2. (Owed' <=> Owed) /\ ~Launching'
    BY <1>6 DEF Spawn, Owed, Launching
  <2>3. (LaunchOk' <=> LaunchOk) \/ ~LaunchOk'
    BY <2>1 DEF LaunchOk
  <2> QED
    BY <1>1, <1>2, <2>1, <2>2, <2>3, QuietRefines DEF Debt
<1> QED
  BY <1>3, <1>4, <1>5, <1>6 DEF HolderStep

\* What holds of the container's orchestrator holds of the Windows one but for
\* its liveness, threads, crash handlers and all: every change of the roster is
\* owed a launch that looks at it, and only a launch or a failure settles it.
THEOREM RosterTracked == Spec => TracksRoster
<1>1. Init => Roster!Init
  <2> SUFFICES ASSUME Init
               PROVE  Roster!Init
    OBVIOUS
  <2>1. Registered = {} /\ Considered = {}
    BY NoneAssumption DEF Init, RegistryInit, Registered, Considered, NoRoster
  <2>2. LaunchOk = TRUE /\ Debt = FALSE /\ Up = TRUE
    BY DEF Init, LaunchOk, Debt, Owed, Free, Up
  <2> QED
    BY <2>1, <2>2, Mapped, Zenon DEF Roster!Init
<1>2. TypeOK /\ SoleInv /\ RosterInv /\ [Next]_vars => [Roster!Next]_(Roster!rosterVars)
  <2> SUFFICES ASSUME TypeOK, SoleInv, RosterInv, [Next]_vars
               PROVE  Roster!Next \/ UNCHANGED Roster!rosterVars
    BY DEF Roster!rosterVars
  <2> USE DEF Free, procVars, lockVars, lockFrame, threadVars, appVars, listVars,
              monitorFrame
  <2>1. CASE \E n \in Names : AddService(n) \/ UpdateService(n)
                                 \/ RemoveService(n) \/ Silence(n)
    <3>1. Up
      BY <2>1 DEF AddService, UpdateService, RemoveService, Silence, Hears, Up
    <3> QED
      BY <2>1, <3>1, BrowserRefines
  <2>2. ASSUME UNCHANGED <<registryVars, snap, skipped>>
        PROVE  UNCHANGED <<Registered, Considered>>
    BY <2>2 DEF Registered, Considered, registryVars
  <2>3. CASE \E p \in Pids : ServerExits(p)
    <3>1. Up /\ Up' /\ (Launching' <=> Launching) /\ (Debt' <=> Debt)
      BY <2>3 DEF ServerExits, Up, Launching, Debt, Owed
    <3>2. LaunchOk' => LaunchOk
      BY <2>3, <3>1 DEF ServerExits, LaunchOk, Running
    <3> QED
      BY <2>2, <2>3, <3>1, <3>2, QuietRefines DEF ServerExits
  <2>4. CASE HolderStep
    BY <2>4, HolderRefines
  <2>5. CASE TakeLock
    <3>1. /\ Up /\ Up' /\ UNCHANGED <<registryVars, snap, skipped, proc, alive>>
          /\ missed' = missed /\ ~Launching /\ ~Launching'
      BY <2>5 DEF TakeLock, TakeStart, TakeRestart, TakeCrash, TakeStop, Take, Up,
                  Launching
    <3>2. Running' <=> Running
      BY <3>1 DEF Running
    <3>3. CASE TakeStart
      <4>1. Owed /\ Owed'
        BY <3>3 DEF TakeStart, Take, Owed, Quitters
      <4>2. ~LaunchOk'
        BY <3>1, <3>2, <3>3, WindowsAssumption
           DEF TakeStart, LaunchOk, SoleInv, Running, TypeOK
      <4> QED
        BY <2>2, <3>1, <4>1, <4>2, QuietRefines DEF Debt
    <3>4. CASE TakeRestart \/ TakeCrash \/ \E w \in Quitters : TakeStop(w)
      <4>1. UNCHANGED stage
        BY <3>4 DEF TakeRestart, TakeCrash, TakeStop
      <4>2. LaunchOk' <=> LaunchOk
        BY <3>1, <3>2, <4>1 DEF LaunchOk
      <4>3. Owed => Owed'
        BY <3>4 DEF TakeRestart, TakeCrash, TakeStop, Take, Owed, Quitters
      <4> QED
        BY <2>2, <3>1, <4>2, <4>3, QuietRefines DEF Debt
    <3> QED
      BY <2>5, <3>3, <3>4 DEF TakeLock
  <2>6. CASE \/ TrayRestart \/ MonitorSees \/ MonitorEnds \/ WindowEnds
             \/ \E w \in Quitters : Quit(w)
    <3>1. /\ Up /\ Up' /\ UNCHANGED <<registryVars, snap, skipped, proc, alive>>
          /\ missed' = missed /\ UNCHANGED <<holder, step>>
      BY <2>6 DEF TrayRestart, MonitorSees, MonitorEnds, WindowEnds, Quit, Up, TypeOK
    <3>2. (Running' <=> Running) /\ (Launching' <=> Launching)
      BY <3>1 DEF Running, Launching
    <3>3. (stage' = "started") <=> (stage = "started")
      BY <2>6 DEF TrayRestart, MonitorSees, MonitorEnds, WindowEnds, Quit
    <3>4. Owed => Owed'
      BY <2>6 DEF TrayRestart, MonitorSees, MonitorEnds, WindowEnds, Quit, Owed, TypeOK
    <3> QED
      BY <2>2, <3>1, <3>2, <3>3, <3>4, QuietRefines DEF LaunchOk, Debt
  <2>9. CASE \E w \in Quitters : Leave(w)
    <3>1. /\ Up /\ Up' /\ UNCHANGED <<registryVars, snap, skipped, proc, alive>>
          /\ missed' = missed /\ UNCHANGED <<holder, step, stage, pending, crashers>>
      BY <2>9 DEF Leave, Up, TypeOK
    <3>2. /\ LaunchOk' = LaunchOk /\ Debt' = Debt
      BY <3>1 DEF LaunchOk, Debt, Running, Launching, Owed
    <3> QED
      BY <2>2, <3>1, <3>2, QuietRefines
  <2>7. CASE \E w \in Quitters : Destroy(w)
    <3>1. Up' = FALSE /\ Up = TRUE
      BY <2>7 DEF Destroy, Up, TypeOK
    <3>2. UNCHANGED <<Registered, Considered>> /\ LaunchOk' = LaunchOk /\ Debt' = Debt
      BY <2>2, <2>7 DEF Destroy, LaunchOk, Debt, Running, Launching, Owed
    <3> QED
      BY <3>1, <3>2, Mapped, Zenon DEF Roster!ShutDown, Roster!Next
  <2>8. CASE Terminated \/ UNCHANGED vars
    <3>1. /\ UNCHANGED <<Registered, Considered>>
          /\ LaunchOk' = LaunchOk /\ Debt' = Debt /\ Up' = Up
      BY <2>2, <2>8 DEF Terminated, vars, LaunchOk, Debt, Running, Launching, Owed, Up
    <3> QED
      BY <3>1, Mapped, Zenon DEF Roster!rosterVars
  <2> QED
    BY <2>1, <2>3, <2>4, <2>5, <2>6, <2>7, <2>8, <2>9 DEF Next, Environment
<1> QED
  BY <1>1, <1>2, TypeCorrect, SoleInvariant, RosterInvariant, PTL
     DEF Spec, TracksRoster, Roster!Spec

-----------------------------------------------------------------------------
(* Liveness.  What is ENABLED is beyond the provers: GuardsEnable, that    *)
(* the fair actions can be taken when their guards hold, is a hypothesis.  *)

\* The program is over, or _shutdown runs in the Tk thread.
Over == ~Up \/ ~TkAnswers

\* The lock's holder is at s.
Busy(s) == ~Over /\ ~Free /\ step = s

\* The tray's _shutdown waits for the lock, has it, or is past it.
Quitting(q) == ~Over /\ quit["tray"] = q

StopHas == Quitting("asked") /\ holder = "tray" /\ step = "drain"

\* start() does not begin with _stop_internal, and stop() is at nothing else.
HolderInv ==
    /\ holder = "start" => step # "drain"
    /\ \A w \in Quitters : holder = w => quit[w] = "asked"

\* HolderInv is inductive.
LEMMA HolderInvariant == Spec => []HolderInv
<1>1. Init => HolderInv
  BY DEF Init, HolderInv, Quitters
<1>2. TypeOK /\ HolderInv /\ [Next]_vars => HolderInv'
  <2> SUFFICES ASSUME TypeOK, HolderInv, [Next]_vars
               PROVE  HolderInv'
    OBVIOUS
  <2> USE DEF HolderInv, Quitters
  <2>1. CASE HolderStep
    BY <2>1 DEF HolderStep, Drain, WakeUp, Build, Announce, Spawn, Report, Release, At
  <2>2. CASE TakeLock
    BY <2>2 DEF TakeLock, TakeStart, TakeRestart, TakeCrash, TakeStop, Take
  <2>3. CASE UNCHANGED <<lockVars, quit>>
    BY <2>3 DEF lockVars
  <2>4. CASE \E w \in Quitters : Quit(w)
    BY <2>4 DEF Quit, lockVars, TypeOK
  <2>5. CASE \E w \in Quitters : Leave(w) \/ Destroy(w)
    BY <2>5 DEF Leave, Destroy, lockVars, TypeOK
  <2> QED
    BY <2>1, <2>2, <2>3, <2>4, <2>5
       DEF Next, Environment, AddService, UpdateService, RemoveService, Silence,
           ServerExits, TrayRestart, MonitorSees, MonitorEnds, WindowEnds,
           Terminated, browserFrame, monitorFrame, vars, appVars
<1> QED
  BY <1>1, <1>2, TypeCorrect, PTL DEF Spec

\* Everyone but the holder leaves the lock alone, and a _shutdown that waits for
\* it; and the tray's, once past it, goes on, or finds the window's at destroy().
LEMMA OthersWait ==
    ASSUME TypeOK, [Next]_vars, ~HolderStep
    PROVE  /\ ~Free => UNCHANGED lockVars
           /\ Quitting("asked") => (Quitting("asked") \/ Over)'
           /\ Quitting("leaving") => (Quitting("leaving") \/ Quitting("destroying")
                                         \/ Over)'
           /\ Quitting("destroying") => (Quitting("destroying") \/ Over)'
<1> USE DEF Quitting, Over, Free
<1>1. CASE UNCHANGED <<quit, lockVars>>
  BY <1>1
<1>2. CASE TakeLock
  <2>1. Free /\ UNCHANGED quit
    BY <1>2 DEF TakeLock, TakeStart, TakeRestart, TakeCrash, TakeStop, Take
  <2> QED
    BY <2>1
<1>3. CASE \E w \in Quitters : Quit(w)
  BY <1>3 DEF Quit, Quitters, TypeOK
<1>4. CASE \E w \in Quitters : Leave(w)
  <2>1. PICK w \in Quitters : Leave(w)
    BY <1>4
  <2>2. UNCHANGED lockVars
    BY <2>1 DEF Leave
  <2>3. CASE w = "window"
    BY <2>1, <2>2, <2>3 DEF Leave, Quitters, TypeOK
  <2>4. CASE w = "tray"
    <3>1. quit["tray"] = "leaving"
      BY <2>1, <2>4 DEF Leave
    <3>2. ~Over => quit' = [quit EXCEPT !["tray"] = "destroying"]
      BY <2>1, <2>4, <3>1 DEF Leave, Quitters, TkAnswers
    <3> QED
      BY <2>2, <3>1, <3>2 DEF Quitters, TypeOK
  <2> QED
    BY <2>1, <2>3, <2>4 DEF Quitters
<1>5. CASE \E w \in Quitters : Destroy(w)
  <2>1. ~Up' /\ UNCHANGED lockVars
    BY <1>5 DEF Destroy, Up, Quitters, TypeOK
  <2> QED
    BY <2>1
<1> QED
  BY <1>1, <1>2, <1>3, <1>4, <1>5
     DEF Next, Environment, AddService, UpdateService, RemoveService, Silence,
         ServerExits, TrayRestart, MonitorSees, MonitorEnds, WindowEnds, Terminated,
         browserFrame, monitorFrame, vars, appVars

\* Where a step of the holder leaves the lock, and the _shutdowns.
LEMMA HolderMoves ==
    ASSUME TypeOK, HolderStep
    PROVE  /\ \/ UNCHANGED quit
              \/ /\ holder \in Quitters
                 /\ quit' = [quit EXCEPT ![holder] = "leaving"]
           /\ Busy("drain") => (Busy("asleep") \/ Busy("build") \/ Free \/ Over)'
           /\ StopHas => (Quitting("leaving") \/ Over)'
           /\ Busy("asleep") => (Busy("build") \/ Over)'
           /\ Busy("build") => (Free \/ Busy("announce") \/ Busy("report") \/ Over)'
           /\ Busy("announce") => (Busy("spawn") \/ Over)'
           /\ Busy("spawn") => (Free \/ Busy("report") \/ Over)'
           /\ Busy("report") => Free'
<1> USE DEF Busy, Quitting, StopHas, Free, At, Release, lockFrame, TypeOK, Holders,
            Quitters
<1>1. CASE Drain
  BY <1>1 DEF Drain
<1>2. CASE WakeUp
  BY <1>2 DEF WakeUp
<1>3. CASE Build
  BY <1>3 DEF Build
<1>4. CASE Announce
  BY <1>4 DEF Announce
<1>5. CASE Spawn
  BY <1>5 DEF Spawn
<1>6. CASE Report
  BY <1>6 DEF Report
<1> QED
  BY <1>1, <1>2, <1>3, <1>4, <1>5, <1>6 DEF HolderStep

\* Whoever has the lock gives it back, whatever it finds on its way, unless the
\* Tk thread is in _shutdown (launcher.py, start, restart, stop, _monitor).
THEOREM LockAlwaysComesBack == FairSpec /\ []GuardsEnable => LockComesBack
<1> DEFINE Draining == Busy("drain")
           Sleeping == Busy("asleep")
           Building == Busy("build")
           Announcing == Busy("announce")
           Spawning == Busy("spawn")
           Reporting == Busy("report")
           Target == Free \/ Over
<1>1. TypeOK /\ [Next]_vars
        => /\ Draining => (Draining \/ Sleeping \/ Building \/ Target)'
           /\ Sleeping => (Sleeping \/ Building \/ Target)'
           /\ Building => (Building \/ Announcing \/ Reporting \/ Target)'
           /\ Announcing => (Announcing \/ Spawning \/ Target)'
           /\ Spawning => (Spawning \/ Reporting \/ Target)'
           /\ Reporting => (Reporting \/ Target)'
  <2> SUFFICES ASSUME TypeOK, [Next]_vars, ~HolderStep, NEW s \in Steps, Busy(s)
               PROVE  (Busy(s) \/ Target)'
    BY HolderMoves DEF Steps
  <2> QED
    BY OthersWait DEF Busy, Free, lockVars
<1>2. TypeOK /\ <<HolderStep>>_vars
        => /\ Draining => (Sleeping \/ Building \/ Target)'
           /\ Sleeping => (Building \/ Target)'
           /\ Building => (Announcing \/ Reporting \/ Target)'
           /\ Announcing => (Spawning \/ Target)'
           /\ Spawning => (Reporting \/ Target)'
           /\ Reporting => Target'
  BY HolderMoves
<1>3. TypeOK /\ HolderInv
        => /\ \/ Target \/ Draining \/ Sleeping \/ Building \/ Announcing
              \/ Spawning \/ Reporting
           /\ Draining \/ Sleeping \/ Building \/ Announcing \/ Spawning \/ Reporting
                => HolderCan
  BY DEF TypeOK, HolderInv, Steps, Holders, Busy, Over, Free, At, HolderCan
<1>4. Target <=> Free \/ ~TkAnswers \/ ~Up
  BY DEF Over
<1> HIDE DEF Draining, Sleeping, Building, Announcing, Spawning, Reporting, Target
<1> QED
  BY <1>1, <1>2, <1>3, <1>4, TypeCorrect, HolderInvariant, PTL
     DEF FairSpec, Spec, GuardsEnable, LockComesBack

\* Who quits from the tray is done, however many restarts and crash handlers
\* compete with stop() for the lock, and whatever its holder is at, unless the
\* window is closed meanwhile (gui.py, _shutdown; launcher.py, stop).
THEOREM TrayQuitAlwaysCompletes == FairSpec /\ []GuardsEnable => TrayQuitCompletes
<1> DEFINE Asked == Quitting("asked")
           Leaving == Quitting("leaving")
           Destroying == Quitting("destroying")
<1>1. TypeOK /\ HolderInv /\ [Next]_vars
        => /\ Asked => (Asked \/ Leaving \/ Over)'
           /\ StopHas => (StopHas \/ Leaving \/ Over)'
           /\ Leaving => (Leaving \/ Destroying \/ Over)'
           /\ Destroying => (Destroying \/ Over)'
  <2> SUFFICES ASSUME TypeOK, HolderInv, [Next]_vars
               PROVE  /\ Asked => (Asked \/ Leaving \/ Over)'
                      /\ StopHas => (StopHas \/ Leaving \/ Over)'
                      /\ Leaving => (Leaving \/ Destroying \/ Over)'
                      /\ Destroying => (Destroying \/ Over)'
    OBVIOUS
  <2>1. CASE HolderStep
    <3>1. /\ quit'["tray"] \in {quit["tray"], "leaving"}
          /\ quit'["tray"] # quit["tray"] => holder = "tray"
      BY <2>1, HolderMoves DEF TypeOK, Quitters
    <3>2. holder = "tray" => quit["tray"] = "asked"
      BY DEF HolderInv, Quitters
    <3> QED
      BY <2>1, <3>1, <3>2, HolderMoves DEF Quitting
  <2>2. CASE ~HolderStep
    BY <2>2, OthersWait DEF StopHas, Quitting, Free, lockVars
  <2> QED
    BY <2>1, <2>2
<1>2. TypeOK /\ StopHas /\ <<HolderStep>>_vars => (Leaving \/ Over)'
  BY HolderMoves
<1>3. Asked /\ <<TakeStop("tray")>>_vars => (StopHas \/ Over)'
  BY DEF TakeStop, Take, StopHas, Quitting
<1>4. TypeOK /\ Leaving /\ <<Leave("tray")>>_vars => (Destroying \/ Over)'
  BY DEF Leave, Quitting, Over, Quitters, TkAnswers, TypeOK
<1>5. TypeOK /\ <<Destroy("tray")>>_vars => Over'
  BY DEF Destroy, Over, Up, Quitters, TypeOK
<1>6. /\ Asked /\ Free <=> ~Over /\ Up /\ Free /\ quit["tray"] = "asked"
      /\ StopHas => HolderCan
      /\ Leaving => Up /\ quit["tray"] = "leaving"
      /\ Destroying => Up /\ quit["tray"] = "destroying" /\ TkAnswers
      /\ quit["tray"] = "asked" => Asked \/ Over
      /\ Over <=> ~Up \/ ~TkAnswers
  BY DEF Quitting, StopHas, Over, HolderCan, At, Free, Quitters
<1> HIDE DEF Asked, Leaving, Destroying
<1> QED
  BY <1>1, <1>2, <1>3, <1>4, <1>5, <1>6, TypeCorrect, HolderInvariant, LockAlwaysComesBack, PTL
     DEF FairSpec, QuitFairness, Spec, GuardsEnable, LockComesBack, TrayQuitCompletes
=============================================================================
