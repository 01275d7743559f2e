------------------------ MODULE WindowsWizardProofs ------------------------
(***************************************************************************)
(* Proofs about module WindowsWizard, for any number of startup sequences  *)
(* and any set of processes.                                               *)
(***************************************************************************)
EXTENDS WindowsWizard, TLAPS

\* What a launch or a relaunch does to processes keeps their types.
LEMMA LaunchTypes ==
    ASSUME TypeOK, NEW l \in Startups
    PROVE  /\ \A p \in Pids : Launched(l, p) => /\ proc' \in [Startups -> Pids \cup {NoProc}]
                                                /\ stopping' \subseteq Startups
           /\ Relaunch(l) => /\ proc' \in [Startups -> Pids \cup {NoProc}]
                             /\ alive' \subseteq Pids
                             /\ stopping' \subseteq Startups
<1>1. \A p \in Pids : Launched(l, p) => /\ proc' \in [Startups -> Pids \cup {NoProc}]
                                        /\ stopping' \subseteq Startups
  BY DEF Launched, TypeOK
<1> QED
  BY <1>1 DEF Relaunch, TypeOK

\* The user's steps and _shutdown keep every variable's type.
LEMMA UserTypes ==
    ASSUME TypeOK,
           User \/ \E w \in Quitters : StopServer(w) \/ Leave(w) \/ LeaveRaises(w)
    PROVE  TypeOK'
<1> USE DEF TypeOK, uiVars, appVars, serverVars, userFrame
<1>1. behind' \in BOOLEAN
  BY Zenon DEF User, GoNext, GoBack, Hide, TrayShow, Quit, StopServer, Leave,
               LeaveRaises
<1>2. tray' \in BOOLEAN
  <2>1. CASE Hide
    BY <2>1, Zenon DEF Hide
  <2>2. CASE \E w \in Quitters : Leave(w)
    BY <2>2, Zenon DEF Leave
  <2> QED
    BY <2>1, <2>2, Zenon DEF User, GoNext, GoBack, TrayShow, Quit, StopServer,
                             LeaveRaises
<1> USE <1>1, <1>2
<1>3. CASE GoNext
  <2>1. page = 2 /\ begun < MaxStartups =>
           /\ begun + 1 \in 0 .. MaxStartups
           /\ begun' = begun + 1 => begun' \in 0 .. MaxStartups
    BY WizardAssumption
  <2>2. at' \in [Startups -> Places]
    BY <1>3 DEF GoNext, Places
  <2>3. page' \in 0 .. 4
    BY <1>3 DEF GoNext
  <2> QED
    BY <1>3, <2>1, <2>2, <2>3 DEF GoNext
<1>4. CASE GoBack
  <2>1. page' \in 0 .. 4
    BY <1>4 DEF GoBack
  <2> QED
    BY <1>4, <2>1 DEF GoBack
<1>5. CASE Hide \/ TrayShow \/ \E w \in Quitters : Leave(w)
  BY <1>5 DEF Hide, TrayShow, Leave
<1>6. CASE \E w \in Quitters : Quit(w) \/ LeaveRaises(w)
  BY <1>6 DEF Quit, LeaveRaises
<1>7. CASE \E w \in Quitters : StopServer(w)
  <2>1. launcher # 0 => launcher \in Startups
    BY WizardAssumption DEF Startups
  <2> QED
    BY <1>7, <2>1 DEF StopServer
<1> QED
  BY <1>3, <1>4, <1>5, <1>6, <1>7 DEF User

\* Once a sequence has made its launcher there is one in _launcher.
HasLauncher == Made # {} => launcher \in Startups

\* A thread's steps keep every variable's type.
LEMMA ThreadTypes ==
    ASSUME TypeOK, HasLauncher, NEW i \in Startups, Startup(i) \/ Restart(i) \/ Monitor(i)
    PROVE  TypeOK'
<1> USE DEF TypeOK, uiVars, appVars, serverVars, startupFrame,
            launcherFrame
<1>0. i \in 0 .. MaxStartups
  BY WizardAssumption DEF Startups
<1>1. behind' \in BOOLEAN
  BY Zenon DEF Startup, Discover, MakeLauncher, StartServer, StartupDone,
               Restart, Monitor
<1>2. tray' \in BOOLEAN
  BY Zenon DEF Startup, Discover, MakeLauncher, StartServer, StartupDone,
               Restart, Monitor
<1> USE <1>0, <1>1, <1>2
<1>3. CASE Discover(i)
  BY <1>3 DEF Discover, Places
<1>4. CASE MakeLauncher(i)
  BY <1>4 DEF MakeLauncher, Places
<1>5. CASE StartServer(i)
  <2>1. at' \in [Startups -> Places]
    BY <1>5 DEF StartServer, Over, Places
  <2>2. launcher \in Startups
    BY <1>5 DEF StartServer, HasLauncher, Made
  <2> QED
    BY <1>5, <2>1, <2>2, LaunchTypes DEF StartServer
<1>6. CASE StartupDone(i)
  <2>1. at' \in [Startups -> Places] /\ page' \in 0 .. 4
    BY <1>6 DEF StartupDone, Over, Places
  <2> QED
    BY <1>6, <2>1 DEF StartupDone
<1>7. CASE Restart(i)
  BY <1>7, LaunchTypes DEF Restart
<1>8. CASE Monitor(i)
  BY <1>8, LaunchTypes DEF Monitor
<1> QED
  BY <1>3, <1>4, <1>5, <1>6, <1>7, <1>8 DEF Startup

\* Types are kept, and a thread that starts _launcher finds one.
LEMMA TypesAndLauncher == Spec => [](TypeOK /\ HasLauncher)
<1>1. Init => TypeOK /\ HasLauncher
  <2> SUFFICES ASSUME Init
               PROVE  TypeOK /\ HasLauncher
    OBVIOUS
  <2>1. tray \in BOOLEAN /\ behind \in BOOLEAN
    BY Zenon DEF Init
  <2>2. 0 \in 0 .. MaxStartups
    BY WizardAssumption
  <2> QED
    BY <2>1, <2>2 DEF Init, TypeOK, Places, HasLauncher, Made
<1>2. TypeOK /\ HasLauncher /\ [Next]_vars => TypeOK' /\ HasLauncher'
  <2> SUFFICES ASSUME TypeOK, HasLauncher, [Next]_vars
               PROVE  TypeOK' /\ HasLauncher'
    OBVIOUS
  <2>1. CASE User \/ \E w \in Quitters : StopServer(w) \/ Leave(w) \/ LeaveRaises(w)
    <3>1. \/ UNCHANGED <<at, launcher>>
          \/ /\ UNCHANGED launcher
             /\ at' = [at EXCEPT ![begun + 1] = "started"]
      BY <2>1 DEF User, GoNext, GoBack, Hide, TrayShow, Quit, StopServer, Leave,
                  LeaveRaises, userFrame, appVars
    <3>2. Made' \subseteq Made /\ launcher' = launcher
      BY <3>1 DEF Made, TypeOK
    <3> QED
      BY <2>1, <3>2, UserTypes DEF HasLauncher
  <2>2. ASSUME NEW i \in Startups, Startup(i) \/ Restart(i) \/ Monitor(i)
        PROVE  TypeOK' /\ HasLauncher'
    <3>1. HasLauncher'
      BY <2>2 DEF Startup, Discover, MakeLauncher, StartServer, StartupDone,
                  Over, Restart, Monitor, launcherFrame, appVars, HasLauncher,
                  Made, TypeOK
    <3> QED
      BY <2>2, <3>1, ThreadTypes
  <2>3. CASE AskRestart \/ UNCHANGED vars \/ \E p \in Pids : ServerExits(p)
    <3>1. tray' \in BOOLEAN /\ behind' \in BOOLEAN
      BY <2>3, Zenon DEF AskRestart, ServerExits, vars, launcherFrame, uiVars, TypeOK
    <3>2. launcher # 0 => launcher \in Startups
      BY WizardAssumption DEF TypeOK, Startups
    <3> QED
      BY <2>3, <3>1, <3>2 DEF AskRestart, ServerExits, vars, launcherFrame,
         uiVars, appVars, serverVars, TypeOK, HasLauncher, Made
  <2> QED
    BY <2>1, <2>2, <2>3 DEF Next, Terminated
<1> QED
  BY <1>1, <1>2, PTL DEF Spec

\* Every variable of the wizard keeps its type, however many sequences overlap.
THEOREM TypeCorrect == Spec => []TypeOK
BY TypesAndLauncher, PTL

-----------------------------------------------------------------------------
\* Sequences begin in order.
Fresh == \A i \in Startups : i > begun => at[i] = "none"

\* Whoever has replaced the registry is past the thread's first steps.
RegistryInv ==
    /\ Fresh
    /\ \A i \in Startups : at[i] \notin {"none", "started"} => registry \in Startups
    /\ launcher # 0 => launcher \in Made
    /\ registry # 0 => at[registry] \notin {"none", "started"}
    /\ LauncherHasRegistry

\* The strengthening of LauncherHasRegistry is an invariant.
LEMMA RegistryInvariant == Spec => []RegistryInv
<1>1. Init => RegistryInv
  BY WizardAssumption DEF Init, RegistryInv, Fresh, LauncherHasRegistry, Startups
<1>2. TypeOK /\ RegistryInv /\ [Next]_vars => RegistryInv'
  <2> SUFFICES ASSUME TypeOK, RegistryInv, [Next]_vars
               PROVE  RegistryInv'
    OBVIOUS
  <2>0. Startups = 1 .. MaxStartups /\ MaxStartups \in Nat
    BY WizardAssumption DEF Startups
  <2> USE <2>0 DEF RegistryInv, Fresh, LauncherHasRegistry, Made, TypeOK
  <2>1. CASE GoNext
    <3>1. CASE at' = at
      BY <2>1, <3>1 DEF GoNext, userFrame, appVars
    <3>2. CASE at' # at
      <4>1. begun + 1 \in Startups /\ at[begun + 1] = "none" /\ begun' = begun + 1
        BY <2>1, <3>2 DEF GoNext
      <4>2. \A i \in Startups : i # begun + 1 => at'[i] = at[i]
        BY <2>1, <3>2 DEF GoNext
      <4>3. at'[begun + 1] = "started"
        BY <2>1, <3>2, <4>1 DEF GoNext
      <4>4. UNCHANGED <<registry, launcher, source>>
        BY <2>1 DEF GoNext, userFrame, appVars
      <4>5. Fresh'
        BY <4>1, <4>2
      <4>6. /\ launcher' # 0 => launcher' \in Made'
            /\ registry' # 0 => at'[registry'] \notin {"none", "started"}
        BY <4>1, <4>2, <4>4
      <4>7. \A i \in Startups : at'[i] \notin {"none", "started"} => registry' \in Startups
        BY <4>2, <4>3, <4>4
      <4>8. LauncherHasRegistry'
        BY <4>1, <4>2, <4>4
      <4> QED
        BY <4>5, <4>6, <4>7, <4>8
    <3> QED
      BY <3>1, <3>2
  <2>2. CASE \/ GoBack \/ Hide \/ TrayShow \/ AskRestart
             \/ \E w \in Quitters : \/ Quit(w) \/ StopServer(w)
                                   \/ Leave(w) \/ LeaveRaises(w)
             \/ \E i \in Startups : Restart(i) \/ Monitor(i)
             \/ \E p \in Pids : ServerExits(p)
             \/ UNCHANGED vars
    <3>1. UNCHANGED <<begun, at, registry, launcher, source>>
      BY <2>2 DEF GoBack, Hide, TrayShow, StopServer, Leave, LeaveRaises, AskRestart, Quit,
         Restart, Monitor, ServerExits, vars, userFrame, launcherFrame, appVars
    <3> QED
      BY <3>1
  <2>3. ASSUME NEW i \in Startups, Discover(i)
        PROVE  RegistryInv'
    BY <2>3 DEF Discover, startupFrame
  <2>4. ASSUME NEW i \in Startups, MakeLauncher(i)
        PROVE  RegistryInv'
    BY <2>4 DEF MakeLauncher, startupFrame
  <2>5. ASSUME NEW i \in Startups, StartServer(i) \/ StartupDone(i)
        PROVE  RegistryInv'
    <3>1. /\ UNCHANGED <<begun, registry, launcher, source>>
          /\ at[i] \in {"made", "ready"}
          /\ \/ at' = [at EXCEPT ![i] = "ready"]
             \/ at' = [at EXCEPT ![i] = "over"]
      BY <2>5 DEF StartServer, StartupDone, Over, startupFrame, appVars
    <3>2. Made' = Made
      BY <3>1
    <3>3. \A j \in Startups : at'[j] = at[j] \/ (j = i /\ at'[j] \in {"ready", "over"})
      BY <3>1
    <3> QED
      BY <3>1, <3>2, <3>3
  <2> QED
    BY <2>1, <2>2, <2>3, <2>4, <2>5 DEF Next, User, Startup, Terminated
<1> QED
  BY <1>1, <1>2, TypeCorrect, PTL DEF Spec

\* For any number of overlapping startup sequences, _launcher draws on _registry
\* but while, or because, the sequence that made the latter has no launcher.
THEOREM LauncherDrawsOnRegistry == Spec => []LauncherHasRegistry
<1>1. RegistryInv => LauncherHasRegistry
  BY DEF RegistryInv
<1> QED
  BY <1>1, RegistryInvariant, PTL

-----------------------------------------------------------------------------
\* As long as one sequence has made a launcher, every process is in the hands
\* of that launcher, which stop() clears.
OneInv ==
    /\ ran \subseteq {launcher}
    /\ \A l \in Startups : proc[l] # NoProc => l = launcher
    /\ \A p \in alive : \E l \in Startups : proc[l] = p
    /\ \A i \in Startups : at[i] = "made" => ran = {} /\ alive = {}
    /\ Stopped => behind \/ alive = {}

QuitInv ==
    /\ window = "gone" => Stopped
    /\ OneMade => OneInv

\* A relaunch keeps processes in the hands of the one launcher that ran.
LEMMA RelaunchKeeps ==
    ASSUME TypeOK, OneInv, NEW l \in Startups, Relaunch(l),
           UNCHANGED <<at, launcher, ran, quit>>,
           behind' = (behind \/ Stopped)
    PROVE  OneInv'
<1>1. Stopped' => behind' \/ alive' = {}
  BY Zenon DEF Stopped
<1>2. CASE proc' = [proc EXCEPT ![l] = NoProc] /\ alive' = alive \ {proc[l]}
  BY <1>1, <1>2 DEF OneInv, TypeOK
<1>3. ASSUME l \in ran, NEW p \in Pids, Launched(l, p),
             alive' = (alive \ {proc[l]}) \cup {p}
      PROVE  OneInv'
  <2>1. l = launcher /\ \A i \in Startups : at[i] # "made"
    BY <1>3 DEF OneInv
  <2>2. \A k \in Startups : proc'[k] = IF k = l THEN p ELSE proc[k]
    BY <1>3 DEF Launched, TypeOK
  <2> QED
    BY <1>1, <1>3, <2>1, <2>2 DEF OneInv
<1> QED
  BY <1>2, <1>3 DEF Relaunch

\* Whatever was clicked, and however many sequences failed before they had a
\* launcher: one launcher, and nothing launched behind stop(), means that
\* quitting leaves no llama-server.
THEOREM QuitIsClean == Spec => []QuitLeavesNothing
<1>1. Init => QuitInv
  BY DEF Init, QuitInv, OneInv
<1>2. TypeOK /\ HasLauncher /\ RegistryInv /\ QuitInv /\ [Next]_vars => QuitInv'
  <2> SUFFICES ASSUME TypeOK, HasLauncher, RegistryInv, QuitInv, [Next]_vars
               PROVE  QuitInv'
    OBVIOUS
  <2>1. CASE \/ GoNext \/ GoBack \/ Hide \/ TrayShow \/ AskRestart
             \/ \E w \in Quitters : Quit(w) \/ Leave(w) \/ LeaveRaises(w)
             \/ UNCHANGED vars
    <3>1. /\ UNCHANGED <<launcher, ran, proc, alive, behind>>
          /\ window' = "gone" => Stopped'
          /\ Stopped' => Stopped
      <4>1. UNCHANGED <<launcher, ran, proc, alive, behind>>
        BY <2>1 DEF GoNext, GoBack, Hide, TrayShow, Leave, LeaveRaises, AskRestart,
                    Quit, vars, userFrame, launcherFrame, appVars, serverVars
      <4>2. window' = "gone" => Stopped'
        BY <2>1 DEF GoNext, GoBack, Hide, TrayShow, Leave, LeaveRaises, AskRestart,
                    Quit, vars, userFrame, launcherFrame, uiVars, QuitInv, TkRuns,
                    UserActs, Up, Stopped, Quitters, TypeOK
      <4>3. Stopped' => Stopped
        BY <2>1 DEF GoNext, GoBack, Hide, TrayShow, Leave, LeaveRaises, AskRestart,
                    Quit, vars, launcherFrame, Stopped, Quitters, TypeOK
      <4> QED
        BY <4>1, <4>2, <4>3
    <3>2. Made' = Made /\ \A i \in Startups : at'[i] = "made" => at[i] = "made"
      <4>1. CASE at' = at
        BY <4>1 DEF Made
      <4>2. CASE at' # at
        <5>1. /\ at' = [at EXCEPT ![begun + 1] = "started"]
              /\ begun + 1 \in Startups /\ at[begun + 1] = "none"
          BY <2>1, <4>2, WizardAssumption
             DEF GoNext, GoBack, Hide, TrayShow, Leave, LeaveRaises, AskRestart,
                 Quit, vars, launcherFrame, RegistryInv, Fresh, Startups, TypeOK
        <5> QED
          BY <5>1 DEF Made, TypeOK
      <4> QED
        BY <4>1, <4>2
    <3>3. OneMade' => OneMade
      BY <3>2 DEF OneMade
    <3>4. OneInv => OneInv'
      <4>1. OneInv => (Stopped' => behind' \/ alive' = {})
        BY <3>1, Zenon DEF OneInv
      <4> QED
        BY <3>1, <3>2, <4>1 DEF OneInv
    <3> QED
      BY <3>1, <3>3, <3>4 DEF QuitInv
  <2>2. CASE \E w \in Quitters : StopServer(w)
    <3>1. OneInv => OneInv'
      <4>1. UNCHANGED <<at, launcher, ran>>
        BY <2>2 DEF StopServer, appVars
      <4>2. ASSUME OneInv, launcher = 0
            PROVE  alive = {} /\ UNCHANGED serverVars
        <5>1. \A l \in Startups : proc[l] = NoProc
          BY <4>2, WizardAssumption DEF OneInv, Startups
        <5> QED
          BY <2>2, <4>2, <5>1, WizardAssumption DEF StopServer, OneInv, TypeOK
      <4>3. ASSUME OneInv, launcher # 0
            PROVE  alive' = {} /\ \A l \in Startups : proc'[l] = NoProc
        <5>1. launcher \in Startups
          BY <4>3, WizardAssumption DEF TypeOK, Startups
        <5>2. alive \subseteq {proc[launcher]}
          BY <4>3, WizardAssumption DEF OneInv, TypeOK
        <5> QED
          BY <2>2, <4>3, <5>1, <5>2 DEF StopServer, OneInv, TypeOK
      <4> QED
        BY <4>1, <4>2, <4>3 DEF OneInv, serverVars
    <3>2. UNCHANGED <<at, window>> /\ Stopped'
      BY <2>2 DEF StopServer, uiVars, Stopped, TypeOK
    <3> QED
      BY <3>1, <3>2 DEF QuitInv, OneMade, Made
  <2>3. ASSUME NEW i \in Startups, Restart(i) \/ Monitor(i)
        PROVE  QuitInv'
    <3>1. /\ UNCHANGED <<window, at, launcher, ran, quit>>
          /\ Relaunch(i)
          /\ behind' = (behind \/ Stopped)
      BY <2>3 DEF Restart, Monitor, launcherFrame, uiVars, appVars
    <3> QED
      BY <3>1, RelaunchKeeps DEF QuitInv, OneMade, Made, Stopped
  <2>4. ASSUME NEW p \in Pids, ServerExits(p)
        PROVE  QuitInv'
    <3>1. /\ UNCHANGED <<window, at, launcher, ran, quit, proc, behind>>
          /\ alive' \subseteq alive
      BY <2>4 DEF ServerExits, launcherFrame, uiVars, appVars
    <3>2. OneInv => OneInv'
      <4>1. OneInv => (Stopped' => behind' \/ alive' = {})
        BY <3>1, Zenon DEF OneInv, Stopped
      <4> QED
        BY <3>1, <4>1 DEF OneInv
    <3> QED
      BY <3>1, <3>2 DEF QuitInv, OneMade, Made, Stopped
  <2>5. ASSUME NEW i \in Startups, Discover(i) \/ StartupDone(i)
        PROVE  QuitInv'
    <3>1. UNCHANGED <<window, launcher, ran, quit, proc, alive, behind>>
      BY <2>5 DEF Discover, StartupDone, startupFrame, serverVars, appVars
    <3>2. Made' = Made /\ \A j \in Startups : at'[j] = "made" => at[j] = "made"
      BY <2>5 DEF Discover, StartupDone, Over, Made, TypeOK
    <3> QED
      BY <3>1, <3>2 DEF QuitInv, OneInv, OneMade, Stopped
  <2>6. ASSUME NEW i \in Startups, MakeLauncher(i)
        PROVE  QuitInv'
    <3>1. /\ UNCHANGED <<window, ran, quit, proc, alive, behind>>
          /\ launcher' = i
          /\ Made' = Made \cup {i} /\ i \notin Made
      BY <2>6 DEF MakeLauncher, startupFrame, serverVars, Made, TypeOK
    <3>2. ASSUME OneMade'
          PROVE  OneInv'
      <4>1. Made = {} /\ OneMade
        BY <3>1, <3>2 DEF OneMade
      <4>2. launcher = 0 /\ 0 \notin Startups
        BY <4>1, WizardAssumption DEF RegistryInv, Startups
      <4>3. /\ ran = {} /\ alive = {}
            /\ \A l \in Startups : proc[l] = NoProc
        BY <4>1, <4>2, WizardAssumption DEF QuitInv, OneInv, TypeOK
      <4> QED
        BY <3>1, <4>3 DEF OneInv, Stopped
    <3> QED
      BY <3>1, <3>2 DEF QuitInv, Stopped
  <2>7. ASSUME NEW i \in Startups, StartServer(i)
        PROVE  QuitInv'
    <3>1. /\ UNCHANGED <<window, launcher, quit>>
          /\ at[i] = "made" /\ ran' = ran \cup {launcher}
          /\ behind' = (behind \/ Stopped)
      BY <2>7 DEF StartServer, startupFrame, appVars
    <3>2. Made' = Made /\ i \in Made
      BY <2>7 DEF StartServer, Over, Made, TypeOK
    <3>3. Stopped' => behind' \/ alive' = {}
      BY <3>1, Zenon DEF Stopped
    <3>4. ASSUME OneMade
          PROVE  OneInv'
      <4>1. \A j \in Startups : at'[j] # "made"
        BY <2>7, <3>2, <3>4 DEF StartServer, Over, Made, OneMade, TypeOK
      <4>2. OneInv /\ ran = {} /\ alive = {}
        BY <3>1, <3>4 DEF QuitInv, OneInv
      <4>3. launcher \in Startups
        BY <3>2 DEF HasLauncher
      <4> QED
        BY <2>7, <3>1, <3>3, <4>1, <4>2, <4>3
           DEF StartServer, Launched, serverVars, OneInv, TypeOK
    <3> QED
      BY <3>1, <3>2, <3>4 DEF QuitInv, OneMade, Stopped
  <2> QED
    BY <2>1, <2>2, <2>3, <2>4, <2>5, <2>6, <2>7 DEF Next, User, Startup, Terminated
<1>3. QuitInv => QuitLeavesNothing
  BY DEF QuitInv, OneInv, QuitLeavesNothing
<1> QED
  BY <1>1, <1>2, <1>3, TypesAndLauncher, RegistryInvariant, PTL DEF Spec
=============================================================================
