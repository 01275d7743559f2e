------------------------- MODULE WindowsNodeProofs -------------------------
(***************************************************************************)
(* Proofs about module WindowsNode, for any set of processes.              *)
(***************************************************************************)
EXTENDS WindowsNode, TLAPS

\* What the user does makes and ends no process by itself.
LEMMA UserSteps ==
    ASSUME Launch \/ Turn \/ PageInstall \/ Install \/ Finish
              \/ \E c \in {"stop", "restart", "exit"} : TrayAction(c)
    PROVE  /\ UNCHANGED nodeVars
           /\ at' \in {at, "deregister"}
  BY DEF Launch, Turn, PageInstall, Install, Finish, TrayAction, Begin,
         nodeVars, callVars

\* Every variable of the Windows node keeps its type.
THEOREM TypeCorrect == Spec => []TypeOK
<1>1. Init => TypeOK
  <2> SUFFICES ASSUME Init
               PROVE  TypeOK
    OBVIOUS
  <2>1. present \in BOOLEAN
    BY Zenon DEF Init
  <2> QED
    BY <2>1 DEF Init, TypeOK, Places, Roles, Ended
<1>2. TypeOK /\ [Next]_vars => TypeOK'
  <2> SUFFICES ASSUME TypeOK, [Next]_vars
               PROVE  TypeOK'
    OBVIOUS
  <2>0. present' = present
    BY Zenon DEF Next, User, Node, Fault, Launch, Turn, PageInstall, Install,
       Finish, TrayAction, CloseWindow, Crash, PowerOff, Deregister, Kill,
       Spawn, Register, ProcessExits, fileVars, vars
  <2>00. present' \in BOOLEAN
    BY <2>0, Zenon DEF TypeOK
  <2> USE <2>00 DEF TypeOK, Places, Roles, Wizard, Ended, fileVars, callVars,
                    nodeVars
  <2>1. CASE Launch \/ Turn \/ PageInstall \/ Install \/ Finish
    BY <2>1 DEF Launch, Turn, PageInstall, Install, Finish, Begin, Loaded
  <2>2. CASE \E c \in {"stop", "restart", "exit"} : TrayAction(c)
    BY <2>2 DEF TrayAction, Begin
  <2>3. CASE CloseWindow \/ Crash \/ PowerOff
    BY <2>3 DEF CloseWindow, Crash, PowerOff, End
  <2>4. CASE Deregister
    BY <2>4 DEF Deregister
  <2>5. CASE Kill
    BY <2>5 DEF Kill, Return, End
  <2>6. CASE Spawn
    BY <2>6 DEF Spawn, Return, End
  <2>7. CASE Register
    BY <2>7 DEF Register
  <2>8. CASE \E p \in Pids : ProcessExits(p)
    BY <2>8 DEF ProcessExits
  <2>9. CASE UNCHANGED vars
    BY <2>9 DEF vars
  <2> QED
    BY <2>1, <2>2, <2>3, <2>4, <2>5, <2>6, <2>7, <2>8, <2>9
       DEF Next, User, Node, Fault
<1> QED
  BY <1>1, <1>2, PTL DEF Spec

\* start() is past its stop() when it makes a process.
Cleared == at = "spawn" => proc = NoProc

\* Popen never overwrites a handle: every start() has gone through stop().
LEMMA AlwaysCleared == Spec => []Cleared
<1>1. Init => Cleared
  BY DEF Init, Cleared
<1>2. Cleared /\ [Next]_vars => Cleared'
  <2> SUFFICES ASSUME Cleared, [Next]_vars
               PROVE  Cleared'
    OBVIOUS
  <2> USE DEF Cleared
  <2>1. CASE User
    BY <2>1, UserSteps DEF User, nodeVars, CloseWindow, End
  <2>2. CASE Node
    BY <2>2 DEF Node, Deregister, Kill, Spawn, Register, Return, End
  <2>3. CASE Fault
    BY <2>3 DEF Fault, Crash, PowerOff, End, ProcessExits, callVars
  <2>4. CASE UNCHANGED vars
    BY <2>4 DEF vars, callVars, nodeVars
  <2> QED
    BY <2>1, <2>2, <2>3, <2>4 DEF Next
<1> QED
  BY <1>1, <1>2, PTL DEF Spec

\* However starts, stops, restarts, failures, crashes and launches follow each
\* other, a llama process is lost only with a program that did not end by
\* "Exit".
THEOREM OrphansOnlyByEnding == Spec => OrphanOnlyByEnding
<1>1. TypeOK /\ Cleared /\ [Next]_vars
         => [Orphans' \subseteq Orphans \/ page' = "dead"]_vars
  <2> SUFFICES ASSUME TypeOK, Cleared, [Next]_vars
               PROVE  Orphans' \subseteq Orphans \/ page' = "dead" \/ UNCHANGED vars
    OBVIOUS
  <2> USE DEF Orphans
  <2>1. CASE User
    BY <2>1, UserSteps DEF User, nodeVars, CloseWindow, End
  <2>2. CASE Deregister \/ Register
    BY <2>2 DEF Deregister, Register
  <2>3. CASE Kill
    BY <2>3 DEF Kill
  <2>4. CASE Spawn
    <3>1. alive \ {proc} = alive
      BY <2>4, NodeAssumption DEF Spawn, Cleared, TypeOK
    <3> QED
      BY <2>4, <3>1 DEF Spawn
  <2>5. CASE Fault
    BY <2>5 DEF Fault, Crash, PowerOff, End, ProcessExits
  <2> QED
    BY <2>1, <2>2, <2>3, <2>4, <2>5 DEF Next, Node
<1> QED
  BY <1>1, TypeCorrect, AlwaysCleared, PTL DEF Spec, OrphanOnlyByEnding

\* Between calls an advertisement that _zc holds is of a node whose last start()
\* made a process.  Any call withdraws it before it touches the process.
THEOREM OnAirStarted == Spec => []OnAirOnlyStarted
<1> DEFINE Inv == /\ air = "on" => at \in {"idle", "deregister"} /\ proc # NoProc
                  /\ at = "register" => proc # NoProc
<1>1. Init => Inv
  BY DEF Init
<1>2. TypeOK /\ Inv /\ [Next]_vars => Inv'
  <2> SUFFICES ASSUME TypeOK, Inv, [Next]_vars
               PROVE  Inv'
    OBVIOUS
  <2>1. CASE User
    <3>1. CASE CloseWindow
      BY <3>1 DEF CloseWindow, End
    <3>2. CASE ~CloseWindow
      <4>1. UNCHANGED nodeVars /\ at' \in {at, "deregister"}
        BY <2>1, <3>2, UserSteps DEF User
      <4>2. at' = at \/ at = "idle"
        BY <2>1, <3>2 DEF User, Launch, Turn, PageInstall, Install, Finish,
                          TrayAction, Begin, Idle, callVars
      <4> QED
        BY <4>1, <4>2 DEF nodeVars
    <3> QED
      BY <3>1, <3>2
  <2>2. CASE Deregister
    BY <2>2 DEF Deregister
  <2>3. CASE Kill
    BY <2>3 DEF Kill, Return, End
  <2>4. CASE Spawn
    BY <2>4, NodeAssumption DEF Spawn, Return, End
  <2>5. CASE Register
    BY <2>5 DEF Register
  <2>6. CASE Fault
    BY <2>6 DEF Fault, Crash, PowerOff, End, ProcessExits, callVars
  <2>7. CASE UNCHANGED vars
    BY <2>7 DEF vars, callVars, nodeVars
  <2> QED
    BY <2>1, <2>2, <2>3, <2>4, <2>5, <2>6, <2>7 DEF Next, Node
<1>3. Inv => OnAirOnlyStarted
  BY DEF OnAirOnlyStarted
<1> QED
  BY <1>1, <1>2, <1>3, TypeCorrect, PTL DEF Spec

\* A process, and a call, there is only on pages that come after saving, where
\* the role in memory is the one that the file gives.
Stored ==
    /\ proc # NoProc => page \in {"setup", "done", "tray"} /\ kind[proc] = Loaded
    /\ at # "idle" => page \in {"setup", "done", "tray"}
    /\ page \in {"setup", "done", "tray"} => conf = Loaded

\* Whatever saves, crashes and reboots there were, the node runs in the role
\* that the configuration file gives to the next run.
THEOREM AlwaysAsStored == Spec => []RunsAsStored
<1>1. Init => Stored
  BY DEF Init, Stored
<1>2. TypeOK /\ Stored /\ [Next]_vars => Stored'
  <2> SUFFICES ASSUME TypeOK, Stored, [Next]_vars
               PROVE  Stored'
    OBVIOUS
  <2> USE DEF Stored, Loaded, fileVars, callVars, nodeVars
  <2>1. CASE Launch
    <3>1. proc = NoProc /\ at = "idle"
      BY <2>1 DEF Launch, Ended
    <3> QED
      BY <2>1, <3>1 DEF Launch, Begin
  <2>2. CASE Turn
    BY <2>2 DEF Turn
  <2>3. CASE PageInstall
    BY <2>3 DEF PageInstall, TypeOK
  <2>4. CASE Install \/ Finish \/ \E c \in {"stop", "restart", "exit"} : TrayAction(c)
    BY <2>4 DEF Install, Finish, TrayAction, Begin
  <2>5. CASE CloseWindow \/ Crash \/ PowerOff
    BY <2>5 DEF CloseWindow, Crash, PowerOff, End
  <2>6. CASE Deregister \/ Register
    BY <2>6 DEF Deregister, Register
  <2>7. CASE Kill
    BY <2>7 DEF Kill, Return, End
  <2>8. CASE Spawn
    BY <2>8, NodeAssumption DEF Spawn, Return, End, TypeOK
  <2>9. CASE \E p \in Pids : ProcessExits(p)
    BY <2>9 DEF ProcessExits
  <2>10. CASE UNCHANGED vars
    BY <2>10 DEF vars
  <2> QED
    BY <2>1, <2>2, <2>3, <2>4, <2>5, <2>6, <2>7, <2>8, <2>9, <2>10
       DEF Next, User, Node, Fault
<1>3. Stored => RunsAsStored
  BY DEF Stored, RunsAsStored
<1> QED
  BY <1>1, <1>2, <1>3, TypeCorrect, PTL DEF Spec
=============================================================================
