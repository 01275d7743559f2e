--------------------------- MODULE RosterTracking ---------------------------
(***************************************************************************)
(* What the orchestrator promises about its workers, without registry,     *)
(* queues, lock or processes: every change of the roster is owed a launch  *)
(* of llama-server that considers the roster as it then is, and every such *)
(* debt is eventually settled by a launch or by one that fails             *)
(* (orchestrator/app/main.py:11-12).                                       *)
(***************************************************************************)
CONSTANT Names

VARIABLES
    roster,      \* the workers that are registered
    considered,  \* the workers the last launch looked at
    owed,        \* whether a launch is still to come
    ok,          \* whether the last launch has not failed
    up           \* whether the program is up

rosterVars == <<roster, considered, owed, ok, up>>

Init ==
    /\ roster = {} /\ considered = {}
    /\ owed = FALSE /\ ok = TRUE /\ up = TRUE

\* Workers join, leave or are pruned.
RosterChanges ==
    /\ up
    /\ roster' \in (SUBSET Names) \ {roster}
    /\ owed' = TRUE
    /\ UNCHANGED <<considered, ok, up>>

\* main() or a POST asks for a launch.
AskLaunch ==
    /\ up /\ ~owed
    /\ owed' = TRUE
    /\ UNCHANGED <<roster, considered, ok, up>>

\* A launch looks at the roster; more of them may have been asked for.
Launch ==
    /\ up /\ owed
    /\ considered' = roster
    /\ ok' = TRUE
    /\ owed' \in BOOLEAN
    /\ UNCHANGED <<roster, up>>

\* A launch, or the stop before it, fails, and may take the program down.
Fail ==
    /\ up
    /\ ok' = FALSE
    /\ owed' \in {owed, FALSE}
    /\ up' \in BOOLEAN
    /\ UNCHANGED <<roster, considered>>

ShutDown ==
    /\ up
    /\ up' = FALSE
    /\ UNCHANGED <<roster, considered, owed, ok>>

Next == RosterChanges \/ AskLaunch \/ Launch \/ Fail \/ ShutDown

Spec == Init /\ [][Next]_rosterVars

\* A debt does not stay: a launch considers the roster as it then is, or one
\* fails, or the orchestrator goes down.
DebtSettled == owed ~> considered = roster \/ ~ok \/ ~up

LiveSpec == Spec /\ DebtSettled
=============================================================================
