-------------------------- MODULE MCOrchestrator --------------------------
(***************************************************************************)
(* Instances of Orchestrator for TLC.                                      *)
(***************************************************************************)
EXTENDS Orchestrator

\* Every service advertises its own label, as the sidecar and the Windows node
\* do.
SameName == [s \in Services |-> s]
=============================================================================
