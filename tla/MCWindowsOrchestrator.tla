---------------------- MODULE MCWindowsOrchestrator ----------------------
(* Instances of WindowsOrchestrator for TLC.                               *)
EXTENDS WindowsOrchestrator, TLC

Symmetry == Permutations(Pids) \cup Permutations(Names)
=============================================================================
