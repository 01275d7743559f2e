--------------------------- MODULE MCPhoneWorker ---------------------------
(* Instances of PhoneWorker for TLC.                                       *)
EXTENDS PhoneWorker, TLC

Symmetry == Permutations(Calls) \cup Permutations(Registrations)
=============================================================================
