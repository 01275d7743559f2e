----------------------------- MODULE MCSidecar -----------------------------
(***************************************************************************)
(* Instances of Sidecar: who advertises which name, and which names are    *)
(* prefixes of which services' names.                                      *)
(***************************************************************************)
EXTENDS Sidecar, TLC

CONSTANTS self, n1, n2, s1, s2

\* Every peer advertises the name its service has.
OwnNames == (s1 :> n1) @@ (s2 :> n2)

\* n1 = "node1", n2 = "node10": the name of s2 starts with either.
Nested == {<<n1, s1>>, <<n2, s2>>, <<n1, s2>>}
=============================================================================
