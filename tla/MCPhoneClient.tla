--------------------------- MODULE MCPhoneClient ---------------------------
(* Instances of PhoneClient for TLC.                                       *)
EXTENDS PhoneClient, TLC

CONSTANTS n1, n2

\* n1 = "pixel", n2 = "pixel8": losing n1 drops n2 as well.
Nested == {<<n2, n1>>}

More == (n1 :> 8) @@ (n2 :> 16)
=============================================================================
