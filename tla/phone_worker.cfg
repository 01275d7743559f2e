SPECIFICATION Spec
CONSTANTS
    None = None
    Calls = {c1, c2, c3, c4, c5}
    Registrations = {r1, r2, r3, r4}
SYMMETRY Symmetry
INVARIANT PhoneInv
INVARIANT ActiveIffAdvertised
INVARIANT UptimeCounts
INVARIANT LeaksBounded
