SPECIFICATION Spec
CONSTANTS
    NoProc = NoProc
    Pids = {p1, p2}
INVARIANT OnAirServesRpc
