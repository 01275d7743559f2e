SPECIFICATION Spec
CONSTANTS
    NoProc = NoProc
    Pids = {p1, p2, p3}
    MaxStartups = 2
INVARIANTS TypeOK LauncherHasRegistry QuitLeavesNothing
