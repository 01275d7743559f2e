SPECIFICATION FairSpec
CONSTANTS
    None = None
    NoProc = NoProc
    Names = {n1}
    Endpoints = {e1}
    Pids = {p1, p2}
    MaxThreads = 3
PROPERTY QuitCompletes
CHECK_DEADLOCK FALSE
