SPECIFICATION FairSpec
CONSTANTS
    None = None
    NoProc = NoProc
    Names = {n1}
    Endpoints = {e1}
    Pids = {p1, p2}
    MaxThreads = 3
INVARIANT TypeOK
INVARIANT SoleServer
INVARIANT RosterServedUnlessMissed
PROPERTY TracksRoster
PROPERTY TrayQuitCompletes
PROPERTY LockComesBack
CHECK_DEADLOCK FALSE
