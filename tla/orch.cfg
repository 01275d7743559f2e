SPECIFICATION FairSpec
CONSTANTS
    None = None
    NoProc = NoProc
    Names = {n1}
    Services = {n1}
    Endpoints = {e1, e2}
    Pids = {p1, p2}
    NodeName <- SameName
    MaxTasks = 2
INVARIANTS LauncherInv RosterServed EndpointsServed NoGhostWorkers NothingBlocks
PROPERTIES OrphanOnlyByStart ShutdownCompletes TracksRoster
