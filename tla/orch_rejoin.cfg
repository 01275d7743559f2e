SPECIFICATION HeartbeatSpec
CONSTANTS
    None = None
    NoProc = NoProc
    Names = {n1}
    Services = {n1}
    Endpoints = {e1}
    Pids = {p1}
    NodeName <- SameName
    MaxTasks = 2
PROPERTY SilentWorkerReturns
