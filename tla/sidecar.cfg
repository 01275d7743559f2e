SPECIFICATION FairSpec
CONSTANTS
    self = self
    n1 = n1
    n2 = n2
    s1 = s1
    s2 = s2
    None = None
    Names = {self, n1, n2}
    Self = self
    Services = {s1, s2}
    NodeName <- OwnNames
    StartsWith <- Nested
    Endpoints = {e1, e2}
INVARIANT SidecarInv
INVARIANT CleanShutdown
PROPERTY ShutdownEnds
