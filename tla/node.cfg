SPECIFICATION Spec
CONSTANTS
    NoProc = NoProc
    Pids = {p1, p2}
INVARIANTS TypeOK OnAirOnlyStarted RunsAsStored
PROPERTY OrphanOnlyByEnding
