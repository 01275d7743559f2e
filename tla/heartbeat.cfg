SPECIFICATION FairSpec
CONSTANTS
    Interval = 4
    Timeout = 9
    PrunePeriod = 3
    MaxDelay = 1
    MaxLost = 1
INVARIANT AliveStaysListed
INVARIANT DeadSoonUnlisted
PROPERTY DeadIsUnlisted
