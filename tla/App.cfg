SPECIFICATION FairSpec
CONSTANTS
    Items = {"Connect", "Flash", "ChipErase", "Settings"}
    QueueLen = 3
    Total = 2
INVARIANTS
    NoStaleDone
    IdleOutsideProgress
PROPERTIES
    ProgressRunsForward
    StartsAreAsked
    ImplementsCycle
