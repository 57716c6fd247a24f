SPECIFICATION Spec
CONSTANTS
    d1 = d1
    NPages = 2
    Data = {d1}
    PollMs = 50
    ChipsUsed = {"P0", "P3"}
    MaxFaults = 1
    HasClock = FALSE
    MaxPollIters = 10
    BootTimes = {0}
    UnlockTimes = {50}
    EraseTimes = {50, 600}
    WriteTimes = {0, 50}
INVARIANTS
    OkMeansDone
    CommandsWhenReady
PROPERTIES
    OnePageAtATime
