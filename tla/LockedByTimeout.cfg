SPECIFICATION Spec
CONSTANTS
    d1 = d1
    NPages = 1
    Data = {d1}
    PollMs = 50
    ChipsUsed = {"P3"}
    MaxFaults = 1
    HasClock = TRUE
    MaxPollIters = 100
    BootTimes = {50}
    UnlockTimes = {50}
    EraseTimes = {50}
    WriteTimes = {50}
    NFuses = 2
    UserOps = {"Connect", "ChipErase", "Flash", "Verify", "Dump", "ReadFuses"}
    PortCanBeBusy = TRUE
INVARIANTS
    LockedMeansLocked
