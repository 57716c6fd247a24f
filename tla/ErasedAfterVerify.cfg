SPECIFICATION Spec
CONSTANTS
    d1 = d1
    NPages = 1
    Data = {d1}
    PollMs = 50
    ChipsUsed = {"P3"}
    MaxFaults = 2
    HasClock = TRUE
    MaxPollIters = 100
    BootTimes = {50}
    UnlockTimes = {50}
    EraseTimes = {50}
    WriteTimes = {50}
    NFuses = 2
    UserOps = {"ChipErase", "Flash"}
    PortCanBeBusy = TRUE
INVARIANTS
    FlashOkMeansProgrammed
