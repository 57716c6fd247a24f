SPECIFICATION Spec
SYMMETRY DataSymmetry
CONSTANTS
    d1 = d1
    d2 = d2
    NPages = 2
    Data = {d1, d2}
    PollMs = 50
    ChipsUsed = {"P0", "P3", "other", "none"}
    MaxFaults = 1
    HasClock = TRUE
    MaxPollIters = 100
    BootTimes = {0, 50}
    UnlockTimes = {0, 50}
    EraseTimes = {0, 50}
    WriteTimes = {0, 50}
    NFuses = 2
    UserOps = {"Connect", "ChipErase", "Flash", "Verify", "Dump", "ReadFuses"}
    PortCanBeBusy = TRUE
INVARIANTS
    VerifiedMeansEqual
    FlashOkMeansProgrammed
    FlashRecovers
PROPERTIES
    BadFileKeepsFlash
