SPECIFICATION Spec
CONSTANTS
    d1 = d1
    NPages = 2
    Data = {d1}
    PollMs = 50
    ChipsUsed = {"P3", "other", "none"}
    MaxFaults = 2
    HasClock = TRUE
    MaxPollIters = 100
    BootTimes = {0, 50}
    UnlockTimes = {0, 50}
    EraseTimes = {0, 150}
    WriteTimes = {0, 50}
    NFuses = 2
    UserOps = {"Connect", "ChipErase", "Flash", "Verify"}
    PortCanBeBusy = TRUE
INVARIANTS
    TypeOK
    ErasedOnRequest
    EraseOkMeansBlank
    WritesBlankPages
    ConnectedMeansProgmode
    ConnectReportsTarget
    OkMeansRunning
