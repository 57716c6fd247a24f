SPECIFICATION FairSpec
CONSTANTS
    Eesave = FALSE
    Setups <- AllSetups
    BootMs = {50}
    PollMs = 50
    MaxFaults = 1
    Stalls = TRUE
INVARIANTS
    DoneMeansDone
    NoStaleCommand
    CleanSessionsSucceed
    StopMeansRunning
    UserRowModeLeft
PROPERTIES
    OnlyAddressed
    CommandsWhenReady
    CallsEnd
