SPECIFICATION Spec
CONSTANTS
    TickBits = 3
    Freq = 2
    PerSecond = 2
    EchoMs = 2
    AnswerMs = 3
    WaitMs = 2
    Scratch = 3
    RxSize = 6
    BlockSize = 4
    MaxFaults = 2
INVARIANTS
    AnswersBelong
    GivesUpInTime
PROPERTIES
    FailsOnlyIfDisturbed
