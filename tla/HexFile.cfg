SPECIFICATION Spec
CONSTANTS
    SegBits = 2
    AddrBits = 4
    SegShift = 1
    MaxCount = 3
    DefaultBpl = 2
    Dumps <- DeviceDumps
    Bpls = {0, 1, 3}
    Images <- ApiImages
    Foreign <- ForeignLines
    MaxLines = 3
INVARIANTS ImageMatchesFile RangeCoversFile RoundTrip GoodDumpIsWhole RecordsWithinSegment
CHECK_DEADLOCK FALSE
