SPECIFICATION WalSpec
CONSTANTS
    Writers = {w1, w2}
    Switchers = {s1}
    Payloads = {2}
    HeaderBytes = 1
    SegmentBytes = 3
    MaxSegments = 2
    NormalFlush = 6
    PartitionFlush = 3
    ThrottleBytes = 3
    Minute = 1
    AdvanceRecords = 2
    IoFaults = {3}
    MaxLsn = 3
    MaxClock = 1
    MaxCrashes = 1
SYMMETRY WriterSymmetry
INVARIANTS
    SegmentWindow
    TrimLosesOldestFirst
    FileSizeBounded
    MarkNamesReturnedRecord
    ThrottleOvershoot
PROPERTIES
    LogPromise
CHECK_DEADLOCK FALSE
