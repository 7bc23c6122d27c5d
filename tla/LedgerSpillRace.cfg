SPECIFICATION LedgerSpec
CONSTANTS
    Writers = {w1}
    Switchers = {s1}
    Payloads = {2}
    HeaderBytes = 1
    SegmentBytes = 6
    MaxSegments = 2
    NormalFlush = 100
    PartitionFlush = 100
    ThrottleBytes = 100
    Minute = 9
    AdvanceRecords = 2
    IoFaults = {}
    MaxLsn = 2
    MaxClock = 1
    MaxCrashes = 0
    SpillAge = 0
    MaxReplays = 1
INVARIANTS
    SpillKeepsRecords
CHECK_DEADLOCK FALSE
