SPECIFICATION LedgerSpec
CONSTANTS
    Writers = {w1}
    Switchers = {s1}
    Payloads = {2}
    HeaderBytes = 1
    SegmentBytes = 3
    MaxSegments = 3
    NormalFlush = 100
    PartitionFlush = 100
    ThrottleBytes = 100
    Minute = 9
    AdvanceRecords = 1
    IoFaults = {1}
    MaxLsn = 3
    MaxClock = 1
    MaxCrashes = 0
    SpillAge = 0
    MaxReplays = 1
INVARIANTS
    ReplaysInLsnOrder
CHECK_DEADLOCK FALSE
