SPECIFICATION LedgerFairSpec
CONSTANTS
    Writers = {w1}
    Switchers = {s1}
    Payloads = {2}
    HeaderBytes = 1
    SegmentBytes = 3
    MaxSegments = 2
    NormalFlush = 100
    PartitionFlush = 100
    ThrottleBytes = 100
    Minute = 9
    AdvanceRecords = 2
    IoFaults = {1, 2}
    MaxLsn = 2
    MaxClock = 1
    MaxCrashes = 1
    SpillAge = 0
    MaxReplays = 1
INVARIANTS
    MarkCoversReplayed
    ReplayAscends
PROPERTIES
    FrozenMarkFollowsReplay
    HealEndsPartitionMode
CHECK_DEADLOCK FALSE
