SPECIFICATION DetectorFairSpec
CONSTANTS
    Peers = {p1, p2, p3}
    Timeout = 1
    MaxHealing = 2
    Lsns = {1, 2}
    AdvanceRecords = 2
    MaxPending = 2
PROPERTIES
    PendingIsEventuallyCovered
    PartitionOnlyOnSilence
    LossIsDetected
    HealResumesOperation
