SPECIFICATION SchedulerFairSpec
CONSTANTS
    Jobs = {1,2}
    Workers = {w1, w2}
    Keys = {}
    NoKey = NoKey
    NoWorker = NoWorker
    Priorities = {0}
    Limit = 2
    LeaseTicks = 1
    RetryTicks = 1
    MaxAttempts = 2
    RunAts = {0}
    MaxSkew = 1
    MaxLag = 1
    MaxClock = 1
    MaxClaims = 2
    MaxSent = 1
INVARIANTS
    LeaseIsExclusive
PROPERTIES
    JobPromise
    StaleLeasesHeal
CHECK_DEADLOCK FALSE
