SPECIFICATION MCSpec
CONSTANTS
    Servers = {s1, s2}
    Events = {e1}
    Hooks = {h1, h2}
    Calls = {c1, c2}
    RetryLimit = 2
    MaxVisits = 2
    SomeServers = {s1}
    SomeHooks = {h1}
    MaxCrashes = 1
    MaxTimers = 1
INVARIANTS
    SuccessIsBacked
    OnePostPerServer
PROPERTIES
    DeliveriesSettle
CHECK_DEADLOCK FALSE
