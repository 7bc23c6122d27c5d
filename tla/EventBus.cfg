SPECIFICATION BusFairSpec
CONSTANTS
    p1 = p1
    p2 = p2
    f1 = f1
    r1 = r1
    r2 = r2
    Partitions = {p1, p2}
    Flows = {f1, f2}
    Rebalances = {r1, r2, r3}
    PartitionFor <- MCPartitionFor
    Plan <- MCPlan
    None = None
    MaxEvents = 2
INVARIANT EventsAreKept LogKeepsOrder
PROPERTY MovingIsQuiet NewOwnerSeesAll PauseEndsOrFails
CHECK_DEADLOCK FALSE
