SPECIFICATION PoolFairSpec
CONSTANTS
    Nodes = {n1, n2}
    Legacy = {n2}
    Capacity = 1
    MaxDials = 2
INVARIANTS
    ConnectedIsAlive
PROPERTIES
    LateCloseIsHarmless
    RapidReconnectWins
    OwnTimerEndsWindow
    ClosedSocketsLeave
    AnnouncedIsDelivered
CHECK_DEADLOCK FALSE
