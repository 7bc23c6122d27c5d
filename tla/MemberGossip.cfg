SPECIFICATION GossipSpec
CONSTANTS
    Nodes = {a, b, c}
    Clients = {x}
    Fanout = 3
    MaxChanges = 3
    MaxDigests = 1
INVARIANTS ViewIsJoin AgreeWhenDelivered
SYMMETRY NodeSymmetry
CHECK_DEADLOCK FALSE
