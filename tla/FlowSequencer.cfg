SPECIFICATION SequencerSpec
CONSTANTS
    MaxSeqno = 9
    Limit = 3
    Handlers = {h1, h2}
INVARIANTS HandedOnce StartsInOrder
PROPERTIES DeliveredIsStarted
CHECK_DEADLOCK FALSE
