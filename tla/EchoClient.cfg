SPECIFICATION FairSpec
CONSTANTS
    c1 = c1
    o1 = o1
    Clients = {c1}
    Others = {o1}
    Sizes = {0, 1, 2}
    Count = 2
    MAX_PING_BYTES = 1
    MaxStreams = 2
    OtherStreams = 0
INVARIANTS
    LostOnlyWithConnection
    PingsAddUp
PROPERTIES
    EveryClientEnds
    ShutdownEnds
    IncomingAreAccepted
CHECK_DEADLOCK FALSE
