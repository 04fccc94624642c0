SPECIFICATION FairSpec
CONSTANTS
    c1 = c1
    o1 = o1
    Clients = {}
    Others = {o1}
    Sizes = {1}
    Count = 1
    MAX_PING_BYTES = 1
    MaxStreams = 2
    OtherStreams = 2
INVARIANT
    TypeOK
PROPERTY
    StreamsAreAnswered
CHECK_DEADLOCK FALSE
