SPECIFICATION Spec
CONSTANTS
    c1 = c1
    o1 = o1
    Clients = {c1}
    Others = {}
    Sizes = {1}
    Count = 1
    MAX_PING_BYTES = 1
    MaxStreams = 1
    OtherStreams = 0
INVARIANT
    FailuresAreSilent
CHECK_DEADLOCK FALSE
