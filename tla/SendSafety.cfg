SPECIFICATION FairSpec
CONSTANTS
    s1 = s1
    s2 = s2
    Senders = {s1, s2}
    MaxSegments = 2
    DatagramLen = 3
    SendLimit = 1
    RuntimeMayStop = TRUE
    MaxTransmits = 2
    MaxErrors = 1
    MaxDatagrams = 3
INVARIANTS
    TypeOK
    CountersMatchWire
    OkMeansWritten
    OnceAndInOrder
    NoLostWakeup
PROPERTY
    EveryTransmitEnds
CHECK_DEADLOCK FALSE
