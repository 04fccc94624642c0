SPECIFICATION FairSpec
CONSTANTS
    a1 = a1
    a2 = a2
    UNSPECIFIED = any
    Ipv4Addr = {a1, a2, srv}
    Ipv6Addr = {}
    Nonce <- MCNonce
    Trunc80AES <- MCTrunc80AES
    Clients = {c1}
    ServerIp = srv
    LocalIp <- MCLocalIp
    Addresses <- MCAddresses
    IdleTicks = 3
    MaxAccepts = 4
    MaxFaults = 2
    MaxRestarts = 1
    MaxMoves = 2
INVARIANTS
    TypeOK
    RefusedForCause
    OpenWhereBound
    TimedOutForCause
PROPERTY
    HalfOpenEnds
CHECK_DEADLOCK FALSE
