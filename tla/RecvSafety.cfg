SPECIFICATION Spec
CONSTANTS
    client = client
    server = server
    other = other
    v6 = v6
    n1 = n1
    UNSPECIFIED = any
    Ipv4Addr = {client, server, other}
    Ipv6Addr = {v6}
    Nonce = {n1}
    Trunc80AES <- MCTrunc80AES
    Packets <- AllPackets
    Flood = {}
    Authenticating = TRUE
    Inbound = "ClientToServer"
    LocalIp = server
    ErrorKinds <- SomeErrors
    RuntimeMayStop = TRUE
    NumBufs = 3
    NumMeta = 2
    U64 = 3
    QueueLimit = 3
    MaxArrivals = 4
    MaxErrors = 1
    MaxCounts = 0
INVARIANTS
    TypeOK
    OnlyAuthentic
    Accounted
    NothingLost
    NoLostWakeup
CHECK_DEADLOCK FALSE
