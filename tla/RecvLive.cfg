SPECIFICATION FairSpec
CONSTANTS
    client = client
    server = server
    other = other
    v6 = v6
    n1 = n1
    UNSPECIFIED = any
    Ipv4Addr = {client, server, other}
    Ipv6Addr = {v6}
    Nonce = {n1}
    Trunc80AES <- MCTrunc80AES
    Packets <- TwoPackets
    Flood = {}
    Authenticating = TRUE
    Inbound = "ClientToServer"
    LocalIp = server
    ErrorKinds <- TransientErrors
    RuntimeMayStop = FALSE
    NumBufs = 2
    NumMeta = 2
    U64 = 4096
    QueueLimit = 2
    MaxArrivals = 2
    MaxErrors = 2
    MaxCounts = 2
INVARIANT
    NothingLost
PROPERTIES
    ImplementsFilter
    ImplementsFairFilter
    EverythingIsRead
    SlotsAreHandedOver
    CountsNeverGoBack
CHECK_DEADLOCK FALSE
