SPECIFICATION Spec
CONSTANTS
    client = client
    server = server
    other = other
    v6 = v6
    n1 = n1
    UNSPECIFIED = any
    Ipv4Addr = {client, server, other}
    Ipv6Addr = {v6}
    Nonce = {n1}
    Trunc80AES <- MCTrunc80AES
    Packets <- TwoPackets
    Flood = {}
    Authenticating = TRUE
    Inbound = "ClientToServer"
    LocalIp = server
    ErrorKinds <- SomeErrors
    RuntimeMayStop = FALSE
    NumBufs = 2
    NumMeta = 2
    U64 = 4096
    QueueLimit = 2
    MaxArrivals = 3
    MaxErrors = 0
    MaxCounts = 1
INVARIANT
    RejectedAreReceived
CHECK_DEADLOCK FALSE
