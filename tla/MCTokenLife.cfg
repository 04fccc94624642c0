SPECIFICATION Spec
CONSTANTS
    a1 = a1
    a2 = a2
    n1 = n1
    UNSPECIFIED = any
    Ipv4Addr = {a1, a2}
    Ipv6Addr = {v6}
    Nonce = {n1, n2}
    Trunc80AES <- MCTrunc80AES
    Selectors <- MCSelectors
    ForgedTags <- MCForgedTags
    DatagramLens <- MCDatagramLens
    DcidLens <- MCDcidLens
INVARIANTS
    TypeOK
    AcceptsExactlyWhatWasMinted
CHECK_DEADLOCK FALSE
