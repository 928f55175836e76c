SPECIFICATION MCSpec
CONSTANTS
    a = a
    b = b
    c = c
    Conns <- MCConns
    Plans <- MCPlans
    None = None
    Count = 2
    Peers <- MCConns
    HashAddr <- MCHash
    Setups <- MCSetups
    NoOne = NoOne
    UdpThreads <- MCThreads
    ByteBase = 4
    UdpAddrs <- MCAddrs
    Localhost <- MCLocalhost
    Ephemeral = {1, 4}
    MaxFds = 4
    MaxSends = 1
    MaxBinds = 2
    NoName = NoName
INVARIANTS
    NoHandlerLeft
    CountsExact
    DescriptorsOwned
    
PROPERTIES
    ServeReturns
CHECK_DEADLOCK FALSE
