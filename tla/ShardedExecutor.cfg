SPECIFICATION FairSpec
CONSTANTS
    ShardCount = 2
    a = a
    b = b
    Clients <- MCClients
    Owned = {a}
    Scenarios <- MCScenarios
    None = None
    AvailableCpus <- MCCpus
    CpuSetSize = 1024
    NodeSetSize = 1024
    NodeOf <- MCNodeOf
    NoNode = NoNode
    NoCpu = NoCpu
INVARIANTS
    NoThreadLeft
    LossIsReported
PROPERTIES
    ShutdownReturns
CHECK_DEADLOCK FALSE
