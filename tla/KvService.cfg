SPECIFICATION Spec
CONSTANTS
    ShardCount = 2
    Capacity = 1
    Clients = {c1, c2}
    Owner = owner
    MaxTickets = 5
    NoValue = NoValue
    None = None
    k1 = k1
    k2 = k2
    a = a
    b = b
    Keys <- MCKeys
    Values <- MCValues
    Place <- MCPlace
    Commands <- MCCommands
    Calls <- MCCalls
    States <- Maps
    InitialState <- EmptyMap
    Effect <- KvEffect
    Result <- KvResult
    Panics <- KvPanics
PROPERTIES
    ImplementsStore
CHECK_DEADLOCK FALSE
