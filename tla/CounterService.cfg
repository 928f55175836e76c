SPECIFICATION FairSpec
CONSTANTS
    ShardCount = 2
    Capacity = 2
    Clients = {c1, c2}
    Owner = owner
    MaxTickets = 5
    NoValue = NoValue
    Width = 2
    OverflowChecks = TRUE
    Deltas = {1}
    Commands <- CounterCommands
    Calls <- MCCalls
    States <- Counters
    InitialState = 0
    Effect <- CounterEffect
    Result <- CounterResult
    Panics <- CounterPanics
INVARIANTS
    ReplyNotLost
PROPERTIES
    CallReturns
    ShutdownEnds
CHECK_DEADLOCK FALSE
