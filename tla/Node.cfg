SPECIFICATION MCSpec
CONSTANTS
    MaxShards = 2
    Tasks = {"loop", "io"}
    PollBudget = 1
    k0 = k0
    k1 = k1
    r1 = r1
    r2 = r2
    Requesters = {r1, r2}
    Owner = owner
    Keys = {k0, k1}
    KeyHash <- MCKeyHash
    MailboxCapacity = 2
    Queues = {x}
    CqCapacity = 1
    CapTable = 2
    MaxCaps = 3
INVARIANTS
    JoinsOwnShard
    NodeNotAsleep
    
    BuffersAccounted
PROPERTIES
    RequestsReturn
CHECK_DEADLOCK FALSE
