SPECIFICATION FairSpec
CONSTANTS
    Clients = {1}
    Servers = {2}
    Sleepers = {3}
    Yielders = {}
    Crews = {{1, 3}, {2, 3}}
    Timed = {1, 2}
    Fds = {0, 1, 2}
    Files = {0, 1, 2}
    Backends = {"epoll", "kqueue", "poll"}
    SleepUntil = 1
    TimeoutAt = 2
    MaxTime = 2
    PipeSize = 1
    MaxOutside = 3
    Reuse = FALSE
INVARIANTS
    
    NoSleepThroughWake

    
CHECK_DEADLOCK FALSE
