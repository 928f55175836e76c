SPECIFICATION GuardedSpec
CONSTANTS
    Acquirers = {a, b}
    PermitCapacity = 1
INVARIANT AcquirersSeeCapacity
