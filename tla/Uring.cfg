SPECIFICATION MCSpec
CONSTANTS
    Readers = {1}
    Writers = {2}
    Batch = {3, 4}
    ReadLength = 2
    Length = 1
    SqEntries = 2
    Budget = 8
    DrainWaits = 1
    MaxRuns = 1
    UserData = {101}
    MaxOperations = 2
INVARIANTS
    BufferOutlivesOperation
    
    

    
CHECK_DEADLOCK FALSE
