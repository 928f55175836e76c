SPECIFICATION MCSpec
CONSTANTS
    Senders = {a, b}
    Capacity = 3
    MaxSends = 2
    NoMessage = NoMessage
    NoSender = NoSender
    Acquirers = {a, b, c}
    PermitCapacity = 2
    Producers = {p, q}
    MaxValues = 2
    Consumers <- MCReceives
    SHARD_COUNT = 2
    ASSEMBLER_COUNT = 3
    RecordKeys <- MCKeys
    SEND_BATCH_ENTRIES = 2
    CHANNEL_CAPACITY = 2
    PARTITION_READ_CHUNK_RECORDS = 2
INVARIANTS
    NoCellRace
    PermitsExact
    StreamComplete
    IndexCorrect
PROPERTIES
    RingIsQueue
    StreamEnds
CHECK_DEADLOCK FALSE
