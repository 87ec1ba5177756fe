SPECIFICATION FairSpec
CONSTANTS
    Clients = {c1, c2}
    Streams = {event}
    MaxSeq = 2
    QueueCapacity = 1
    BatchSize = 2
    FlushAfter = 0
    Policy = "Block"
    FatalErrors = 2
    Faults = {"write", "flush"}
    Nobody = Nobody
PROPERTIES
    BatchIsWritten
    RecordReturns
    DropReturns
