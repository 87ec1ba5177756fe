SPECIFICATION Spec
CONSTANTS
    Clients = {c1, c2}
    Streams = {event, node}
    MaxSeq = 2
    QueueCapacity = 1
    BatchSize = 2
    FlushAfter = 0
    Policy = "FailOpen"
    FatalErrors = 2
    Faults = {"write", "flush", "marker"}
    Nobody = Nobody
SYMMETRY SourceSymmetry
INVARIANTS
    RangesNameEveryLoss
    RangesNameOnlyLost
    CleanShutdownIsComplete
