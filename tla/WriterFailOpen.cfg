SPECIFICATION Spec
CONSTANTS
    Clients = {c1, c2}
    Streams = {event}
    MaxSeq = 3
    QueueCapacity = 1
    BatchSize = 2
    FlushAfter = 1
    Policy = "FailOpen"
    FatalErrors = 2
    Faults = {"write", "flush", "marker"}
    Nobody = Nobody
SYMMETRY ClientSymmetry
INVARIANTS
    StatsBalance
    NothingVanishes
    FlushOkMeansSettled
PROPERTIES
    ImplementsRecordLog
