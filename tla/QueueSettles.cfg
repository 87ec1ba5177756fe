SPECIFICATION FairSpec
CONSTANTS
    N = 2
    Capacity = 1
    LastAge = 1
    SlowLaunch = TRUE
    Kills = {}
    Faults = {"api", "store", "restart"}
    MaxFaults = 1
INVARIANTS
    CapacityRespected
PROPERTIES
    EveryRunSettles
