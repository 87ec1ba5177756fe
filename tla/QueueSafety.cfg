SPECIFICATION Spec
CONSTANTS
    N = 1
    Capacity = 1
    LastAge = 2
    SlowLaunch = FALSE
    Kills = {1}
    Faults = {"launch", "api", "store", "push", "restart", "client", "pod", "trouble"}
    MaxFaults = 2
INVARIANTS
    CompletedIsEarned
    FailedMeansOver
PROPERTIES
    FirstVerdictWins
