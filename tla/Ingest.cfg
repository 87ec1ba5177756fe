SPECIFICATION Spec
CONSTANTS
    Handlers = {h1, h2}
    Stages = 2
    Attempts = 3
    Outsiders = {"kill", "reconcile"}
    Faults = {"lost", "late", "cancel", "store", "file", "restart"}
    MaxFaults = 3
    MaxBaseline = 2
SYMMETRY HandlerSymmetry
INVARIANTS
    StagesOnce
    CopiesAgree
    SettledRunHasNoOpenStage
    BaselinesAgree
PROPERTIES
    FileVerdictIsFinal
