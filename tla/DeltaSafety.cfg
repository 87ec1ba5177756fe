SPECIFICATION Spec
CONSTANTS
    cand = cand
    base = base
    alike = alike
    ann = ann
    bob = bob
    Runs = {cand, base, alike}
    Measured = {cand}
    FirstBase <- MCFirstBase
    Change <- MCChange
    TapeName <- MCTapeName
    Report <- MCReport
    Tree <- MCTree
    Early = {alike}
    OldAcks <- MCOldAcks
    People = {ann, bob}
    Nobody = Nobody
    Tasks = {t1, t2}
    Kinds = {"view", "propose"}
    MaxAcks = 1
    MaxDecisions = 2
    MaxRepoints = 1
    Faults = {"cancel", "restart", "store", "kill"}
    MaxFaults = 1
SYMMETRY MCSymmetry
INVARIANTS
    WordIsOfItsPair
    AcknowledgedWasDecided
    QuietRowsAreTrue
