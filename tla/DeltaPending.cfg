SPECIFICATION Spec
CONSTANTS
    cand = cand
    base = base
    alike = alike
    ann = ann
    bob = bob
    Runs = {cand, base, alike}
    Measured = {cand}
    FirstBase <- MCFirstBase
    Change <- MCChange
    TapeName <- MCTapeName
    Report <- MCReport
    Tree <- MCTree
    Early = {alike}
    OldAcks <- MCOldAcks
    People = {ann, bob}
    Nobody = Nobody
    Tasks = {t1, t2}
    Kinds = {}
    MaxAcks = 0
    MaxDecisions = 0
    MaxRepoints = 0
    Faults = {}
    MaxFaults = 0
INVARIANTS
    NoneLeftPending
