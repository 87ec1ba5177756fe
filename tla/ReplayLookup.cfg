SPECIFICATION PairSpec
CONSTANTS
    left = left
    right = right
    Branches = {left, right}
    Path <- MCPath
    Recordings <- MCRecordings
    Candidates <- MCCandidates
    Entropy = {"now"}
    Argless = {"none"}
    SetLike = {"s12", "s21"}
    Identity <- MCIdentity
    Policies = {"OnlyForArgful"}
    Shape <- MCShape
    None = None
INVARIANTS
    ServedOnce
    UnchangedIsAnswered
    MovedIsAnsweredByAddress
    PairedOnce
    UnchangedIsClean
    OneChangeCountsOnce
    LossesAreCounted
    ReorderingCountsOnce
