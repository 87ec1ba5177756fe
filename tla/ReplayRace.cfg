SPECIFICATION PairSpec
CONSTANTS
    left = left
    right = right
    Branches = {left, right}
    Path <- MCPath
    Recordings <- MCRecordings
    Candidates <- Unchanged
    Entropy = {"now"}
    Argless = {"none"}
    SetLike = {"s12", "s21"}
    Identity <- MCIdentity
    Policies = {"OnlyForArgful"}
    Shape <- MCShape
    None = None
INVARIANTS
    RacedInstancesStillResolve
