SPECIFICATION Spec
CONSTANTS
    Requests = {r1, r2}
    Hashes = {h1, h2}
    Rules = {"current", "old"}
INVARIANTS
    SameBehaviourIsNotCharged
    TapeIsNotCharged
    DirectionsMirror
    ThirdAnswerIsCharged
