SPECIFICATION Spec
CONSTANTS
    Hash = {h1}
    Handle = {x1}
    NoHandle = NoHandle
    Requests = {"Add", "StopSeeding"}
    Relock = {"blocks", "succeeds"}
    MaxRequests = 3
    MaxEvents = 2
    MaxRestarts = 0
SYMMETRY HandleSymmetry
INVARIANT UiNotFrozen
CHECK_DEADLOCK FALSE
