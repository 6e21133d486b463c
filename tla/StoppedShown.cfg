SPECIFICATION Spec
CONSTANTS
    Hash = {h1}
    Handle = {x1}
    NoHandle = NoHandle
    Requests = {"Add", "StopSeeding"}
    Relock = {"blocks", "succeeds"}
    MaxRequests = 2
    MaxEvents = 2
    MaxRestarts = 0
SYMMETRY HandleSymmetry
INVARIANT SnapshotShowsStopped
CHECK_DEADLOCK FALSE
