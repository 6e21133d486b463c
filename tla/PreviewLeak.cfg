SPECIFICATION Spec
CONSTANTS
    Hash = {h1}
    Handle = {x1, x2}
    NoHandle = NoHandle
    Requests = {"BeginMagnetPreview", "CancelMagnetPreview"}
    Relock = {"blocks", "succeeds"}
    MaxRequests = 4
    MaxEvents = 1
    MaxRestarts = 0
SYMMETRY HandleSymmetry
INVARIANT PreviewHidden
CHECK_DEADLOCK FALSE
