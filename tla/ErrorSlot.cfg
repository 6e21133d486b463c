SPECIFICATION Spec
CONSTANTS
    Hash = {h1}
    Handle = {x1, x2}
    NoHandle = NoHandle
    Requests = {"BeginMagnetPreview"}
    Relock = {"blocks", "succeeds"}
    MaxRequests = 2
    MaxEvents = 0
    MaxRestarts = 0
SYMMETRY HandleSymmetry
PROPERTY OwnErrorKept
CHECK_DEADLOCK FALSE
