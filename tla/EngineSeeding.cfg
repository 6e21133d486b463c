SPECIFICATION Spec
CONSTANTS
    Hash = {h1}
    Handle = {x1, x2}
    NoHandle = NoHandle
    Requests = {"BeginMagnetPreview", "CancelMagnetPreview", "Add", "StopSeeding", "Resume"}
    Relock = {"blocks"}
    MaxRequests = 5
    MaxEvents = 2
    MaxRestarts = 0
SYMMETRY HandleSymmetry
INVARIANT StoppedIsLimited
CONSTRAINT ShortQueue
CHECK_DEADLOCK FALSE
