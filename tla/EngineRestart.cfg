SPECIFICATION SparingSpec
CONSTANTS
    Hash = {h1}
    Handle = {x1, x2}
    NoHandle = NoHandle
    Requests = {"BeginMagnetPreview", "FinalizeMagnetPreview", "CancelMagnetPreview", "Add", "Remove", "Pause", "Resume", "StopSeeding", "ResumeSeeding", "ForceRecheck", "Adjust"}
    Relock = {"blocks", "succeeds"}
    MaxRequests = 3
    MaxEvents = 2
    MaxRestarts = 2
SYMMETRY HandleSymmetry
INVARIANT FileInv
INVARIANT FilesMatchLibrary
INVARIANT NoOrphan
PROPERTY NeverThrottledUnseen
CHECK_DEADLOCK FALSE
