SPECIFICATION Spec
CONSTANTS
    Hash = {h1}
    Handle = {x1, x2, x3, x4}
    NoHandle = NoHandle
    Requests = {"BeginMagnetPreview", "FinalizeMagnetPreview", "CancelMagnetPreview", "Add", "Remove", "Pause"}
    Relock = {"blocks", "succeeds"}
    MaxRequests = 4
    MaxEvents = 1
    MaxRestarts = 0
SYMMETRY HandleSymmetry
INVARIANT TypeOK
INVARIANT NoGhost
INVARIANT GhostInv
INVARIANT NoOrphan
INVARIANT QueuedOnce
PROPERTY ImplementsLanes
CHECK_DEADLOCK FALSE
