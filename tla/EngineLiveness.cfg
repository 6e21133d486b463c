SPECIFICATION FairSpec
CONSTANTS
    Hash = {h1}
    Handle = {x1, x2, x3}
    NoHandle = NoHandle
    Requests = {"BeginMagnetPreview", "CancelMagnetPreview", "Add", "StopSeeding", "Remove"}
    Relock = {"blocks", "succeeds"}
    MaxRequests = 3
    MaxEvents = 1
    MaxRestarts = 0
PROPERTY RequestsServed
PROPERTY GhostsVanish
PROPERTY ShutdownReturns
CHECK_DEADLOCK FALSE
