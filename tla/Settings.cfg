SPECIFICATION Spec
CONSTANTS
    Kbps = {0, 100}
    Port = {80, 3128}
    Host = {proxy}
    NoHost = NoHost
    Blank = Blank
    MaxEdits = 5
INVARIANTS
    TypeOK
    SessionFollowsStore
    ThrottledAsSaved
PROPERTY
    SaveStoresEdits
