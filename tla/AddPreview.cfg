SPECIFICATION Spec
CONSTANTS
    Hash = {h1, h2}
    NoHash = NoHash
    MaxLoads = 2
    MaxAdds = 1
SYMMETRY HashSymmetry
INVARIANT TypeOK
INVARIANT FilesOfShown
INVARIANT NeverSelfLocks
INVARIANT StagedIsKnown
INVARIANT AcceptedIsKept
INVARIANT LoadingIsTimed
PROPERTY AcceptFindsTorrent
PROPERTY ImplementsLifecycle
CONSTRAINT ShortQueue
CHECK_DEADLOCK FALSE
