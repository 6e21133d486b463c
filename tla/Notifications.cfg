SPECIFICATION Spec
CONSTANTS
    Torrent = {t1}
    NoTorrent = NoTorrent
    FirstSize = 400
    SecondSize = 700
    Done = {0, 1, 2, 397, 398, 400}
    Rates = {0, 2, 7}
    MinEtaRate = 2
    MaxEtaSeconds = 200
INVARIANT TypeOK
INVARIANT PercentHonest
INVARIANT TotalCoversDownloaded
INVARIANT EtaHonest
INVARIANT FiltersPartition
PROPERTY AnnouncedIsNearlyDone
PROPERTY AnnouncedHasWorked
