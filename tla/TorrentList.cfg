SPECIFICATION Spec
CONSTANTS
    t1 = t1
    t2 = t2
    t3 = t3
    Torrent = {t1, t2, t3}
    NoTorrent = NoTorrent
    NameRank <- NameRanks
    DateRank <- DateRanks
    Matching = {t1, t3}
INVARIANT TypeOK
INVARIANT RowsAreChosen
INVARIANT ViewFitsRows
INVARIANT SelectionIsCurrentRow
PROPERTY FilterKeepsSelection
PROPERTY TorrentsAppear
