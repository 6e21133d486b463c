--------------------------- MODULE MCTorrentList ----------------------------
(* Three torrents, two with the same name, two added in the same second.     *)
EXTENDS TorrentList

CONSTANTS t1, t2, t3

Ranks(a, b, c) == [t \in Torrent |-> CASE t = t1 -> a [] t = t2 -> b [] t = t3 -> c]

NameRanks == Ranks(1, 1, 2)
DateRanks == Ranks(2, 1, 2)

=============================================================================
