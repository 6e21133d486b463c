---------------------------- MODULE TorrentList -----------------------------
(***************************************************************************)
(* The torrent list: TorrentListModel                                      *)
(* (src/models/torrent_list_model.cpp) over the engine's snapshots, and    *)
(* the list view of TorrentListPane.qml, whose selection is a row.         *)
(*                                                                         *)
(* The engine changes its library at any time; refresh() copies it every   *)
(* 500 ms and after every operation; all else is the user's.  A handler    *)
(* and the signals it emits are one step of the UI thread: each signal     *)
(* handler runs inside emit.                                               *)
(*                                                                         *)
(* A torrent is its info hash, its place in both orders a number, rows     *)
(* count from 1, and the current index 0 stands for -1.  The order of the  *)
(* snapshots is arbitrary (unordered_map) and so, after std::sort, is that *)
(* of equal rows.                                                          *)
(***************************************************************************)
EXTENDS Naturals, FiniteSets

CONSTANTS
    Torrent,
    NoTorrent,
    NameRank,   \* place of a torrent's name in the alphabet
    DateRank,   \* added_time
    Matching    \* the torrents the one search query tried matches

States == {"downloading", "seeding", "paused"}
Filters == States \cup {"all"}

ASSUME TorrentAssumption == IsFiniteSet(Torrent) /\ NoTorrent \notin Torrent
ASSUME RankAssumption == NameRank \in [Torrent -> Nat] /\ DateRank \in [Torrent -> Nat]
ASSUME MatchingAssumption == Matching \subseteq Torrent

VARIABLES
    library,       \* the engine's snapshots: the state of each torrent, "absent" for none
    items,         \* items_
    rows,          \* filtered_rows_
    filter,        \* active_filter_
    searching,     \* search_query_ is not empty
    by_date,       \* sort_role_ is SortByDateCreated
    ascending,     \* sort_ascending_
    count,         \* the rows the view has
    currentIndex,  \* the view's current row
    selected       \* selectedInfoHash

modelVars == <<items, rows, filter, searching, by_date, ascending>>
viewVars == <<count, currentIndex, selected>>
vars == <<library, modelVars, viewVars>>

Snapshots == [Torrent -> States \cup {"absent"}]

Ids(snaps) == {t \in Torrent : snaps[t] # "absent"}

RowSeq == UNION {[1 .. n -> Torrent] : n \in 0 .. Cardinality(Torrent)}

TypeOK ==
    /\ library \in Snapshots
    /\ items \in Snapshots
    /\ rows \in RowSeq
    /\ filter \in Filters
    /\ searching \in BOOLEAN
    /\ by_date \in BOOLEAN
    /\ ascending \in BOOLEAN
    /\ count \in 0 .. Cardinality(Torrent)
    /\ currentIndex \in 0 .. count
    /\ selected \in Torrent \cup {NoTorrent}

-----------------------------------------------------------------------------
(* rebuildFilteredRows and sortFilteredRows *)

Size(r) == Cardinality(DOMAIN r)

Passes(t, snaps, f, q) ==
    /\ f \in {"all", snaps[t]}
    /\ q => t \in Matching

Below(a, b, asc) == IF asc THEN a < b ELSE a > b

\* The comparison: the date, then the name.
Before(s, t, date, asc) ==
    IF date /\ DateRank[s] # DateRank[t]
    THEN Below(DateRank[s], DateRank[t], asc)
    ELSE Below(NameRank[s], NameRank[t], asc)

\* The results filtering and sorting may have.
Rebuilt(snaps, f, q, date, asc) ==
    LET shown == {t \in Ids(snaps) : Passes(t, snaps, f, q)}
    IN  {r \in [1 .. Cardinality(shown) -> shown] :
            \A i, j \in DOMAIN r : i < j => r[i] # r[j] /\ ~Before(r[j], r[i], date, asc)}

-----------------------------------------------------------------------------
(* The view *)

\* infoHashAt: empty beyond the rows.
HashAt(r, i) == IF i \in DOMAIN r THEN r[i] ELSE NoTorrent

\* syncSelection, with the view's own count.
Sync(r, n, i) == selected' = IF i = 0 \/ i > n THEN NoTorrent ELSE HashAt(r, i)

ResetViewKeepsIndex ==
    /\ count' = Size(rows')
    /\ UNCHANGED currentIndex
    /\ Sync(rows', count', currentIndex)

\* beginResetModel, endResetModel: the view counts again, onCountChanged keeps the current row
\* or takes the first, and syncs.
ResetView ==
    /\ count' = Size(rows')
    /\ currentIndex' = IF count' = 0 THEN 0 ELSE IF currentIndex \in 1 .. count' THEN currentIndex ELSE 1
    /\ Sync(rows', count', currentIndex')

RereadViewUnsynced == UNCHANGED viewVars

\* dataChanged: the view keeps its rows and reads them again.
RereadView ==
    /\ UNCHANGED <<count, currentIndex>>
    /\ Sync(rows', count, currentIndex)

Init ==
    /\ library = [t \in Torrent |-> "absent"]
    /\ items = [t \in Torrent |-> "absent"]
    /\ rows = [i \in {} |-> NoTorrent]
    /\ filter = "all"
    /\ searching = FALSE
    /\ by_date = FALSE
    /\ ascending = TRUE
    /\ count = 0
    /\ currentIndex = 0
    /\ selected = NoTorrent

\* The engine, on its own or on command: a torrent appears, disappears or changes state.
EngineChanges ==
    /\ \E t \in Torrent, s \in States \cup {"absent"} : s # library[t] /\ library' = [library EXCEPT ![t] = s]
    /\ UNCHANGED <<modelVars, viewVars>>

-----------------------------------------------------------------------------
(* refresh(), every 500 ms and at the end of operations *)

SameCountAlways == TRUE

\* What refresh compares: how many torrents there are, not which and not how many are shown.
SameCount == Cardinality(Ids(items')) = Cardinality(Ids(items))

RefreshWhenShown ==
    /\ items' = library
    /\ Size(rows) > 0 /\ rows' \in Rebuilt(items', filter, searching, by_date, ascending)
    /\ IF SameCount /\ Size(rows') > 0 /\ ~by_date /\ ascending THEN RereadView ELSE ResetView
    /\ UNCHANGED <<library, filter, searching, by_date, ascending>>

Refresh ==
    /\ items' = library
    /\ rows' \in Rebuilt(items', filter, searching, by_date, ascending)
    /\ IF SameCount /\ Size(rows') > 0 /\ ~by_date /\ ascending THEN RereadView ELSE ResetView
    /\ UNCHANGED <<library, filter, searching, by_date, ascending>>

-----------------------------------------------------------------------------
(* The user *)

\* A click on a row of the view, blank or not.
Click(i) ==
    /\ i \in 1 .. count
    /\ currentIndex' = i
    /\ Sync(rows, count, i)
    /\ UNCHANGED <<library, modelVars, count>>

FollowRow(h) == IF currentIndex \in 1 .. count' THEN currentIndex ELSE IF count' > 0 THEN 1 ELSE 0

\* The current row after a filter chip: the torrent selected before, the first row, or none.
Follow(h) ==
    IF \E i \in DOMAIN rows' : rows'[i] = h
    THEN CHOOSE i \in DOMAIN rows' : rows'[i] = h
    ELSE IF count' > 0 THEN 1 ELSE 0

\* setFilter resets unless the filter is already f; the chip then looks for the torrent that was
\* selected, with the rows as they are.
FilterChip(f) ==
    /\ filter' = f
    /\ IF f = filter
       THEN UNCHANGED <<rows, count>>
       ELSE rows' \in Rebuilt(items, f, searching, by_date, ascending) /\ count' = Size(rows')
    /\ currentIndex' = Follow(selected)
    /\ Sync(rows', count', currentIndex')
    /\ UNCHANGED <<library, items, searching, by_date, ascending>>

SetSearchQuery(q) ==
    /\ q # searching
    /\ searching' = q
    /\ rows' \in Rebuilt(items, filter, q, by_date, ascending)
    /\ ResetView
    /\ UNCHANGED <<library, items, filter, by_date, ascending>>

SetSortOnly(date, asc) ==
    /\ <<date, asc>> # <<by_date, ascending>>
    /\ by_date' = date /\ ascending' = asc
    /\ UNCHANGED rows
    /\ ResetView
    /\ UNCHANGED <<library, items, filter, searching>>

\* A sort segment sets the role and then the direction that goes with it, the arrow only the
\* direction; a setter that changes nothing returns early.
SetSort(date, asc) ==
    /\ <<date, asc>> # <<by_date, ascending>>
    /\ by_date' = date /\ ascending' = asc
    /\ rows' \in Rebuilt(items, filter, searching, date, asc)
    /\ ResetView
    /\ UNCHANGED <<library, items, filter, searching>>

SortSegment(date) == SetSort(date, ~date)
SortArrow == SetSort(by_date, ~ascending)

-----------------------------------------------------------------------------
(* The specification *)

User ==
    \/ \E i \in 1 .. count : Click(i)
    \/ \E f \in Filters : FilterChip(f)
    \/ \E q \in BOOLEAN : SetSearchQuery(q)
    \/ \E date \in BOOLEAN : SortSegment(date)
    \/ SortArrow

Next == EngineChanges \/ Refresh \/ User

\* The refresh timer fires.
Spec == Init /\ [][Next]_vars /\ WF_vars(Refresh)

-----------------------------------------------------------------------------
(* Properties *)

\* The rows are exactly the known torrents that pass the filter and the search, each once, in
\* an order the chosen sorting allows, whichever setter or refresh came last (lines 95-191).
RowsAreChosen == rows \in Rebuilt(items, filter, searching, by_date, ascending)

\* The view has a row for each torrent and no blank one, as long as nothing is filtered out.
\* (Under a filter or a search it need not: refresh compares the number of torrents, line 197,
\* and not of rows, so the view keeps blank rows, or misses some, until the next reset.)
ViewFitsRows == filter = "all" /\ ~searching => count = Size(rows)

\* What the shortcuts act on is the torrent of the current row: pausing and removing go by
\* selectedInfoHash, the remove dialog and the details by currentIndex.
SelectionIsCurrentRow ==
    selected = IF currentIndex \in 1 .. count THEN HashAt(rows, currentIndex) ELSE NoTorrent

\* A filter never moves the selection away from a torrent it still shows.
FilterKeepsSelection ==
    [][filter' # filter /\ (\E i \in DOMAIN rows' : rows'[i] = selected) => selected' = selected]_vars

\* The torrent has a row in the view.
Visible(t) == \E i \in 1 .. count : HashAt(rows, i) = t

ShowingAll == filter = "all" /\ ~searching

\* Every torrent the engine keeps gets its row.
TorrentsAppear ==
    \A t \in Torrent :
        library[t] # "absent" /\ ShowingAll ~> (Visible(t) \/ library[t] = "absent" \/ ~ShowingAll)

=============================================================================
