------------------------- MODULE TorrentListProofs --------------------------
(***************************************************************************)
(* Proofs about TorrentList, for every number of torrents, whatever their  *)
(* names, their dates and what the search matches.                         *)
(***************************************************************************)
EXTENDS TorrentList, TLAPS, FiniteSetTheorems

-----------------------------------------------------------------------------
(* Rows *)

\* What rebuilding yields: a row for each torrent shown, which are all of them when nothing is
\* filtered out.
LEMMA RebuiltFacts ==
    ASSUME NEW snaps \in Snapshots, NEW f, NEW q, NEW date, NEW asc,
           NEW r \in Rebuilt(snaps, f, q, date, asc)
    PROVE  /\ r \in RowSeq
           /\ Size(r) \in 0 .. Cardinality(Torrent)
           /\ DOMAIN r = 1 .. Size(r)
           /\ \A i \in DOMAIN r : r[i] \in Torrent
           /\ f = "all" /\ ~q => Size(r) = Cardinality(Ids(snaps))
<1> DEFINE shown == {t \in Ids(snaps) : Passes(t, snaps, f, q)}
           n == Cardinality(shown)
<1>1. shown \subseteq Torrent
  BY DEF Ids
<1>2. n \in Nat /\ Cardinality(Torrent) \in Nat /\ n <= Cardinality(Torrent)
  BY <1>1, TorrentAssumption, FS_Subset, FS_CardinalityType
<1>3. r \in [1 .. n -> shown]
  BY DEF Rebuilt
<1> HIDE DEF shown, n
<1>4. DOMAIN r = 1 .. n /\ \A i \in DOMAIN r : r[i] \in Torrent
  BY <1>1, <1>3
<1>5. Size(r) = n
  BY <1>2, <1>4, FS_Interval DEF Size
<1>6. r \in [1 .. n -> Torrent] /\ n \in 0 .. Cardinality(Torrent)
  BY <1>1, <1>2, <1>3
<1>7. r \in RowSeq
  BY <1>6 DEF RowSeq
<1>8. f = "all" /\ ~q => shown = Ids(snaps)
  BY DEF shown, Passes
<1> QED
  BY <1>4, <1>5, <1>6, <1>7, <1>8 DEF n

\* The row a filter chip follows to is a row of the view, or none.
LEMMA FollowType ==
    ASSUME NEW h, DOMAIN rows' = 1 .. Size(rows)', count' = Size(rows)', count' \in Nat
    PROVE  /\ Follow(h) \in 0 .. count'
           /\ (\E i \in DOMAIN rows' : rows'[i] = h) => Follow(h) \in 1 .. count' /\ rows'[Follow(h)] = h
<1>1. CASE \E i \in DOMAIN rows' : rows'[i] = h
  <2>1. Follow(h) = CHOOSE i \in DOMAIN rows' : rows'[i] = h
    BY <1>1 DEF Follow
  <2>2. Follow(h) \in DOMAIN rows' /\ rows'[Follow(h)] = h
    BY <1>1, <2>1
  <2> QED
    BY <2>2
<1>2. CASE ~ \E i \in DOMAIN rows' : rows'[i] = h
  BY <1>2 DEF Follow
<1> QED
  BY <1>1, <1>2

-----------------------------------------------------------------------------
(* The invariant *)

\* Everything the list promises in one state: none of it is preserved without the rest.
ListInv ==
    /\ TypeOK
    /\ RowsAreChosen
    /\ ViewFitsRows
    /\ SelectionIsCurrentRow

\* The parts of the invariant a step may disturb.
LEMMA ListInvParts ==
    ASSUME library' \in Snapshots, items' \in Snapshots, filter' \in Filters, searching' \in BOOLEAN,
           by_date' \in BOOLEAN, ascending' \in BOOLEAN, rows' \in RowSeq,
           count' \in 0 .. Cardinality(Torrent), currentIndex' \in 0 .. count',
           selected' \in Torrent \cup {NoTorrent},
           RowsAreChosen', ViewFitsRows', SelectionIsCurrentRow'
    PROVE  ListInv'
  BY DEF ListInv, TypeOK

\* Syncing selects the torrent of the current row.
LEMMA SyncSelects ==
    ASSUME NEW r, NEW n \in Nat, NEW i \in 0 .. n, Sync(r, n, i),
           \A k \in DOMAIN r : r[k] \in Torrent
    PROVE  /\ selected' = IF i \in 1 .. n THEN HashAt(r, i) ELSE NoTorrent
           /\ selected' \in Torrent \cup {NoTorrent}
           /\ i \in 1 .. n /\ i \in DOMAIN r => selected' = r[i]
<1>1. i = 0 \/ i > n <=> i \notin 1 .. n
  OBVIOUS
<1>2. HashAt(r, i) \in Torrent \cup {NoTorrent} /\ (i \in DOMAIN r => HashAt(r, i) = r[i])
  BY DEF HashAt
<1> QED
  BY <1>1, <1>2 DEF Sync

LEMMA ListInit == Init => ListInv
<1> SUFFICES ASSUME Init PROVE ListInv
  OBVIOUS
<1>1. Ids(items) = {}
  BY DEF Init, Ids
<1>2. {t \in Ids(items) : Passes(t, items, filter, searching)} = {}
  BY <1>1
<1>3. Cardinality({}) = 0 /\ Cardinality(Torrent) \in Nat /\ 1 .. 0 = {}
  BY FS_EmptySet, FS_CardinalityType, TorrentAssumption
<1>4. rows \in [1 .. 0 -> {}] /\ rows \in [1 .. 0 -> Torrent] /\ DOMAIN rows = {}
  BY <1>3 DEF Init
<1>5. RowsAreChosen
  BY <1>2, <1>3, <1>4 DEF RowsAreChosen, Rebuilt
<1>6. rows \in RowSeq
  <2>1. 0 \in 0 .. Cardinality(Torrent)
    BY <1>3
  <2> QED
    BY <1>4, <2>1 DEF RowSeq
<1>7. library \in Snapshots /\ items \in Snapshots
  BY DEF Init, Snapshots
<1>8. TypeOK
  <2>1. count \in 0 .. Cardinality(Torrent) /\ currentIndex \in 0 .. count
    BY <1>3 DEF Init
  <2> QED
    BY <1>6, <1>7, <2>1 DEF Init, TypeOK, Filters
<1>9. ViewFitsRows
  BY <1>3, <1>4 DEF Init, ViewFitsRows, Size
<1>10. SelectionIsCurrentRow
  BY DEF Init, SelectionIsCurrentRow
<1> QED
  BY <1>5, <1>8, <1>9, <1>10 DEF ListInv

\* The facts about rows just rebuilt.
LEMMA RowsRebuilt ==
    ASSUME items' \in Snapshots, RowsAreChosen'
    PROVE  /\ rows' \in RowSeq
           /\ Size(rows') \in 0 .. Cardinality(Torrent) /\ Size(rows') \in Nat
           /\ DOMAIN rows' = 1 .. Size(rows')
           /\ \A i \in DOMAIN rows' : rows'[i] \in Torrent
           /\ filter' = "all" /\ ~searching' => Size(rows') = Cardinality(Ids(items'))
<1>1. rows' \in Rebuilt(items', filter', searching', by_date', ascending')
  BY DEF RowsAreChosen
<1>2. /\ rows' \in RowSeq
      /\ Size(rows') \in 0 .. Cardinality(Torrent)
      /\ DOMAIN rows' = 1 .. Size(rows')
      /\ \A i \in DOMAIN rows' : rows'[i] \in Torrent
      /\ filter' = "all" /\ ~searching' => Size(rows') = Cardinality(Ids(items'))
  BY <1>1, RebuiltFacts
<1>3. Size(rows') \in Nat
  BY <1>2
<1> QED
  BY <1>2, <1>3

\* A reset leaves a view that fits the rows.
LEMMA ResetKeeps ==
    ASSUME ListInv, library' = library, items' \in Snapshots, filter' \in Filters, searching' \in BOOLEAN,
           by_date' \in BOOLEAN, ascending' \in BOOLEAN, RowsAreChosen', ResetView
    PROVE  ListInv'
<1>1. /\ rows' \in RowSeq
      /\ count' \in 0 .. Cardinality(Torrent) /\ count' \in Nat
      /\ DOMAIN rows' = 1 .. count'
      /\ \A i \in DOMAIN rows' : rows'[i] \in Torrent
      /\ count' = Size(rows')
  BY RowsRebuilt DEF ResetView
<1>2. currentIndex' \in 0 .. count'
  BY <1>1 DEF ResetView
<1>3. /\ selected' = IF currentIndex' \in 1 .. count' THEN HashAt(rows', currentIndex') ELSE NoTorrent
      /\ selected' \in Torrent \cup {NoTorrent}
  BY <1>1, <1>2, SyncSelects DEF ResetView
<1>4. SelectionIsCurrentRow' /\ ViewFitsRows'
  BY <1>1, <1>3 DEF SelectionIsCurrentRow, ViewFitsRows
<1> QED
  BY <1>1, <1>2, <1>3, <1>4, ListInvParts DEF ListInv, TypeOK

\* Refreshing without a reset counts on the number of torrents being that of the rows.
LEMMA RereadKeeps ==
    ASSUME ListInv, library' = library, items' \in Snapshots, RowsAreChosen', SameCount, RereadView,
           UNCHANGED <<filter, searching, by_date, ascending>>
    PROVE  ListInv'
<1>1. /\ rows' \in RowSeq
      /\ \A i \in DOMAIN rows' : rows'[i] \in Torrent
      /\ filter' = "all" /\ ~searching' => Size(rows') = Cardinality(Ids(items'))
  BY RowsRebuilt
<1>2. /\ count \in 0 .. Cardinality(Torrent) /\ count \in Nat
      /\ count' = count /\ currentIndex' = currentIndex /\ currentIndex \in 0 .. count
  BY DEF ListInv, TypeOK, RereadView
<1>3. /\ selected' = IF currentIndex \in 1 .. count THEN HashAt(rows', currentIndex) ELSE NoTorrent
      /\ selected' \in Torrent \cup {NoTorrent}
  BY <1>1, <1>2, SyncSelects DEF RereadView
<1>4. SelectionIsCurrentRow'
  BY <1>2, <1>3 DEF SelectionIsCurrentRow
<1>5. ViewFitsRows'
  <2> SUFFICES ASSUME filter' = "all", ~searching' PROVE count' = Size(rows')
    BY DEF ViewFitsRows
  <2>1. rows \in Rebuilt(items, filter, searching, by_date, ascending) /\ items \in Snapshots
    BY DEF ListInv, TypeOK, RowsAreChosen
  <2>2. Size(rows) = Cardinality(Ids(items))
    BY <2>1, RebuiltFacts
  <2>3. count = Size(rows)
    BY DEF ListInv, ViewFitsRows
  <2> QED
    BY <1>1, <1>2, <2>2, <2>3 DEF SameCount
<1> QED
  BY <1>1, <1>2, <1>3, <1>4, <1>5, ListInvParts DEF ListInv, TypeOK

\* A chip shows the rows of its filter and follows the torrent selected before.
LEMMA ChipKeeps ==
    ASSUME ListInv, NEW f \in Filters, FilterChip(f)
    PROVE  /\ ListInv'
           /\ filter' # filter /\ (\E i \in DOMAIN rows' : rows'[i] = selected) => selected' = selected
<1>1. RowsAreChosen' /\ items' = items /\ items' \in Snapshots /\ filter' \in Filters
  BY DEF FilterChip, ListInv, TypeOK, RowsAreChosen
<1>2. /\ rows' \in RowSeq
      /\ Size(rows') \in 0 .. Cardinality(Torrent) /\ Size(rows') \in Nat
      /\ DOMAIN rows' = 1 .. Size(rows')
      /\ \A i \in DOMAIN rows' : rows'[i] \in Torrent
  BY <1>1, RowsRebuilt
<1>3. count' = Size(rows') \/ (f = filter /\ UNCHANGED <<rows, count>>)
  BY DEF FilterChip
<1>4. count' \in 0 .. Cardinality(Torrent) /\ count' \in Nat
  BY <1>2, <1>3 DEF ListInv, TypeOK
<1>5. currentIndex' \in 0 .. count'
  <2>1. CASE count' = Size(rows')
    BY <1>2, <2>1, FollowType DEF FilterChip
  <2>2. CASE f = filter /\ UNCHANGED <<rows, count>>
    <3>1. CASE \E i \in DOMAIN rows' : rows'[i] = selected
      <4>1. rows \in Rebuilt(items, filter, searching, by_date, ascending)
        BY DEF ListInv, RowsAreChosen
      <4>2. \A i, j \in DOMAIN rows : i < j => rows[i] # rows[j]
        BY <4>1 DEF Rebuilt
      <4>3. selected \in Torrent /\ selected # NoTorrent
        BY <1>2, <3>1, TorrentAssumption
      <4>4. currentIndex \in 1 .. count /\ currentIndex \in DOMAIN rows /\ rows[currentIndex] = selected
        BY <4>3 DEF ListInv, SelectionIsCurrentRow, HashAt
      <4>5. currentIndex' \in DOMAIN rows /\ rows[currentIndex'] = selected
        <5>1. currentIndex' = CHOOSE i \in DOMAIN rows' : rows'[i] = selected
          BY <3>1 DEF FilterChip, Follow
        <5> QED
          BY <2>2, <3>1, <5>1
      <4>6. currentIndex \in Nat /\ currentIndex' \in Nat
        <5>1. DOMAIN rows \subseteq Nat
          BY <1>2, <2>2
        <5> QED
          BY <4>4, <4>5, <5>1
      <4>7. currentIndex' = currentIndex
        BY <4>2, <4>4, <4>5, <4>6
      <4> QED
        BY <1>4, <2>2, <4>4, <4>7
    <3>2. CASE ~ \E i \in DOMAIN rows' : rows'[i] = selected
      BY <1>4, <3>2 DEF FilterChip, Follow
    <3> QED
      BY <3>1, <3>2
  <2> QED
    BY <1>3, <2>1, <2>2
<1>6. /\ selected' = IF currentIndex' \in 1 .. count' THEN HashAt(rows', currentIndex') ELSE NoTorrent
      /\ selected' \in Torrent \cup {NoTorrent}
      /\ currentIndex' \in 1 .. count' /\ currentIndex' \in DOMAIN rows' => selected' = rows'[currentIndex']
  BY <1>2, <1>4, <1>5, SyncSelects DEF FilterChip
<1>7. SelectionIsCurrentRow'
  BY <1>6 DEF SelectionIsCurrentRow
<1>8. ViewFitsRows'
  BY <1>3 DEF FilterChip, ListInv, ViewFitsRows
<1>9. ListInv'
  BY <1>1, <1>2, <1>4, <1>5, <1>6, <1>7, <1>8, ListInvParts DEF FilterChip, ListInv, TypeOK
<1>10. ASSUME filter' # filter, \E i \in DOMAIN rows' : rows'[i] = selected PROVE selected' = selected
  <2>1. count' = Size(rows')
    BY <1>10 DEF FilterChip
  <2>2. currentIndex' \in 1 .. count' /\ rows'[currentIndex'] = selected
    BY <1>2, <1>10, <2>1, FollowType DEF FilterChip
  <2> QED
    BY <1>2, <1>6, <2>1, <2>2
<1> QED
  BY <1>9, <1>10

\* Every other step leaves the filter alone and keeps the invariant.
LEMMA OtherKeeps ==
    ASSUME ListInv, [Next]_vars, ~ \E f \in Filters : FilterChip(f)
    PROVE  ListInv' /\ filter' = filter
<1> USE DEF modelVars, viewVars
<1>1. CASE EngineChanges
  <2>1. library' \in Snapshots
    BY <1>1 DEF EngineChanges, ListInv, TypeOK, Snapshots
  <2> QED
    BY <1>1, <2>1 DEF EngineChanges, ListInv, TypeOK, RowsAreChosen, ViewFitsRows, SelectionIsCurrentRow
<1>2. CASE Refresh
  <2>1. RowsAreChosen' /\ items' \in Snapshots
    BY <1>2 DEF Refresh, RowsAreChosen, ListInv, TypeOK
  <2>2. (SameCount /\ RereadView) \/ ResetView
    BY <1>2 DEF Refresh
  <2>3. /\ UNCHANGED <<library, filter, searching, by_date, ascending>>
        /\ filter \in Filters /\ searching \in BOOLEAN /\ by_date \in BOOLEAN /\ ascending \in BOOLEAN
    BY <1>2 DEF Refresh, ListInv, TypeOK
  <2> QED
    BY <2>1, <2>2, <2>3, RereadKeeps, ResetKeeps
<1>3. ASSUME NEW i \in 1 .. count, Click(i) PROVE ListInv' /\ filter' = filter
  <2>1. rows \in Rebuilt(items, filter, searching, by_date, ascending) /\ items \in Snapshots
    BY DEF ListInv, TypeOK, RowsAreChosen
  <2>2. \A k \in DOMAIN rows : rows[k] \in Torrent
    BY <2>1, RebuiltFacts
  <2>3. count \in Nat /\ i \in 0 .. count
    BY DEF ListInv, TypeOK
  <2>4. /\ selected' = IF i \in 1 .. count THEN HashAt(rows, i) ELSE NoTorrent
        /\ selected' \in Torrent \cup {NoTorrent}
    BY <1>3, <2>2, <2>3, SyncSelects DEF Click
  <2> QED
    BY <1>3, <2>3, <2>4 DEF Click, ListInv, TypeOK, RowsAreChosen, ViewFitsRows, SelectionIsCurrentRow
<1>4. ASSUME NEW q \in BOOLEAN, SetSearchQuery(q) PROVE ListInv' /\ filter' = filter
  <2>1. RowsAreChosen' /\ ResetView /\ UNCHANGED <<library, items, filter, by_date, ascending>> /\ searching' \in BOOLEAN
    BY <1>4 DEF SetSearchQuery, RowsAreChosen
  <2>2. items \in Snapshots /\ filter \in Filters /\ by_date \in BOOLEAN /\ ascending \in BOOLEAN
    BY DEF ListInv, TypeOK
  <2> QED
    BY <2>1, <2>2, ResetKeeps
<1>5. ASSUME NEW date \in BOOLEAN, NEW asc \in BOOLEAN, SetSort(date, asc) PROVE ListInv' /\ filter' = filter
  <2>1. RowsAreChosen' /\ ResetView /\ UNCHANGED <<library, items, filter, searching>>
        /\ by_date' \in BOOLEAN /\ ascending' \in BOOLEAN
    BY <1>5 DEF SetSort, RowsAreChosen
  <2>2. items \in Snapshots /\ filter \in Filters /\ searching \in BOOLEAN
    BY DEF ListInv, TypeOK
  <2> QED
    BY <2>1, <2>2, ResetKeeps
<1>6. ASSUME NEW date \in BOOLEAN, SortSegment(date) PROVE ListInv' /\ filter' = filter
  BY <1>5, <1>6 DEF SortSegment
<1>7. CASE SortArrow
  <2>1. by_date \in BOOLEAN /\ (~ascending) \in BOOLEAN
    BY DEF ListInv, TypeOK
  <2> QED
    BY <1>5, <1>7, <2>1 DEF SortArrow
<1>8. CASE UNCHANGED vars
  BY <1>8 DEF vars, ListInv, TypeOK, RowsAreChosen, ViewFitsRows, SelectionIsCurrentRow
<1> QED
  BY <1>1, <1>2, <1>3, <1>4, <1>6, <1>7, <1>8 DEF Next, User

LEMMA ListNext == ListInv /\ [Next]_vars => ListInv'
  BY ChipKeeps, OtherKeeps

-----------------------------------------------------------------------------
(* The theorems *)

\* Types, for every number of torrents: the current row in particular is always a row of the view.
THEOREM TypeCorrect == Spec => []TypeOK
<1>1. ListInv => TypeOK
  BY DEF ListInv
<1> QED
  BY <1>1, ListInit, ListNext, PTL DEF Spec

\* The rows are exactly the torrents chosen by filter and search, in the order chosen.
THEOREM RowsChosen == Spec => []RowsAreChosen
<1>1. ListInv => RowsAreChosen
  BY DEF ListInv
<1> QED
  BY <1>1, ListInit, ListNext, PTL DEF Spec

\* With nothing filtered out the view has as many rows as there are torrents, though a refresh
\* compares only the number of torrents.
THEOREM ViewFits == Spec => []ViewFitsRows
<1>1. ListInv => ViewFitsRows
  BY DEF ListInv
<1> QED
  BY <1>1, ListInit, ListNext, PTL DEF Spec

\* The torrent the shortcuts act on is the one of the current row.
THEOREM SelectionCurrent == Spec => []SelectionIsCurrentRow
<1>1. ListInv => SelectionIsCurrentRow
  BY DEF ListInv
<1> QED
  BY <1>1, ListInit, ListNext, PTL DEF Spec

\* A filter chip keeps the selection on a torrent it still shows.
THEOREM ChipKeepsSelection == Spec => FilterKeepsSelection
<1>1. ListInv /\ [Next]_vars =>
        [filter' # filter /\ (\E i \in DOMAIN rows' : rows'[i] = selected) => selected' = selected]_vars
  BY ChipKeeps, OtherKeeps
<1> QED
  BY <1>1, ListInit, ListNext, PTL DEF Spec, FilterKeepsSelection

=============================================================================
