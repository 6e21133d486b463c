------------------------ MODULE NotificationsProofs -------------------------
(***************************************************************************)
(* Proofs about Notifications and SnapshotRules, for every number of       *)
(* torrents, files of every size, any bytes of them and any rate.          *)
(*                                                                         *)
(* A status is of one of three kinds (counted, uncounted, without          *)
(* metadata); for each, the total the snapshot shows is known, and the     *)
(* percentage is the rounded progress or the share of the bytes.  What is  *)
(* left is arithmetic about rounding.                                      *)
(***************************************************************************)
EXTENDS Notifications, TLAPS

-----------------------------------------------------------------------------
(* Rounding *)

\* What an integer division leaves.
LEMMA Division ==
    ASSUME NEW a \in Nat, NEW b \in Nat \ {0}
    PROVE  a \div b \in Nat /\ b * (a \div b) <= a /\ a < b * (a \div b) + b
  OBVIOUS

\* Rounding to the nearest percent is off by half a percent at most, and never leaves 0 .. 100.
LEMMA RoundedNearest ==
    ASSUME NEW n \in Nat, NEW d \in Nat \ {0}, n <= d
    PROVE  LET p == (200 * n + d) \div (2 * d)
           IN  p \in 0 .. 100 /\ 2 * p * d <= 200 * n + d /\ 200 * n - d < 2 * p * d
<1> DEFINE p == (200 * n + d) \div (2 * d)
<1>1. 200 * n + d \in Nat /\ 2 * d \in Nat \ {0}
  OBVIOUS
<1>2. p \in Nat /\ (2 * d) * p <= 200 * n + d /\ 200 * n + d < (2 * d) * p + 2 * d
  BY <1>1, Division
<1> HIDE DEF p
<1>3. 2 * p * d = (2 * d) * p
  BY <1>2
<1>4. p <= 100
  <2>1. SUFFICES ASSUME p >= 101 PROVE FALSE
    BY <1>2
  <2>2. (2 * d) * p >= (2 * d) * 101
    BY <1>2, <2>1
  <2> QED
    BY <1>2, <2>2
<1> QED
  BY <1>2, <1>3, <1>4 DEF p

\* The share of the bytes that is there.
LEMMA ShareOfBytes ==
    ASSUME NEW done \in Nat, NEW total \in Nat \ {0}, done <= total
    PROVE  /\ (done * 100) \div total \in 0 .. 100
           /\ ((done * 100) \div total) * total <= 100 * done
           /\ (done * 100) \div total >= 100 => done = total
<1> DEFINE p == (done * 100) \div total
<1>1. p \in Nat /\ total * p <= done * 100
  BY Division
<1> HIDE DEF p
<1>2. p * total <= 100 * done
  BY <1>1
<1>3. ASSUME p >= 100 PROVE done = total /\ p <= 100
  <2>1. total * p >= total * 100
    BY <1>1, <1>3
  <2>2. done = total
    BY <1>1, <2>1
  <2>3. SUFFICES ASSUME p >= 101 PROVE FALSE
    BY <1>1, <2>2
  <2>4. total * p >= total * 101
    BY <1>1, <2>3
  <2> QED
    BY <1>1, <2>4
<1> QED
  BY <1>1, <1>2, <1>3 DEF p

\* The estimate from the progress of a status without totals is the exact size.
LEMMA EstimateIsExact ==
    ASSUME NEW a \in Nat \ {0}, NEW s \in Nat
    PROVE  (2 * a * s + a) \div (2 * a) = s
<1> DEFINE q == (2 * a * s + a) \div (2 * a)
<1>1. 2 * a * s + a \in Nat /\ 2 * a \in Nat \ {0}
  OBVIOUS
<1>2. q \in Nat /\ (2 * a) * q <= 2 * a * s + a /\ 2 * a * s + a < (2 * a) * q + 2 * a
  BY <1>1, Division
<1> HIDE DEF q
<1>3. ~(q >= s + 1)
  <2>1. SUFFICES ASSUME q >= s + 1 PROVE FALSE
    OBVIOUS
  <2>2. (2 * a) * q >= (2 * a) * (s + 1)
    BY <1>2, <2>1
  <2>3. (2 * a) * (s + 1) = 2 * a * s + 2 * a
    OBVIOUS
  <2> QED
    BY <1>2, <2>2, <2>3
<1>4. ~(q + 1 <= s)
  <2>1. SUFFICES ASSUME q + 1 <= s PROVE FALSE
    OBVIOUS
  <2>2. (2 * a) * (q + 1) <= (2 * a) * s
    BY <1>2, <2>1
  <2>3. (2 * a) * (q + 1) = (2 * a) * q + 2 * a /\ (2 * a) * s = 2 * a * s
    BY <1>2
  <2> QED
    BY <1>2, <2>2, <2>3
<1> QED
  BY <1>2, <1>3, <1>4 DEF q

-----------------------------------------------------------------------------
(* The statuses a poll can find *)

HasNumbers(st) ==
    /\ st.num \in Nat /\ st.den \in Nat \ {0} /\ st.num <= st.den
    /\ st.total \in Nat /\ st.files \in Nat /\ st.total_done \in Nat
    /\ st.total_wanted \in Nat /\ st.total_wanted_done \in Nat
    /\ st.rate \in Nat

\* libtorrent counts the bytes: what is missing of the wanted ones is missing of all.
IsCounted(st) ==
    /\ st.total = Size /\ st.files = Size /\ st.total_done <= Size
    /\ st.total_wanted >= 1 /\ st.total_wanted_done <= st.total_wanted
    /\ st.total_wanted - st.total_wanted_done <= Size - st.total_done
    /\ \/ st.state = "checking_files"
       \/ st.state = "checking_resume_data" /\ st.num = 0
       \/ st.state = "downloading" /\ st.num = st.total_wanted_done /\ st.den = st.total_wanted
       \/ st.state = "finished" /\ st.total_wanted_done = st.total_wanted

\* A status whose total is missing, and what is wanted with it or not.
IsUncounted(st) ==
    /\ st.total = 0
    /\ \/ st.total_wanted = 0 /\ st.total_wanted_done = 0
       \/ st.total_wanted = Size /\ st.total_wanted_done = st.total_done
    /\ st.files \in {0, Size}
    /\ st.total_done >= 1 /\ st.total_done <= Size
    /\ st.num = st.total_done /\ st.den = Size
    /\ st.state = "downloading"

IsUnknown(st) ==
    /\ st.total = 0 /\ st.total_wanted = 0 /\ st.total_wanted_done = 0 /\ st.files = 0 /\ st.total_done = 0
    /\ st.num = 0 /\ st.den = 1

\* What a status is made of.
LEMMA StatusFields ==
    ASSUME NEW b, NEW t, NEW p, NEW e, NEW r
    PROVE  LET st == Status(b, t, p, e, r)
           IN  /\ st.state = t.state /\ st.num = t.progress.num /\ st.den = t.progress.den
               /\ st.paused = p /\ st.errc = e /\ st.rate = r
               /\ st.total = b.total /\ st.files = b.files /\ st.total_done = b.total_done
               /\ st.total_wanted = b.total_wanted /\ st.total_wanted_done = b.total_wanted_done
  BY DEF Status

\* The three kinds of status are all there are.
LEMMA StatusKinds ==
    ASSUME NEW st \in Statuses
    PROVE  /\ HasNumbers(st)
           /\ IsCounted(st) \/ IsUncounted(st) \/ (IsUnknown(st) /\ st.state = "downloading_metadata")
<1>0. PICK b \in Known \cup Uncounted \cup {NoBytes} : st \in StatusesWith(b)
  BY DEF Statuses
<1>1. PICK t \in Tasks(b), p \in BOOLEAN, e \in BOOLEAN, r \in Rates : st = Status(b, t, p, e, r)
  BY <1>0 DEF StatusesWith
<1>2. /\ st.state = t.state /\ st.num = t.progress.num /\ st.den = t.progress.den
      /\ st.rate = r
      /\ st.total = b.total /\ st.files = b.files /\ st.total_done = b.total_done
      /\ st.total_wanted = b.total_wanted /\ st.total_wanted_done = b.total_wanted_done
  BY <1>1, StatusFields
<1>3. r \in Nat /\ Size \in Nat /\ Size >= 1 /\ FirstSize \in Nat \ {0} /\ SecondSize \in Nat /\ Size = FirstSize + SecondSize
  BY DoneAssumption, SizeAssumption DEF Size
<1>4. \A n, d : Fraction(n, d).num = n /\ Fraction(n, d).den = d
  BY DEF Fraction
<1>5. CASE b = NoBytes
  <2>1. t = [state |-> "downloading_metadata", progress |-> Fraction(0, 1)]
    BY <1>5 DEF Tasks
  <2>2. t.state = "downloading_metadata" /\ t.progress.num = 0 /\ t.progress.den = 1
    BY <2>1, <1>4
  <2> QED
    BY <1>2, <1>3, <1>5, <2>2 DEF NoBytes, HasNumbers, IsUnknown
<1>6. CASE b \in Uncounted
  <2>1. PICK a \in Done \ {0}, f \in {0, Size}, w \in {0, Size} :
            b = [total |-> 0, files |-> f, total_done |-> a,
                 total_wanted |-> w, total_wanted_done |-> IF w = 0 THEN 0 ELSE a]
    BY <1>6 DEF Uncounted
  <2>2. a \in Nat /\ a >= 1 /\ a <= Size
    BY <1>3, DoneAssumption
  <2>3. b.total = 0 /\ b.files = f /\ b.total_done = a
      /\ b.total_wanted = w /\ b.total_wanted_done = IF w = 0 THEN 0 ELSE a
    BY <2>1
  <2>4. b # NoBytes
    BY <2>2, <2>3 DEF NoBytes
  <2>5. t = [state |-> "downloading", progress |-> Fraction(b.total_done, Size)]
    BY <1>6, <2>4 DEF Tasks
  <2>6. t.state = "downloading" /\ t.progress.num = a /\ t.progress.den = Size
    BY <2>5, <2>3, <1>4
  <2> QED
    BY <1>2, <1>3, <2>2, <2>3, <2>6 DEF HasNumbers, IsUncounted
<1>7. CASE b \in Known
  <2>1. PICK x \in Done, y \in {0, SecondSize}, both \in BOOLEAN : b = Bytes(x, y, both)
    BY <1>7 DEF Known
  <2>2. x \in Nat /\ x <= FirstSize /\ y \in Nat /\ y <= SecondSize
    BY <1>3, DoneAssumption
  <2>3. /\ b.total = Size /\ b.files = Size /\ b.total_done = x + y
        /\ b.total_wanted = IF both THEN Size ELSE FirstSize
        /\ b.total_wanted_done = IF both THEN x + y ELSE x
    BY <2>1 DEF Bytes
  <2>4. b # NoBytes /\ b \notin Uncounted
    <3>1. \A u \in Uncounted : u.total = 0
      BY DEF Uncounted
    <3> QED
      BY <1>3, <2>3, <3>1 DEF NoBytes
  <2>5. \/ \E c \in Done : t = [state |-> "checking_files", progress |-> Fraction(c, FirstSize)]
        \/ t = [state |-> "checking_resume_data", progress |-> Fraction(0, 1)]
        \/ t = [state |-> "downloading", progress |-> Fraction(b.total_wanted_done, b.total_wanted)]
        \/ t = [state |-> "finished", progress |-> Fraction(1, 1)] /\ ~(b.total_wanted_done < b.total_wanted)
    BY <2>4 DEF Tasks
  <2>6. /\ t.progress.num \in Nat /\ t.progress.den \in Nat \ {0} /\ t.progress.num <= t.progress.den
        /\ \/ t.state = "checking_files"
           \/ t.state = "checking_resume_data" /\ t.progress.num = 0
           \/ t.state = "downloading" /\ t.progress.num = b.total_wanted_done /\ t.progress.den = b.total_wanted
           \/ t.state = "finished" /\ b.total_wanted_done = b.total_wanted
    <3>1. CASE \E c \in Done : t = [state |-> "checking_files", progress |-> Fraction(c, FirstSize)]
      <4>1. PICK c \in Done : t = [state |-> "checking_files", progress |-> Fraction(c, FirstSize)]
        BY <3>1
      <4>2. t.state = "checking_files" /\ t.progress.num = c /\ t.progress.den = FirstSize
        BY <4>1, <1>4
      <4> QED
        BY <4>2, <1>3, DoneAssumption
    <3>2. CASE t = [state |-> "checking_resume_data", progress |-> Fraction(0, 1)]
      <4>1. t.state = "checking_resume_data" /\ t.progress.num = 0 /\ t.progress.den = 1
        BY <3>2, <1>4
      <4> QED
        BY <4>1
    <3>3. CASE t = [state |-> "downloading", progress |-> Fraction(b.total_wanted_done, b.total_wanted)]
      <4>1. t.state = "downloading" /\ t.progress.num = b.total_wanted_done /\ t.progress.den = b.total_wanted
        BY <3>3, <1>4
      <4> QED
        BY <4>1, <1>3, <2>2, <2>3
    <3>4. CASE t = [state |-> "finished", progress |-> Fraction(1, 1)] /\ ~(b.total_wanted_done < b.total_wanted)
      <4>1. t.state = "finished" /\ t.progress.num = 1 /\ t.progress.den = 1
        BY <3>4, <1>4
      <4> QED
        BY <4>1, <3>4, <1>3, <2>2, <2>3
    <3> QED
      BY <2>5, <3>1, <3>2, <3>3, <3>4
  <2> QED
    BY <1>2, <1>3, <2>2, <2>3, <2>6 DEF HasNumbers, IsCounted
<1> QED
  BY <1>5, <1>6, <1>7

\* So is the status of a torrent that is not there.
LEMMA AbsentKind == HasNumbers(Absent) /\ IsUnknown(Absent)
<1>1. /\ Absent.num = 0 /\ Absent.den = 1 /\ Absent.total = 0 /\ Absent.files = 0 /\ Absent.total_done = 0
      /\ Absent.total_wanted = 0 /\ Absent.total_wanted_done = 0 /\ Absent.rate = 0
  BY DEF Absent, Status, NoBytes, Fraction
<1> QED
  BY <1>1 DEF HasNumbers, IsUnknown

-----------------------------------------------------------------------------
(* The snapshot of a status *)

SnapshotFacts(st, snap) ==
    /\ snap.total \in Nat /\ snap.percent \in 0 .. 100
    /\ snap.state = StateOf(st) /\ snap.downloaded = st.total_done
    /\ snap.rate \in Nat
    /\ IsCounted(st) => snap.total = Size
    /\ IsUncounted(st) =>
          \/ snap.total = Size
          \/ snap.total = 0 /\ st.total_wanted = 0 /\ st.files = 0 /\ 1000 * st.num <= st.den
    /\ IsUnknown(st) => snap.total = 0
    /\ \/ snap.percent = Rounded(st)
       \/ /\ Rounded(st) = 0 /\ snap.total >= st.total_done
          /\ snap.percent * snap.total <= 100 * st.total_done
          /\ snap.percent >= 100 => st.total_done = snap.total

\* What the snapshot shows: the size, or nothing, and one of the two percentages.
LEMMA SnapshotOf ==
    ASSUME NEW st, HasNumbers(st), IsCounted(st) \/ IsUncounted(st) \/ IsUnknown(st)
    PROVE  SnapshotFacts(st, Counted(st))
<1> DEFINE early   == resolve_torrent_total(st, 0)
           late    == resolve_torrent_total(st, st.files)
           percent == Percent(Rounded(st), st.total_done, early)
           guess   == IF late <= 0 /\ percent > 0 /\ st.total_done > 0
                      THEN (st.total_done * 100) \div percent ELSE late
           total   == IF guess > 0 THEN guess ELSE early
<1>1. /\ Counted(st).state = StateOf(st) /\ Counted(st).downloaded = st.total_done
      /\ Counted(st).total = total
      /\ Counted(st).percent = Percent(percent, st.total_done, total)
      /\ Counted(st).rate \in Nat
  BY DEF Counted, HasNumbers
<1>2. Size \in Nat \ {0} /\ Size >= 1
  BY SizeAssumption DEF Size
<1>3. /\ Rounded(st) \in 0 .. 100
      /\ 2 * Rounded(st) * st.den <= 200 * st.num + st.den
  BY RoundedNearest DEF Rounded, HasNumbers
<1>4. CASE IsCounted(st)
  <2>1. early = Size /\ late = Size
    BY <1>2, <1>4 DEF resolve_torrent_total, IsCounted
  <2>2. total = Size
    BY <1>2, <2>1
  <2>3. st.total_done \in Nat /\ st.total_done <= Size
    BY <1>4 DEF IsCounted, HasNumbers
  <2>4. /\ (st.total_done * 100) \div Size \in 0 .. 100
        /\ ((st.total_done * 100) \div Size) * Size <= 100 * st.total_done
        /\ (st.total_done * 100) \div Size >= 100 => st.total_done = Size
    BY <1>2, <2>3, ShareOfBytes, Zenon
  <2>5. \/ Counted(st).percent = Rounded(st)
        \/ Rounded(st) = 0 /\ Counted(st).percent = (st.total_done * 100) \div Size
    BY <1>1, <2>1, <2>2 DEF Percent
  <2>6. ~IsUncounted(st) /\ ~IsUnknown(st)
    BY <1>2, <1>4 DEF IsCounted, IsUncounted, IsUnknown
  <2> HIDE DEF early, late, percent, guess, total
  <2> QED
    BY <1>1, <1>2, <1>3, <1>4, <2>2, <2>3, <2>4, <2>5, <2>6 DEF SnapshotFacts, HasNumbers
<1>5. CASE IsUncounted(st)
  <2>1. st.total_done \in Nat /\ st.total_done \in Nat \ {0} /\ st.total_done <= Size /\ st.num = st.total_done /\ st.den = Size
    BY <1>5 DEF IsUncounted, HasNumbers
  <2>2. (2 * st.total_done * st.den + st.num) \div (2 * st.num) = Size
    BY <1>2, <2>1, EstimateIsExact
  <2>3. early = IF st.total_wanted > 0 \/ st.num * 1000 > st.den THEN Size ELSE 0
    BY <1>2, <1>5, <2>1, <2>2 DEF resolve_torrent_total, IsUncounted
  <2>4. late = IF st.total_wanted > 0 \/ st.files > 0 \/ st.num * 1000 > st.den THEN Size ELSE 0
    BY <1>2, <1>5, <2>1, <2>2 DEF resolve_torrent_total, IsUncounted
  <2>5. ~(st.num * 1000 > st.den) => Rounded(st) = 0
    <3>1. SUFFICES ASSUME ~(st.num * 1000 > st.den), Rounded(st) >= 1 PROVE FALSE
      BY <1>3
    <3>2. 2 * Rounded(st) * st.den >= 2 * st.den
      BY <1>2, <1>3, <2>1, <3>1
    <3> QED
      BY <1>2, <1>3, <2>1, <3>1, <3>2
  <2>6. \/ total = Size
        \/ total = 0 /\ st.total_wanted = 0 /\ st.files = 0 /\ 1000 * st.num <= st.den /\ early = 0
    <3>1. CASE late = Size
      BY <1>2, <3>1
    <3>2. CASE late = 0 /\ st.total_wanted = 0 /\ st.files = 0 /\ ~(st.num * 1000 > st.den)
      <4>1. percent = 0
        BY <2>3, <2>5, <3>2 DEF Percent
      <4> QED
        BY <2>1, <1>2, <2>3, <3>2, <4>1
    <3> QED
      BY <1>2, <1>5, <2>4, <3>1, <3>2 DEF IsUncounted
  <2>7. /\ (st.total_done * 100) \div Size \in 0 .. 100
        /\ ((st.total_done * 100) \div Size) * Size <= 100 * st.total_done
        /\ (st.total_done * 100) \div Size >= 100 => st.total_done = Size
    BY <1>2, <2>1, ShareOfBytes, Zenon
  <2>8. \/ Counted(st).percent = Rounded(st)
        \/ Rounded(st) = 0 /\ total = Size /\ Counted(st).percent = (st.total_done * 100) \div Size
    <3>1. early \in {0, Size}
      BY <2>3
    <3>2. early = Size => total = Size
      BY <1>2, <2>3, <2>6
    <3>3. percent = Rounded(st) \/ (early = Size /\ Rounded(st) = 0 /\ percent = (st.total_done * 100) \div Size)
      BY <3>1 DEF Percent
    <3> QED
      BY <1>1, <2>6, <3>2, <3>3 DEF Percent
  <2>9. ~IsCounted(st) /\ ~IsUnknown(st)
    BY <1>2, <1>5 DEF IsCounted, IsUncounted, IsUnknown
  <2> HIDE DEF early, late, percent, guess, total
  <2> QED
    BY <1>1, <1>2, <1>3, <1>5, <2>1, <2>6, <2>7, <2>8, <2>9 DEF SnapshotFacts, HasNumbers
<1>6. CASE IsUnknown(st)
  <2>1. early = 0 /\ late = 0
    BY <1>6 DEF resolve_torrent_total, IsUnknown
  <2>2. total = 0
    BY <1>6, <2>1 DEF IsUnknown
  <2>3. Counted(st).percent = Rounded(st)
    BY <1>1, <2>1, <2>2 DEF Percent
  <2>4. ~IsCounted(st) /\ ~IsUncounted(st)
    BY <1>2, <1>6 DEF IsCounted, IsUncounted, IsUnknown
  <2> HIDE DEF early, late, percent, guess, total
  <2> QED
    BY <1>1, <1>3, <1>6, <2>2, <2>3, <2>4 DEF SnapshotFacts, HasNumbers
<1> QED
  BY <1>4, <1>5, <1>6

\* The snapshot of a status that was found, present or not.
LEMMA FoundSnapshot ==
    ASSUME NEW st \in Statuses \cup {Absent}
    PROVE  SnapshotFacts(st, Counted(st)) /\ HasNumbers(st)
  BY StatusKinds, AbsentKind, SnapshotOf

\* Every status has one of the client's states.
LEMMA StateOfType == \A st : StateOf(st) \in States
  BY DEF StateOf, map_state, States

-----------------------------------------------------------------------------
(* The notifications *)

\* Who is at work in the cache was seen at work since it appeared.
NoticeInv == TypeOK /\ \A t \in Torrent : cache[t] \in Active => t \in worked

\* The types hold for every set of statuses found.
LEMMA FoundTypes ==
    ASSUME \A t \in Torrent : status[t] \in Statuses \cup {Absent}
    PROVE  \A t \in Torrent : Snap(t).total \in Nat /\ Snap(t).percent \in 0 .. 100
  BY FoundSnapshot DEF Snap, SnapshotFacts

\* Nothing was seen when the program starts.
LEMMA NoticeInit == Init => NoticeInv
<1> SUFFICES ASSUME Init PROVE NoticeInv
  OBVIOUS
<1>1. \A t \in Torrent : status[t] \in Statuses \cup {Absent} /\ cache[t] = "none"
  BY DEF Init
<1>2. \A t \in Torrent : Snap(t).total \in Nat /\ Snap(t).percent \in 0 .. 100
  BY <1>1, FoundTypes
<1> QED
  BY <1>1, <1>2 DEF Init, NoticeInv, TypeOK, Active

\* A poll, and clearing the message, keep what is known of the cache.
LEMMA NoticeNext == NoticeInv /\ [Next]_vars => NoticeInv'
<1> SUFFICES ASSUME NoticeInv, [Next]_vars PROVE NoticeInv'
  OBVIOUS
<1>1. ASSUME NEW found \in [Torrent -> Statuses \cup {Absent}], Poll(found) PROVE NoticeInv'
  <2>1. \A t \in Torrent : status'[t] \in Statuses \cup {Absent}
    BY <1>1 DEF Poll
  <2>2. \A t \in Torrent : Counted(status'[t]).total \in Nat /\ Counted(status'[t]).percent \in 0 .. 100
    BY <2>1, FoundSnapshot DEF SnapshotFacts
  <2>3. cache' \in [Torrent -> States \cup {"none"}]
    <3>1. \A t \in Torrent : found[t] # Absent => Counted(found[t]).state \in States
      BY FoundSnapshot, StateOfType DEF SnapshotFacts
    <3>2. \A t \in Torrent : Cached(t, found[t]) \in States \cup {"none"}
      BY <3>1 DEF Cached
    <3> QED
      BY <1>1, <3>2 DEF Poll
  <2>4. message' \in Torrent \cup {NoTorrent} /\ worked' \subseteq Torrent
    BY <1>1 DEF Poll, NoticeInv, TypeOK
  <2>5. \A t \in Torrent : cache'[t] \in Active => t \in worked'
    BY <1>1 DEF Poll, Cached, Active
  <2> QED
    BY <2>1, <2>2, <2>3, <2>4, <2>5 DEF NoticeInv, TypeOK, Snap
<1>2. CASE ClearNotification \/ UNCHANGED vars
  BY <1>2 DEF ClearNotification, vars, NoticeInv, TypeOK, Snap
<1> QED
  BY <1>1, <1>2 DEF Next

\* Every total is a number, every percentage within 0 and 100, and the cache holds states
\* (detectCompletionNotifications and snapshot_from_status).
THEOREM TypeCorrect == Spec => []TypeOK
<1>1. NoticeInv => TypeOK
  BY DEF NoticeInv
<1> QED
  BY <1>1, NoticeInit, NoticeNext, PTL DEF Spec

\* The percentage is honest for every file size (session_manager.cpp, lines 134-138, 210-213).
THEOREM PercentIsHonest == Spec => []PercentHonest
<1>1. TypeOK => PercentHonest
  <2> SUFFICES ASSUME TypeOK, NEW t \in Torrent
               PROVE  LET st == status[t]
                          p == Snap(t).percent
                      IN  \/ 2 * p * st.den \in 200 * st.num - st.den .. 200 * st.num + st.den
                          \/ 200 * st.num < st.den /\ p * Snap(t).total <= 100 * st.total_done
    BY DEF PercentHonest
  <2> DEFINE st == status[t]
             snap == Counted(st)
  <2>1. SnapshotFacts(st, snap) /\ HasNumbers(st)
    BY FoundSnapshot DEF TypeOK
  <2>2. /\ Rounded(st) \in 0 .. 100
        /\ 2 * Rounded(st) * st.den <= 200 * st.num + st.den
        /\ 200 * st.num - st.den < 2 * Rounded(st) * st.den
    BY <2>1, RoundedNearest DEF Rounded, HasNumbers
  <2>3. CASE snap.percent = Rounded(st)
    BY <2>1, <2>2, <2>3 DEF Snap, HasNumbers
  <2>4. CASE Rounded(st) = 0 /\ snap.percent * snap.total <= 100 * st.total_done
    BY <2>1, <2>2, <2>4 DEF Snap, HasNumbers
  <2> QED
    BY <2>1, <2>3, <2>4 DEF SnapshotFacts
<1> QED
  BY <1>1, TypeCorrect, PTL

\* The total is never less than the bytes there are, or unknown (lines 101-121, 203-209).
THEOREM TotalCovers == Spec => []TotalCoversDownloaded
<1>1. TypeOK => TotalCoversDownloaded
  <2> SUFFICES ASSUME TypeOK, NEW t \in Torrent, Present(t)
               PROVE  LET st == status[t]
                          total == Snap(t).total
                      IN  /\ total >= Snap(t).downloaded \/ total = 0
                          /\ total = 0 => st.total = 0 /\ st.total_wanted = 0 /\ st.files = 0 /\ 1000 * st.num <= st.den
                          /\ st.state = "downloading_metadata" => total = 0
    BY DEF TotalCoversDownloaded
  <2> DEFINE st == status[t]
  <2>1. st \in Statuses
    BY DEF TypeOK, Present
  <2>2. SnapshotFacts(st, Snap(t)) /\ HasNumbers(st)
    BY <2>1, FoundSnapshot DEF Snap
  <2>3. Size \in Nat /\ Size >= 1
    BY SizeAssumption DEF Size
  <2>4. CASE IsCounted(st)
    BY <2>2, <2>3, <2>4 DEF SnapshotFacts, IsCounted, HasNumbers
  <2>5. CASE IsUncounted(st)
    BY <2>2, <2>3, <2>5 DEF SnapshotFacts, IsUncounted, HasNumbers
  <2>6. CASE IsUnknown(st)
    BY <2>2, <2>6 DEF SnapshotFacts, IsUnknown, HasNumbers
  <2> QED
    BY <2>1, <2>4, <2>5, <2>6, StatusKinds
<1> QED
  BY <1>1, TypeCorrect, PTL

\* The remaining time is what the missing bytes take, and bounded (lines 67-90).
THEOREM EtaIsHonest == Spec => []EtaHonest
<1>1. TypeOK => EtaHonest
  <2> SUFFICES ASSUME TypeOK, NEW t \in Torrent, Present(t), compute_eta_seconds(Snap(t)) # -1
               PROVE  LET eta == compute_eta_seconds(Snap(t))
                          snap == Snap(t)
                      IN  /\ eta \in 0 .. MaxEtaSeconds
                          /\ snap.state \in Active /\ snap.percent < 100
                          /\ eta * snap.rate <= snap.total - snap.downloaded
                          /\ (eta + 1) * snap.rate > status[t].total_wanted - status[t].total_wanted_done
    BY DEF EtaHonest
  <2> DEFINE st == status[t]
             snap == Snap(t)
             left == snap.total - snap.downloaded
             eta == compute_eta_seconds(snap)
  <2>1. st \in Statuses
    BY DEF TypeOK, Present
  <2>2. SnapshotFacts(st, snap) /\ HasNumbers(st)
    BY <2>1, FoundSnapshot DEF Snap
  <2>3. /\ snap.state \in {"Downloading", "Checking"} /\ ~(snap.percent >= 100)
        /\ ~(snap.rate < MinEtaRate) /\ ~(snap.total <= snap.downloaded)
        /\ eta = left \div snap.rate /\ ~(left \div snap.rate > MaxEtaSeconds)
    BY DEF compute_eta_seconds
  <2>4. snap.total \in Nat /\ snap.downloaded \in Nat /\ snap.rate \in Nat /\ snap.percent \in 0 .. 100
    BY <2>2 DEF SnapshotFacts, HasNumbers
  <2>5. left \in Nat /\ snap.rate \in Nat \ {0}
    BY <2>3, <2>4, EtaAssumption
  <2>6. eta \in Nat /\ snap.rate * eta <= left /\ left < snap.rate * eta + snap.rate
    BY <2>3, <2>5, Division
  <2>7. st.total_wanted - st.total_wanted_done <= left
    <3>1. CASE IsCounted(st)
      BY <2>2, <3>1 DEF SnapshotFacts, IsCounted
    <3>2. CASE IsUncounted(st) \/ IsUnknown(st)
      BY <2>2, <2>5, <3>2 DEF SnapshotFacts, IsUncounted, IsUnknown
    <3> QED
      BY <2>1, <3>1, <3>2, StatusKinds
  <2>8. st.total_wanted \in Nat /\ st.total_wanted_done \in Nat
    BY <2>2 DEF HasNumbers
  <2>9. (eta + 1) * snap.rate = snap.rate * eta + snap.rate /\ eta * snap.rate = snap.rate * eta
    BY <2>5, <2>6
  <2>10. snap.state \in Active /\ snap.percent < 100
    BY <2>3, <2>4 DEF Active
  <2>11. eta <= MaxEtaSeconds
    BY <2>3, <2>6, EtaAssumption
  <2> HIDE DEF eta, left, snap, st
  <2>12. /\ eta \in 0 .. MaxEtaSeconds
         /\ eta * snap.rate <= left
         /\ (eta + 1) * snap.rate > st.total_wanted - st.total_wanted_done
    BY <2>5, <2>6, <2>7, <2>8, <2>9, <2>11, EtaAssumption
  <2> QED
    BY <2>10, <2>12 DEF eta, left, snap, st
<1> QED
  BY <1>1, TypeCorrect, PTL

\* Each torrent without error is under exactly one filter (torrent_filter.hpp, lines 9-35).
THEOREM FiltersArePartition == Spec => []FiltersPartition
<1>1. FiltersPartition
  <2> SUFFICES ASSUME NEW t \in Torrent, Snap(t).state # "Error"
               PROVE  \E f \in {"downloading", "seeding", "paused"} :
                          \A g \in {"downloading", "seeding", "paused"} : torrent_matches_filter(Snap(t), g) <=> g = f
    BY DEF FiltersPartition
  <2> DEFINE snap == Snap(t)
  <2>1. /\ torrent_matches_filter(snap, "downloading")
              <=> snap.state \notin {"Paused", "Error"} /\ ~is_complete_seeding(snap)
        /\ torrent_matches_filter(snap, "seeding") <=> is_complete_seeding(snap)
        /\ torrent_matches_filter(snap, "paused") <=> snap.state = "Paused"
    BY DEF torrent_matches_filter
  <2>2. is_complete_seeding(snap) => snap.state = "Seeding"
    BY DEF is_complete_seeding
  <2> HIDE DEF snap
  <2>3. CASE snap.state = "Paused"
    <3> WITNESS "paused" \in {"downloading", "seeding", "paused"}
    <3> QED
      BY <2>1, <2>2, <2>3 DEF snap
  <2>4. CASE is_complete_seeding(snap)
    <3> WITNESS "seeding" \in {"downloading", "seeding", "paused"}
    <3> QED
      BY <2>1, <2>2, <2>4 DEF snap
  <2>5. CASE snap.state # "Paused" /\ ~is_complete_seeding(snap)
    <3> WITNESS "downloading" \in {"downloading", "seeding", "paused"}
    <3>1. snap.state # "Error"
      BY DEF snap
    <3> QED
      BY <2>1, <2>5, <3>1 DEF snap
  <2> QED
    BY <2>3, <2>4, <2>5
<1> QED
  BY <1>1, PTL

\* Only a torrent of the list can be named by a new message, and by a poll that found it.
LEMMA AnnouncedBy ==
    ASSUME TypeOK, [Next]_vars, NEW t \in Torrent, message' = t, message # t
    PROVE  status'[t] \in Statuses /\ cache[t] \in Active /\ NowComplete(Counted(status'[t]))
<1>1. ~ClearNotification /\ ~UNCHANGED vars
  BY TorrentAssumption DEF ClearNotification, vars
<1>2. PICK found \in [Torrent -> Statuses \cup {Absent}] : Poll(found)
  BY <1>1 DEF Next
<1>3. Announces(t, found[t])
  BY <1>2 DEF Poll
<1> QED
  BY <1>2, <1>3 DEF Poll, Announces

\* Only a torrent seen at work is announced (app_controller.cpp, lines 614-634).
THEOREM AnnouncedWorked == Spec => AnnouncedHasWorked
<1>1. NoticeInv /\ [Next]_vars => [\A t \in Torrent : message' = t /\ message # t => t \in worked]_vars
  <2> SUFFICES ASSUME NoticeInv, [Next]_vars, NEW t \in Torrent, message' = t, message # t PROVE t \in worked
    OBVIOUS
  <2> QED
    BY AnnouncedBy DEF NoticeInv
<1> QED
  BY <1>1, NoticeInit, NoticeNext, PTL DEF Spec, AnnouncedHasWorked

\* Nothing unfinished is announced, but for the last half percent and a check of the files (lines
\* 614-624).
THEOREM AnnouncedDone == Spec => AnnouncedIsNearlyDone
<1>1. TypeOK /\ [Next]_vars =>
        [\A t \in Torrent : message' = t /\ message # t =>
            NearlyDone(status'[t]) \/ status'[t].state = "checking_files"]_vars
  <2> SUFFICES ASSUME TypeOK, [Next]_vars, NEW t \in Torrent, message' = t, message # t
               PROVE  NearlyDone(status'[t]) \/ status'[t].state = "checking_files"
    OBVIOUS
  <2> DEFINE st == status'[t]
             snap == Counted(st)
  <2>1. st \in Statuses /\ NowComplete(snap)
    BY AnnouncedBy
  <2>2. SnapshotFacts(st, snap) /\ HasNumbers(st)
    BY <2>1, FoundSnapshot
  <2>3. CASE st.total_wanted = 0
    BY <2>2, <2>3 DEF NearlyDone, HasNumbers
  <2>4. CASE IsUncounted(st) /\ st.total_wanted # 0
    <3>1. snap.state # "Seeding"
      BY <2>2, <2>4 DEF SnapshotFacts, StateOf, map_state, IsUncounted
    <3>2. snap.percent >= 100 /\ snap.percent \in 0 .. 100 /\ Size \in Nat
      BY <2>1, <2>2, <3>1, SizeAssumption DEF NowComplete, SnapshotFacts, Size
    <3>3. /\ Rounded(st) \in 0 .. 100
          /\ 2 * Rounded(st) * st.den <= 200 * st.num + st.den
      BY <2>2, RoundedNearest DEF Rounded, HasNumbers
    <3>4. CASE Rounded(st) = 100
      <4>1. 200 * st.den <= 200 * st.num + st.den
        BY <2>2, <3>3, <3>4 DEF HasNumbers
      <4> QED
        BY <2>2, <2>4, <3>2, <4>1 DEF IsUncounted, HasNumbers, NearlyDone
    <3>5. CASE st.total_done = snap.total
      BY <2>2, <2>4, <3>2, <3>5 DEF SnapshotFacts, IsUncounted, HasNumbers, NearlyDone
    <3> QED
      BY <2>2, <3>2, <3>3, <3>4, <3>5 DEF SnapshotFacts
  <2>5. CASE IsCounted(st)
    <3>1. CASE st.state = "finished" /\ st.total_wanted_done = st.total_wanted
      BY <2>2, <3>1 DEF NearlyDone, HasNumbers
    <3>2. CASE st.state # "finished" /\ st.state # "checking_files"
      <4>1. st.state \in {"checking_resume_data", "downloading"}
        BY <2>5, <3>2 DEF IsCounted
      <4>2. snap.state # "Seeding"
        BY <2>2, <4>1 DEF SnapshotFacts, StateOf, map_state
      <4>3. snap.percent >= 100 /\ snap.percent \in 0 .. 100
        BY <2>1, <2>2, <4>2 DEF NowComplete, SnapshotFacts
      <4>4. /\ Rounded(st) \in 0 .. 100
            /\ 2 * Rounded(st) * st.den <= 200 * st.num + st.den
        BY <2>2, RoundedNearest DEF Rounded, HasNumbers
      <4>5. CASE Rounded(st) = 100
        <5>1. 200 * st.den <= 200 * st.num + st.den
          BY <2>2, <4>4, <4>5 DEF HasNumbers
        <5> QED
          BY <2>2, <2>5, <3>2, <5>1 DEF IsCounted, HasNumbers, NearlyDone
      <4>6. CASE st.total_done = snap.total
        <5>1. st.total_done = Size /\ st.total_wanted_done = st.total_wanted
          BY <2>2, <2>5, <4>6 DEF SnapshotFacts, IsCounted, HasNumbers
        <5> QED
          BY <2>2, <5>1 DEF NearlyDone, HasNumbers
      <4> QED
        BY <2>2, <4>3, <4>4, <4>5, <4>6 DEF SnapshotFacts
    <3> QED
      BY <2>5, <3>1, <3>2 DEF IsCounted
  <2> QED
    BY <2>1, <2>3, <2>4, <2>5, StatusKinds DEF IsUnknown
<1> QED
  BY <1>1, TypeCorrect, PTL DEF Spec, AnnouncedIsNearlyDone

=============================================================================
