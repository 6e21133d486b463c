--------------------------- MODULE SnapshotRules ----------------------------
(***************************************************************************)
(* What the client computes from a torrent's status: the snapshot of       *)
(* src/core/session_manager.cpp (state, total, percentage, ETA) and the    *)
(* tests of include/torrin/torrent_filter.hpp.                             *)
(*                                                                         *)
(* A status is a record with libtorrent's fields; its progress, a float    *)
(* there, is the fraction num/den, and files is the sum of the file sizes, *)
(* 0 as long as there is no metadata.                                      *)
(***************************************************************************)
EXTENDS Integers

CONSTANTS
    MinEtaRate,   \* kMinEtaRateBytesPerSec
    MaxEtaSeconds \* kMaxEtaSeconds

ASSUME EtaAssumption == MinEtaRate \in Nat \ {0} /\ MaxEtaSeconds \in Nat

States == {"Idle", "Checking", "Downloading", "Seeding", "Paused", "Error"}

map_state(s) ==
    CASE s = "checking_files" -> "Checking"
      [] s \in {"downloading", "checking_resume_data", "downloading_metadata"} -> "Downloading"
      [] s \in {"finished", "seeding"} -> "Seeding"
      [] OTHER -> "Idle"

\* The state of the snapshot: paused before error before the rest.
StateOf(st) == IF st.paused THEN "Paused" ELSE IF st.errc THEN "Error" ELSE map_state(st.state)

resolve_from_progress_first(st, files) ==
    IF st.num * 1000 > st.den /\ st.total_wanted_done > 0
    THEN (2 * st.total_wanted_done * st.den + st.num) \div (2 * st.num)
    ELSE IF st.total > 0 THEN st.total ELSE files

\* The first positive number of what libtorrent reports, else an estimate from the progress.
resolve_torrent_total(st, files) ==
    CASE st.total > 0 -> st.total
      [] st.total <= 0 /\ st.total_wanted > 0 -> st.total_wanted
      [] st.total <= 0 /\ st.total_wanted <= 0 /\ st.total_wanted_done > 0 -> st.total_wanted_done
      [] OTHER ->
            IF files > 0 THEN files
            ELSE IF st.num * 1000 > st.den /\ st.total_done > 0
                 THEN (2 * st.total_done * st.den + st.num) \div (2 * st.num)
                 ELSE 0

RoundedUp(st) == (100 * st.num) \div st.den + 1

RoundedTwice(st) == ((1000 * st.num + st.den) \div (2 * st.den) + 4) \div 5

\* static_cast<int>(progress * 100 + 0.5).
Rounded(st) == (200 * st.num + st.den) \div (2 * st.den)

\* A percentage of 0 is replaced by the share of the bytes, when there is one.
Percent(p, done, total) == IF p = 0 /\ total > 0 /\ done > 0 THEN (done * 100) \div total ELSE p

\* snapshot_from_status and apply_snapshot_from_handle, but for the ETA.
Counted(st) ==
    LET early   == resolve_torrent_total(st, 0)
        percent == Percent(Rounded(st), st.total_done, early)
        late    == resolve_torrent_total(st, st.files)
        guess   == IF late <= 0 /\ percent > 0 /\ st.total_done > 0
                   THEN (st.total_done * 100) \div percent ELSE late
        total   == IF guess > 0 THEN guess ELSE early
    IN  [state |-> StateOf(st),
         downloaded |-> st.total_done,
         total |-> total,
         percent |-> Percent(percent, st.total_done, total),
         rate |-> IF st.paused THEN 0 ELSE st.rate]

eta_uncapped(snap) ==
    IF \/ snap.state \notin {"Downloading", "Checking"}
       \/ snap.percent >= 100
       \/ snap.rate < MinEtaRate
       \/ snap.total <= snap.downloaded
    THEN -1
    ELSE (snap.total - snap.downloaded) \div snap.rate

compute_eta_seconds(snap) ==
    LET eta == (snap.total - snap.downloaded) \div snap.rate
    IN  IF \/ snap.state \notin {"Downloading", "Checking"}
           \/ snap.percent >= 100
           \/ snap.rate < MinEtaRate
           \/ snap.total <= snap.downloaded
        THEN -1
        ELSE IF eta > MaxEtaSeconds THEN -1 ELSE eta

is_complete_seeding(snap) == snap.state = "Seeding" /\ snap.percent >= 100

matches_by_percent(snap, filter) ==
    CASE filter = "downloading" -> snap.state \notin {"Paused", "Error"} /\ snap.percent < 100
      [] filter = "seeding" -> is_complete_seeding(snap)
      [] filter = "paused" -> snap.state = "Paused"
      [] OTHER -> TRUE

torrent_matches_filter(snap, filter) ==
    CASE filter = "downloading" -> snap.state \notin {"Paused", "Error"} /\ ~is_complete_seeding(snap)
      [] filter = "seeding" -> is_complete_seeding(snap)
      [] filter = "paused" -> snap.state = "Paused"
      [] OTHER -> TRUE

=============================================================================
