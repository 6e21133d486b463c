--------------------------- MODULE Notifications ----------------------------
(***************************************************************************)
(* Download-complete notifications: AppController compares the snapshots   *)
(* it polls with the states it saw in the poll before                      *)
(* (src/app/app_controller.cpp, detectCompletionNotifications), and shows  *)
(* one message in a banner (NotificationBanner.qml).                       *)
(*                                                                         *)
(* Between two polls a torrent may do anything, so a poll finds any status *)
(* libtorrent can report, or no torrent.  A torrent has a file of          *)
(* FirstSize bytes, which is wanted, and one of SecondSize, which may be.  *)
(***************************************************************************)
EXTENDS SnapshotRules

CONSTANTS
    Torrent,
    NoTorrent,
    FirstSize, SecondSize,
    Done,        \* bytes of the first file tried
    Rates        \* download rates tried

ASSUME TorrentAssumption == NoTorrent \notin Torrent
ASSUME SizeAssumption == FirstSize \in Nat \ {0} /\ SecondSize \in Nat \ {0}
ASSUME DoneAssumption == Done \subseteq 0 .. FirstSize /\ Rates \subseteq Nat

VARIABLES
    status,     \* what the last poll found of each torrent
    cache,      \* torrent_state_cache_, "none" where it has no entry
    message,    \* the torrent notification_message_ names
    worked      \* torrents seen downloading or checking since they appeared

vars == <<status, cache, message, worked>>

-----------------------------------------------------------------------------
(* libtorrent, external: the statuses a torrent can have *)

Size == FirstSize + SecondSize

Fraction(n, d) == [num |-> n, den |-> d]

\* first and second are the bytes there are of each file, both that the second is wanted.
Bytes(first, second, both) ==
    [total |-> Size, files |-> Size, total_done |-> first + second,
     total_wanted |-> IF both THEN Size ELSE FirstSize,
     total_wanted_done |-> IF both THEN first + second ELSE first]

\* Before the metadata.
NoBytes == [total |-> 0, files |-> 0, total_done |-> 0, total_wanted |-> 0, total_wanted_done |-> 0]

Known == {Bytes(a, b, both) : a \in Done, b \in {0, SecondSize}, both \in BOOLEAN}

\* A status that gives no total: what is wanted may be given instead, all of it, or be missing too.
Uncounted ==
    {[total |-> 0, files |-> f, total_done |-> a,
      total_wanted |-> w, total_wanted_done |-> IF w = 0 THEN 0 ELSE a] :
        a \in Done \ {0}, f \in {0, Size}, w \in {0, Size}}

\* A state with the progress of its task: fetching the wanted bytes, or checking the files.
Tasks(b) ==
    IF b = NoBytes THEN {[state |-> "downloading_metadata", progress |-> Fraction(0, 1)]}
    ELSE IF b \in Uncounted THEN {[state |-> "downloading", progress |-> Fraction(b.total_done, Size)]}
    ELSE {[state |-> "checking_files", progress |-> Fraction(c, FirstSize)] : c \in Done}
         \cup {[state |-> "checking_resume_data", progress |-> Fraction(0, 1)]}
         \cup (IF b.total_wanted_done < b.total_wanted
               THEN {[state |-> "downloading", progress |-> Fraction(b.total_wanted_done, b.total_wanted)]}
               ELSE {[state |-> "finished", progress |-> Fraction(1, 1)]})

Status(b, t, p, e, r) ==
    [state |-> t.state, num |-> t.progress.num, den |-> t.progress.den, paused |-> p, errc |-> e, rate |-> r,
     total |-> b.total, files |-> b.files, total_done |-> b.total_done,
     total_wanted |-> b.total_wanted, total_wanted_done |-> b.total_wanted_done]

StatusesWith(b) == {Status(b, t, p, e, r) : t \in Tasks(b), p \in BOOLEAN, e \in BOOLEAN, r \in Rates}

Statuses == UNION {StatusesWith(b) : b \in Known \cup Uncounted \cup {NoBytes}}

Absent == Status(NoBytes, [state |-> "absent", progress |-> Fraction(0, 1)], FALSE, TRUE, 0)

Present(t) == status[t] # Absent

Snap(t) == Counted(status[t])

TypeOK ==
    /\ \A t \in Torrent : status[t] \in Statuses \cup {Absent}
    /\ \A t \in Torrent : Snap(t).total \in Nat /\ Snap(t).percent \in 0 .. 100
    /\ cache \in [Torrent -> States \cup {"none"}]
    /\ message \in Torrent \cup {NoTorrent}
    /\ worked \subseteq Torrent

Init ==
    /\ status = [t \in Torrent |-> Absent]
    /\ cache = [t \in Torrent |-> "none"]
    /\ message = NoTorrent
    /\ worked = {}

-----------------------------------------------------------------------------
(* detectCompletionNotifications *)

NowCompleteEarly(snap) == snap.state = "Seeding" \/ snap.percent >= 99

NowComplete(snap) == snap.state = "Seeding" \/ snap.percent >= 100

Active == {"Downloading", "Checking"}

Announces(t, st) == st # Absent /\ cache[t] \in Active /\ NowComplete(Counted(st))

CachedForever(t, st) == IF st = Absent THEN cache[t] ELSE Counted(st).state

\* An entry of a torrent that is gone is erased.
Cached(t, st) == IF st = Absent THEN "none" ELSE Counted(st).state

\* The loop over the snapshots, in any order: the last torrent announced keeps the one message.
Poll(found) ==
    /\ status' = found
    /\ cache' = [t \in Torrent |-> Cached(t, found[t])]
    /\ LET announced == {t \in Torrent : Announces(t, found[t])}
       IN  IF announced = {} THEN UNCHANGED message ELSE message' \in announced
    /\ worked' = {t \in Torrent : found[t] # Absent /\ (t \in worked \/ cache'[t] \in Active)}

\* clearNotification, by a click or by the banner's timer.
ClearNotification ==
    /\ message # NoTorrent
    /\ message' = NoTorrent
    /\ UNCHANGED <<status, cache, worked>>

Next == (\E found \in [Torrent -> Statuses \cup {Absent}] : Poll(found)) \/ ClearNotification

Spec == Init /\ [][Next]_vars

-----------------------------------------------------------------------------
(* Properties *)

\* The percentage is that of the torrent's task to the nearest percent, and the share of its
\* bytes, rounded down, for a task that has only begun: 100 says that at most half a percent is
\* missing, or no byte (session_manager.cpp, lines 134-138 and 210-213).
PercentHonest ==
    \A t \in Torrent : Present(t) =>
        LET st == status[t]
            p == Snap(t).percent
        IN  \/ 2 * p * st.den \in 200 * st.num - st.den .. 200 * st.num + st.den
            \/ 200 * st.num < st.den /\ p * Snap(t).total <= 100 * st.total_done

\* A torrent is never shown with more bytes than it has, whether its total comes from the status's
\* own total, from its wanted bytes, from its files, from its progress or from the percentage shown
\* (lines 101-121 and 203-209; the third number tried there, wanted bytes done without wanted
\* bytes, is in no status).  The total is shown as 0, unknown, only for a status that gives none of
\* these, whose files are not known and whose progress is at most a thousandth; without metadata
\* it always is.
TotalCoversDownloaded ==
    \A t \in Torrent : Present(t) =>
        LET st == status[t]
            total == Snap(t).total
        IN  /\ total >= Snap(t).downloaded \/ total = 0
            /\ total = 0 => st.total = 0 /\ st.total_wanted = 0 /\ st.files = 0 /\ 1000 * st.num <= st.den
            /\ st.state = "downloading_metadata" => total = 0

\* A remaining time is shown to torrents that work on something only, is what the missing bytes
\* take at the current rate, is never too short for the wanted ones, and is bounded (lines 67-90).
EtaHonest ==
    \A t \in Torrent : Present(t) =>
        LET eta == compute_eta_seconds(Snap(t))
            snap == Snap(t)
        IN  eta # -1 =>
              /\ eta \in 0 .. MaxEtaSeconds
              /\ snap.state \in Active /\ snap.percent < 100
              /\ eta * snap.rate <= snap.total - snap.downloaded
              /\ (eta + 1) * snap.rate > status[t].total_wanted - status[t].total_wanted_done

\* Each torrent without error is under exactly one of the three filters, whatever its state,
\* percentage and pause say together (torrent_filter.hpp, lines 9-35).
FiltersPartition ==
    \A t \in Torrent : Present(t) /\ Snap(t).state # "Error" =>
        \E f \in {"downloading", "seeding", "paused"} :
            \A g \in {"downloading", "seeding", "paused"} : torrent_matches_filter(Snap(t), g) <=> g = f

\* The bytes the user wants are there, to half a percent.
NearlyDone(st) == 200 * st.total_wanted_done >= 199 * st.total_wanted

\* Nothing unfinished is announced, but for the last half percent and for a check of the files
\* that comes to its end (app_controller.cpp, lines 614-624).
AnnouncedIsNearlyDone ==
    [][\A t \in Torrent : message' = t /\ message # t =>
          NearlyDone(status'[t]) \/ status'[t].state = "checking_files"]_vars

\* Only a torrent seen at work since it appeared is announced: not one restored or added
\* complete, nor one added again (lines 614-634).
AnnouncedHasWorked == [][\A t \in Torrent : message' = t /\ message # t => t \in worked]_vars

=============================================================================
