# Torrin: verification development

Torrin is a desktop BitTorrent client: a Qt Quick user interface, a Qt-free engine
(`SessionManager`) with one worker thread, and libtorrent 2. This directory holds TLA+
models of it, the TLC configurations that check them, and TLAPS proofs. File names below
are relative to the repository; line numbers without a file are in
`src/core/session_manager.cpp`.

## 1. The system

### Parts, their state and their operations

| Part | State | Operations | What makes it hard |
|---|---|---|---|
| **Engine worker** (`SessionManager::Impl`) | command deque, `torrents` map (the library), `pending_magnets` (staged previews), `last_error`, `running_`/`stop` | API calls enqueue commands; every 50 ms the worker takes the whole queue as a batch, runs the staging commands of the batch, then its torrent operations (two passes), then pops and handles alerts, then refreshes every snapshot | three actors (UI thread, worker, libtorrent's thread), two mutexes, asynchronous removals, alerts about torrents that are gone, destroyed handles that throw |
| **Previews in the engine** | a key staged with a handle | begin (new torrent, torrent of the library, already staged), finalize, cancel; alerts and removals act on the same keys | the same torrent staged, listed, being removed and added again at once |
| **Seeding control** | `upload_stopped` in the entry, its copy in the snapshot, the upload limit in libtorrent | stop seeding, resume seeding, pause, resume | three copies of one fact, one of them persisted |
| **Persistence** | `torrents/<key>.resume`, `session.dat` | saved by `shutdown()` with a 5 s deadline, deleted by Remove, restored by `start()` | crashes, torn files, unanswered saves |
| **Snapshot arithmetic** (48-215) | none | state, total, percentage, ETA from a torrent status | rounding, division, unknown totals |
| **Session settings** | `Impl::settings` | clamped and applied from the UI thread | unsynchronised with the worker |
| **`info_hash_key`, `torrent_preview.cpp`** | none | hash to key, parse a .torrent or magnet | pure |
| **AppController: add preview** (700-975) | preview status, hash, files; poll (200 ms), timeout (90 s) and one-shot (250/300 ms) timers | load, poll, finalize, cancel | answers that arrive after the preview changed |
| **AppController: notifications** (601-635) | last seen state per torrent, one message slot | compare two polls | missed and repeated transitions |
| **AppController: operations** (1055-1201) | status text | enqueue, then read `last_error` 300 ms later | errors of other commands |
| **Settings** (280-339 of `app_controller.cpp`, `SettingsDialog.qml`) | properties, the store (QSettings) | load, edit, cancel, save | four copies of every setting (properties, store, `Impl::settings`, libtorrent's session) and an older fifth in `session.dat` |
| **TorrentListModel** (`src/models/torrent_list_model.cpp`) and the list's selection | items, filter, query, order, filtered rows; current row and selected hash | refresh (500 ms), filter, search, sort, select | rows are positions in a list that changes |
| QML views, screenshot mode, `main.cpp`, logging | - | presentation, wiring | - |

Interactions: AppController calls the engine's API from the UI thread; commands only
append to the queue under `command_mutex`. The worker is the only writer of the two maps,
under `mutex`; the UI copies them under it (`snapshots()`, `magnet_preview()`,
`take_last_error()`). The worker calls libtorrent synchronously, except that
`remove_torrent` is posted; libtorrent answers through its alert queue. There is one
engine per process: AppController's constructor starts it and its destructor shuts it
down, so a restart is a new process.

### What makes each part correct

* *Engine worker*: commands run once and in a documented order; no removed torrent stays
  in a map; no torrent of the session is lost to the client; nobody waits for ever.
* *Previews*: hidden until finalized; a cancelled one leaves nothing behind.
* *Seeding control*: the three copies agree, or disagree only while a removal is under way.
* *Persistence*: what is removed is not restored; shutdown ends.
* *Error slot*: an error is shown until read.
* *Add preview*: what is shown and accepted belongs to the link in the field; nothing stays
  staged that nobody will cancel; what is accepted reaches the library; no preview loads for ever.
* *Snapshot arithmetic*: no percentage, total or remaining time that the torrent's bytes contradict.
* *Notifications*: each announced torrent was at work and is done.
* *Settings*: libtorrent does what the store says; cancelled edits never come back.
* *Torrent list*: rows are what filter, search and order choose; what a shortcut acts on is what the
  user sees selected.

The hazards behind these, each at its line, are in `PROJECT.json`.

## 2. Modules

| Module | Contents |
|---|---|
| `SessionManager.tla` | the engine, its client, libtorrent as far as the engine relies on it, the files, crash and restart; its properties |
| `CommandLanes.tla` | abstract specification: what the engine promises about accepted commands: two lanes of command numbers, each first in, first out |
| `SessionManagerLanes.tla` | the refinement mapping; `ImplementsLanes` says `SessionManager` implements `CommandLanes`, `QueuedOnce` that the mapping loses no copy of a command |
| `AddPreview.tla` | the add dialogs and AppController's preview, composed with the engine's staging commands and alerts |
| `PreviewLifecycle.tla` | abstract specification: what the dialogs promise about the preview they show |
| `AddPreviewLifecycle.tla` | `ImplementsLifecycle`: `AddPreview` implements `PreviewLifecycle` |
| `TorrentList.tla` | TorrentListModel and the list view's current row over the engine's changing snapshots |
| `SnapshotRules.tla` | operators for state, total, percentage, ETA and filters of a snapshot |
| `Notifications.tla` | statuses a torrent can have, polled; the completion message; the properties of `SnapshotRules` |
| `Settings.tla` | settings in all their copies, saving in three steps, restart and crash |
| `MCSessionManager`, `MCAddPreview`, `MCTorrentList` | instances for TLC: symmetry, queue bounds, ranks |
| `SessionManagerProofs`, `LibraryProofs`, `EntryProofs` | theorems about the engine and their proofs (section 5), each module on top of the one before: types and lanes; which torrents are in the maps; flags, limits and resume files |
| `AddPreviewProofs`, `LifecycleProofs`, `TorrentListProofs`, `SettingsProofs`, `NotificationsProofs` | theorems about the other components and their proofs |

### State of `SessionManager` and the code

`commands`, `torrents`, `pending`, `last_error`, `running` are the members of that name
(`pending` is `pending_magnets`). `batch`, `at` and `phase` are the worker's local batch,
its loop index and its place in the loop; `popped` is what is left of the vector
`pop_alerts` filled. `worker` is `"blocked"` while the worker waits for a mutex it holds and
`"terminated"` after an exception left the thread function. `ui` is `"clearing"` between the
two critical sections of `begin_magnet_preview`, `"frozen"` in a poll that cannot lock,
`"joining"` in `shutdown()`. `sent` numbers the commands. `tor`, `posted`, `alerts` are
libtorrent's torrent objects, posted removals and alert queue. `files`, `dat` are the resume
files and `session.dat`; `saving` is the set of torrents `pending_resume_saves` counts.

A torrent object is `live` in the session, `dying` (removed, still referenced, its handle
still valid), or `gone`. Handles are never reused; adding a hash that is in the session returns its torrent.

### Granularity

A worker step is one command, one alert, or one refresh of all snapshots. Only the worker
writes the two maps, and the UI only copies them, so finer steps on them would not be
observable, with three exceptions the model has: `begin_magnet_preview`'s two critical
sections; libtorrent destroying a torrent between `is_valid()` and a later call
(`HandleThrows`, and the disjuncts of `UpdateEntry` for a dying torrent); and the second
lock of a mutex already held (`SetErrorUnderLock`, `BeginStagedAgain`). That lock is undefined
behaviour in C++; the constant `Relock` lists the outcomes considered, `"blocks"` (what
pthread mutexes do) and `"succeeds"`.

### Abstractions

An info hash is a model value (keys are lower case by `info_hash_key`); a preview is the
handle it is staged with; a snapshot is what the engine decides on: paused, complete and
seeding (`is_complete_seeding`), or neither, and `upload_stopped`. `AddMagnet` and `AddFile`
differ in parsing only and are one command `Add`; `Adjust` stands for reannounce, file
priority and sequential download, which change none of this state. `last_error` holds the
number of the command that failed. The failures of `ensure_save_path`, of parsing and of
`add_torrent` are one action, `StageFails`.

### `AddPreview` and the code

`status`, `hash`, `files` are `add_preview_status_`, `add_preview_info_hash_`, `add_preview_files_`;
`polling`, `timing` say that the 200 ms and 90 s timers run, `checks` counts the one-shot 250 ms timers still to
fire, `debounce` is `MagnetAddDialog.qml`'s 600 ms timer and `field` its text. `ui` is `"beginning"` between the two
critical sections of `begin_magnet_preview` and `"polled"` or `"missing"` between the poll a check makes and its
`take_last_error()`: the worker runs in between. The engine is `SessionManager` reduced to what the dialogs can tell
apart: `commands` with the running batch at its head, `staged` and `listed` (its two maps), `live` and `known` torrents of the session
and the alert queue. Handles are not kept: an entry of a torrent that is not `live` has a handle that is still valid or not, either at each
use (`Found`, `Lost`), and `List` and `Update` are `update_entry` with either. All its commands here are staging commands, so one lane is enough, and the order `ImplementsLanes`
proves for that lane is the order used.

Actions: `OpenMagnet`, `Edit`, `DebounceFires`, `Submit`, `SubmitRefused`, `Close` (magnet dialog); `OpenFile`,
`SubmitFile` (file dialog); `AddDirect` (a magnet passed without a preview); `PollTimer`, `CheckPolls`, `CheckReads`,
`CheckTakesError`, `TimeoutFires`, `ResultCheck` (timers); `BeginReturns` (the second half of a load); the rest is the worker and libtorrent.
Two assumptions about time: the 250 ms checks of a preview fire before its 90 s timeout, and choosing a file in a
file dialog takes longer than the debounce and those checks.

What it shows of the code that no property states:

* Within 600 ms of an edit the preview of the link before is still ready, and Add accepts that torrent (`Submit`).
* A debounce that fires after the dialog was closed stages a preview behind it; the next open, load or close ends it.
* An error of another command is taken by the 250 ms check and shown as the preview's; it, a refused reload and the answer
  of an earlier load of the same link take the timers of a preview away (`spoiled`, `begun[h] > 1`).
* Cancelling a preview of a torrent that is listed removes that torrent from the session (909-914).
* A Finalize gives up on a torrent that is destroyed by then (877-881): one of the library, whose preview was cancelled and begun
  again while its entry was still there. Its preview stays staged (`missed`) until the removed alert of the cancel; begun again before that, it
  would hang or end the worker.
* An add that meets the removal of the same torrent is lost; `kept` is about torrents the user did not cancel.

### `TorrentList` and the code

`items`, `rows`, `filter`, `searching`, `by_date`, `ascending` are the model's members; `count` and `currentIndex` are
what Qt's list view keeps of it: a reset sets `count` to the number of rows, a `dataChanged` leaves it.
`selected` is `selectedInfoHash` of `TorrentListPane.qml`; `Sync` stands for what its handlers of `snapshotsUpdated`,
`activeFilterChanged`, `countChanged` and `currentIndexChanged` leave. `Rebuilt` is `rebuildFilteredRows` with `sortFilteredRows`: the set of the orders
`std::sort` may produce. A handler with the signals it emits is one step, since slots run inside `emit`.
Under a filter or search the view keeps blank rows or misses some until the next reset, the selection is a row and moves to
another torrent when a refresh or a sort moves torrents, and a context menu acts on the row it was opened on:
the model has the first two; none contradicts a promise of the repository.

### `SnapshotRules`, `Notifications` and the code

`SnapshotRules` is `map_state`, `resolve_torrent_total` (with `total_from_file_list`), `snapshot_from_status` and
`apply_snapshot_from_handle` (`Counted`), `compute_eta_seconds`, `is_complete_seeding` and `torrent_matches_filter`, over the record of libtorrent's `torrent_status` fields they read; a progress is a fraction and
its rounding exact. `Notifications` lets every poll find any status libtorrent can report (between two polls a torrent may do
anything) and is `detectCompletionNotifications` with `clearNotification`. Float rounding is left out.
What stays out of its properties because two polls cannot see it: a completion right after a pause or resume is missed; of two
completions in one poll one is shown; a torrent that stands at 99.5 % or more is announced early.

### `Settings` and the code

`props` are AppController's properties, `store` is QSettings, `settings` is `Impl::settings`, `session` the pack applied to
libtorrent and `session_file` the one `session.dat` keeps. `Save` writes the store, `Assign` and `Apply` are the two halves of
`set_session_settings`; the process may be killed between any two. `ReadLimit` and `SetLimit` are the worker's unlocked read of
`upload_rate_limit` and the use of it; on the supported builds reading an aligned `int` while it is written gives the old or the new value.
What it shows of the code that no property states: proxy type 0 is shown as SOCKS5 in the sheet and means no proxy to the engine; a
proxy port below 1024 is replaced by 6881; a torrent keeps the limit it was given when the global one changes;
an appearance edit applies at once and stays after Cancel until the sheet is reopened; a folder edit that was cancelled stays in its field.

### libtorrent (external)

Taken from how the code uses it: removals run in the order posted; calls that wait for the
network thread (`add_torrent`, `status`, `resume` followed by them) wait for what was posted before;
alerts are popped in the order posted; a torrent posts nothing after its removed alert;
removing an object twice posts the alert twice while the object exists. Completion, reports and
auto-management happen at any time, `MaxEvents` of them.

## 3. Properties

| Property | Says | Module lines it is about |
|---|---|---|
| `TypeOK` | types; a pass never runs past its batch | all |
| `NoGhost` | a handle listed or staged is of a live torrent, or the removed alert that clears it is in flight | 561-598, 640-701 |
| `GhostInv` | why: every unhandled alert of a dead torrent is followed by its removed alert; handles are kept under their own hash | 640-701 |
| `NoOrphan` | a live torrent is listed, staged, about to be removed, or about to be listed by its added alert | 664-670, 909-914 |
| `StoppedIsLimited` | a stopped flag is on a limited torrent, or its key is about to be cleared | 588-597, 1019-1068 |
| `FilesMatchLibrary` | at rest, a resume file that would be restored belongs to a listed torrent | 422-429, 1087-1096 |
| `FileInv` | why: while the engine runs, a torrent with such a file is alive under its key, and nothing posted or in flight removes it or its entry | 664-670, 1087-1096 |
| `ImplementsLanes` | each lane runs in order, operations never overtake earlier staging commands | 770-1101 |
| `QueuedOnce` | a command waits at one place: the batch taken is not in the queue any more | 771-780 |
| `RequestsServed`, `GhostsVanish`, `ShutdownReturns` | commands leave the queue, rows of removed torrents disappear, shutdown ends, unless the worker hung or died | 455-459, 664-670, 758 |
| `NeverThrottledUnseen` | no step makes a torrent that stays listed run at 1 byte/s without its stopped flag, but the preview commands that start it as it is | 588-597, 998-1068; 809, 885 |

`AddPreview` (lines of `src/app/app_controller.cpp` unless said otherwise):

| Property | Says | Lines |
|---|---|---|
| `FilesOfShown` | the files shown are those of the torrent shown; a loading preview shows none | 738-762 |
| `NeverSelfLocks` | the dialogs never begin a preview that is staged, which would hang the engine, unless a Finalize missed it | 711-736; engine 797-812 |
| `StagedIsKnown` | a hidden torrent is the one the controller remembers, or the command that ends it is queued, or a Finalize missed it and the removed alert that unstages it is to come | 711-725; engine 664-670, 877-881 |
| `AcceptedIsKept` | at rest, what the user accepted and did not cancel is listed | 957-974; engine 664-670 |
| `AcceptFindsTorrent` | finalize finds the torrent of the accepted preview, and the session has it; a link loaded twice is excepted, since the second load cancels the preview accepted | 950-974; engine 876-900 |
| `LoadingIsTimed` | a loading preview has its timeout running, with the exceptions above | 161-176, 876-895 |
| `ImplementsLifecycle` | `PreviewLifecycle`: ready never falls back to loading unless the link was loaded before, files never change, only a ready preview is accepted | 700-974 |

`TorrentList`: `RowsAreChosen` (rows are what filter, search and order choose, whichever setter or refresh came last),
`ViewFitsRows` (unfiltered, the view has a row for each torrent: a refresh compares only their number), `SelectionIsCurrentRow` (what the
shortcuts act on is the torrent of the current row), `FilterKeepsSelection` (a filter keeps the selection on a torrent it
shows), `TorrentsAppear` (every torrent gets its row; liveness).

`Notifications`: `PercentHonest`, `TotalCoversDownloaded`, `EtaHonest` (each number against a reference over the bytes; a total may be
unknown only without a total, without wanted bytes, without known files and with at most a thousandth of progress, where the code's estimate gives 0),
`FiltersPartition` (exactly one of the three filters shows a torrent without error), `AnnouncedIsNearlyDone`, `AnnouncedHasWorked`.

`Settings`: `SessionFollowsStore` (no save under way: libtorrent does what the store says), `SaveStoresEdits` (a save
stores only what was edited since the sheet was opened), `ThrottledAsSaved` (a limit is one that was saved).

Each of these modules has a `TypeOK`.

`ImplementsLanes` is also what the two passes do *not* promise: `CommandLanes` lets a staging
command overtake operations accepted before it, and the code does (Remove then Add of one
torrent in one batch runs Add first, then Remove). Its lanes are sets of numbers, so it alone would not see
a command that waits twice; with `QueuedOnce` a command leaves its lane the first time it runs, and runs once.

## 4. Runs

All runs of the engine use one hash. Everything in the engine is per key but the batch, the error slot and the alert queue,
which several torrent objects of one hash exercise already; `GhostInv` was also tried with two
hashes and is proved for any number. Torrent objects (`Handle`) are symmetric: no action
distinguishes them. Deadlock is not checked because the program really stops: a hung worker,
a terminated one, and the bounds of the model.

| Run | Client commands | Bounds | Shows |
|---|---|---|---|
| `engine_members` | begin, finalize, cancel, add, remove, pause | 4 commands, 4 torrent objects, 1 event | `TypeOK`, `NoGhost`, `GhostInv`, `NoOrphan`, `QueuedOnce`, `ImplementsLanes` |
| `engine_seeding` | begin, cancel, add, stop seeding, resume | 5 commands (at most 2 waiting), 2 objects, 2 events, relock blocks | `StoppedIsLimited` |
| `engine_restart` | all; no cancel of a preview of a listed torrent (`SparingSpec`) | 3 commands, 2 objects, 2 events, 2 restarts | `FileInv`, `FilesMatchLibrary`, `NoOrphan`, `NeverThrottledUnseen` |
| `engine_liveness` | begin, cancel, add, stop seeding, remove | 3 commands, 3 objects, 1 event | the three liveness properties |
| `preview_leak` | begin, cancel | 4 commands | violation of `PreviewHidden` |
| `ui_freeze` | add, stop seeding | 3 commands | violation of `UiNotFrozen` |
| `stopped_shown` | add, stop seeding | 2 commands, 2 events | violation of `SnapshotShowsStopped` |
| `error_slot` | begin | 2 commands | violation of `OwnErrorKept` |

Why these bounds: a torrent object per adding command is as many as can be created. Four
commands are enough for begin, cancel, begin and one more, the shortest histories in which a
stale removed alert meets a new torrent. The second case of `StoppedIsLimited` (the flag carried to a new
torrent while the removed alert of the old one is in flight) needs five commands (add, stop, begin, cancel, add)
and two events (the torrent is started and completes). Two restarts are enough to restore what an
earlier restore saved. `ShortQueue` bounds the waiting commands in `engine_seeding` at two, the least at
which the two passes reorder a batch.

Cancelling a preview of a torrent that is in the library removes it from the session but not its resume
file (909-914), so `FilesMatchLibrary` is false for a client that does so. `engine_restart` checks `SparingSpec`, whose steps are
those of `Next` but that cancel; its three commands are enough to add a torrent, let a restart save and restore it,
and stage and remove it. `FileInv` was also tried with four commands and three objects, and is proved for any number.

The other components:

| Run | Bounds | Why they are enough |
|---|---|---|
| `add_preview` | two torrents (interchangeable), 2 magnet previews, 1 other add, at most 4 waiting commands | two loads are the second load of one link, or the change from one link to another, with every answer, error, alert and timer of the first arriving late, and with the other add the shortest way to a preview its Finalize misses (beginning that one again takes a third load: tried with one torrent, and covered by the proof); 2.6 million states |
| `torrent_list` | three torrents, distinct names and dates in different orders, a query that matches two | rows of a removed, a new and an unchanged torrent, on both sides of the selection; the refresh sees the same number with other torrents; 240 thousand states |
| `notifications` | one torrent, files of 400 and 700 bytes, 0, 1, 2, 397, 398 or 400 bytes of the first, rates 0, 2, 7 | one byte is a quarter of a percent of the first file, so both sides of the rounding boundaries at 0.5 and 99.5 percent occur; the files together exceed 1000 bytes, so that a progress can be too small for the estimated total; rates on both sides of the least that gives an ETA and ETAs on both sides of the cap; torrents do not interact but in the one message |
| `settings` | 5 values entered, two limits, ports on both sides of 1024, one proxy host | five are enabling a proxy, its type, host and port, and switching it off, after which a stale host is in the session; 2.7 million states |

Deadlock is not checked in `add_preview` because its bounds end the behaviour; it is in the other three.

### Fairness

`FairSpec` assumes weak fairness of the worker's steps (its loop never waits but for mutexes and
libtorrent), of the UI thread between the two critical sections of one call, of libtorrent running
posted removals, and of `persist_state`'s deadline. Nothing makes the client call anything, a torrent
object be destroyed, or libtorrent answer a save request. `HandleThrows` is a step of the worker and
not fair by itself. `TorrentList` assumes weak fairness of `Refresh` only: a 500 ms repeating timer
(`app_controller.cpp`, constructor) in an event loop.

### Disagreements found

The four violation runs each quote the line they contradict in `PROJECT.json`:

1. *A cancelled preview is listed.* Cancel and begin of one magnet in quick succession (the
   dialog does this when the folder is edited): the first torrent's removed alert erases the
   second preview by key, and its added alert lists it, in upload mode, for good.
2. *The UI freezes.* Stop and resume seeding report refusals through `set_error` while holding the
   mutex it locks; so does a second begin of a staged magnet through `refresh_pending_preview`,
   which the dialogs do not cause (`NoSelfLock` is proved; its one exception is a preview left behind by a Finalize
   that came upon a destroyed torrent) but another client of the API would.
3. *The stopped state is not shown.* The refresh of all entries drops the snapshot's copy of
   `upload_stopped`, so the UI offers "Stop seeding" again, and pressing it leads to 2.
4. *An error is lost.* `begin_magnet_preview` enqueues first and clears the error slot afterwards.

## 5. Proofs

All proofs are for every value of the constants: any number of hashes, torrent objects, commands, events,
loads and restarts. They assume only the named `ASSUME`s of the modules, which TLC evaluates in the runs: the values
that stand for "none" are not members of the sets (`NoHandleAssumption`, `NoHashAssumption`, `TorrentAssumption`,
`HostAssumption`), bounds are natural numbers, hashes and torrents are finitely many, ports and limits are in their
ranges. Each invariant below was checked by TLC, as an invariant of a run's instance, before it was proved.

### The engine (`SessionManagerProofs`, `LibraryProofs`, `EntryProofs`)

* **`TypeCorrect`**: `TypeOK` is inductive by itself.
* **`NoGhostHolds`.** `NoGhost` is not inductive: after Remove or a cancel erased a key, an alert posted before re-inserts
  the dead torrent. `GhostInv` adds why that entry goes away again: in the alerts still to be handled (`PoppedClosed`)
  and those still in libtorrent's queue (`AlertsClosed`), each alert of a torrent that left the session has its removed
  alert behind it. The removed alert clears a key by hash, so handles have to be under their own hash (`KeysMatch`),
  and popped alerts exist in the alert phase only (`PumpOnlyInAlerts`). `KeepsGhostInv` does the steps
  that touch neither alerts nor handles; the handling of one alert and the destruction of one torrent are the two real cases.
* **`NoOrphanHolds`.** `OrphanInv` says that each live torrent not posted for removal is found under its key, or its added
  alert is popped and not yet handled; that among the alerts popped, and among those in the queue, each one about another torrent of
  its hash is followed by its own added alert (a removed alert of an earlier torrent behind it would erase the
  entry for good); and that nothing of its hash is posted for removal. `UniqueLive` (one live torrent per hash) and
  `RemovedIsDead` make the torrent the last word is about unique.
* **`StoppedIsLimitedHolds`.** A flag is only on a listed key, and only while the torrent is limited or the key is about to be
  cleared. The one step that could break it is `update_entry` carrying the flag over to another torrent (588-597): `HeldApart`
  shows, from `GhostInv`, that two torrents meet under one key only while the removed alert of one of them is in flight.
* **`FilesMatchLibraryHolds`** is about `SparingSpec`: every client, every operation, but no cancel of a preview of a listed torrent; the theorem
  says that this cancel is the only way to a file without a torrent. At rest is no place for an induction, so `FileInv` says what holds all
  the time the engine runs: a torrent with a whole file is `Settled`. That a listed torrent is alive is not enough: with a removal of
  its hash posted, or a removed alert in flight, even one of a predecessor, the entry would go and the file stay. Commands
  find the torrent of a settled key (`SettledIsFound`, from `OrphanInv`), so that Remove, the one command left that posts its
  removal, deletes its file with it; a cancel posts removals of torrents that are not listed and so have no file (`PostingFiles`), and restoring gives
  every file a fresh torrent.
* **`NeverThrottledUnseenHolds`** holds step by step: each operation acts on the torrent its key finds, and that is the listed one
  (`LiveIsFound`, from `OrphanInv`), so resuming lifts the limit of the very torrent it starts; `update_entry` carries the flag as long
  as the torrent stays (`UpdateEntryCarries`). `EmptyWhenOff` is the one more invariant it needs: no entry survives a process.
  The state version, that a limited torrent is never seen running, was the property at first and is false: a preview command starts a
  stopped torrent of the library (809, 885), and a torrent removed, added twice and stopped loses its entry to the late
  removed alert of its predecessor and is listed again, by its own added alert, without the flag.

* **`LanesImplemented`, `QueuedOnceHolds`.** The lanes are sets, so their order has to come from the numbers:
  `LaneInv` says that numbers grow along the batch and along the queue, that the batch is before the queue, and that the batch is empty
  outside the two passes. Then the command a pass has come to is the least of its lane, and an operation has no staging command before it,
  since the second pass begins when the first has run them all (`SecondPassLanes`).

### Add preview (`AddPreviewProofs`, `LifecycleProofs`)

`StagedKnown` and `NoSelfLock` rest on one invariant over the whole queue, `Known`: a torrent that is staged is the one the
controller remembers or a command that ends its preview is queued; the same holds for one that a queued Begin will stage;
and between two ways of staging one torrent lies a command that ends its preview. A command appended (`KnownAppend`,
`KnownBegin`), the first one consumed (`KnownConsume`) and a preview ended (`KnownUnstage`) each keep it, whatever the queue's length,
and every action is one of these or leaves queue, staged torrents and current preview alone.
A preview its Finalize missed has left the queue, so `Known` is about the others (`Lasting`); `DoomInv` says that whatever is staged or listed of a
torrent that left the session has its removed alert still to come, behind every added alert that could list it again, and that a
missed preview stays under such an alert even when its torrent is added anew.
`LoadingTimed` adds to the property that the poll timer runs together with the
timeout (`TimedInv`). `ShownFiles` needs only types.

* **`LifecycleImplemented`.** The hard step is a poll that finds a ready preview without files: the dialog would fall back to loading.
  `LifeInv` counts the ways a torrent was begun: a torrent that is staged, queued or queued again was begun at least as often, so
  that a preview that was answered once and has no files again was begun twice, the exception `PreviewLifecycle` states.
* **`AcceptedKept`.** `SessionInv` says that each torrent of the session is staged, listed, or has its added alert popped in this
  round, and that no removed alert is the last one about it (the alert-order part of `OrphanInv`, here with alerts by hash). At rest
  nothing is popped, and what is staged is known by `StagedKnown`.
* **`AcceptedIsFound`.** `AcceptInv` follows a torrent loaded once through the queue: what cancels it is before its Begin (`BegunLast`),
  so a preview that is ready is of a torrent of the session (`ReadyIsLive`), and nothing cancels it before its Finalize runs
  (`FinalizedIsLive`); by `SessionInv` it is then found.

### Torrent list (`TorrentListProofs`)

`ListInv` is `TypeOK`, `RowsAreChosen`, `ViewFitsRows` and `SelectionIsCurrentRow` together: the selection is read off the row,
so the view's count has to fit the rows, which have to be chosen, for the selection to be of a torrent that is there.
`RebuiltFacts` is what any order `std::sort` may produce has in common. `ChipKeepsSelection` is the action property.

### Settings (`SettingsProofs`)

`FollowInv` says what store, properties and `Impl::settings` have to do with each other at each point of a save; `SheetInv` that the
open sheet and the store differ in edited fields only; `LimitInv` that each copy of a limit, what the worker has read
included, is a saved one. `LoadedSame` says that loading what was saved changes nothing, clamping included.

### Snapshots and notifications (`NotificationsProofs`)

The theorems are for files of any two sizes, any byte counts of the first file, any rates and any bounds of the ETA. `RoundedNearest` states what
`Rounded` computes, as multiplications; `Division` what a quotient is. `StatusKinds` splits what libtorrent can report into
three: with totals (`IsCounted`), without a total, with or without wanted bytes (`IsUncounted`), with neither total nor bytes (`IsUnknown`); `SnapshotOf` says once what the
snapshot of each is (`SnapshotFacts`), and the theorems use only that. `EstimateIsExact` shows that the total estimated from an exact
progress is the size of the files, half-way rounding included. `NoticeInv` adds to the types that a torrent cached as active has been seen at work.

### Only model-checked

Every safety property of a passing run has a theorem. Liveness under fairness (`RequestsServed`, `GhostsVanish`, `ShutdownReturns`,
`TorrentsAppear`) is out of the prover's reach, as is anything with `ENABLED`. That the second file of a torrent is there whole or not at all is part of
`Notifications`, not of a bound.

## 6. Not modelled

* `info_hash_key` and `torrent_preview.cpp` turn bytes into keys, names and file lists: pure, without state, and
  what they compute is text.
* Logging, wording and formatting of status text and numbers, QML layout, the clipboard, opening folders.
* `toggle`, pause-all and resume-all of AppController: each issues the modelled operations one by one.
* Screenshot mode replaces the engine's snapshots with fixed demonstration data.
* `main.cpp` wires objects together; two processes sharing one directory are not considered (nothing in the code prevents it).
* `restore_torrents` failing to list its directory; a disk that is full in other ways than a torn write.
* Float rounding in percentages.

## 7. What is left of the plan

The order was: the engine and its refinement, its type and ghost invariants; the preview dialogs over the engine; the list;
snapshots and notifications; settings; the proofs of the engine's and the dialogs' properties, both refinements included. All of
that is done. What would come next:

1. A restart that finds previews staged: which of them come back as listed torrents, as a statement about `Start` and the saved
   files, without the premise of `SparingSpec`.
2. Steps between the parts: that `AddPreview`'s reduced engine is implemented by `SessionManager` for a client that stages only,
   with the reduction as a refinement mapping, in place of the prose of section 2.
3. `AddPreview`'s liveness: a loading preview becomes ready, fails or is dropped, under the fairness of its timers.
