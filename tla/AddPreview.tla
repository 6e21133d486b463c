----------------------------- MODULE AddPreview -----------------------------
(***************************************************************************)
(* Adding a torrent: the preview AppController keeps for the add dialogs   *)
(* (src/app/app_controller.cpp), MagnetAddDialog.qml and                   *)
(* TorrentAddDialog.qml, and the engine behind its command queue.          *)
(*                                                                         *)
(*   UI thread  user events; the 600 ms debounce of the magnet field; the  *)
(*              200 ms poll, the 90 s timeout and the 250 ms check of a    *)
(*              preview; the 300 ms error check after an add.              *)
(*   worker     runs the queued commands in order, then handles the alerts *)
(*              popped together, then refreshes the previews.              *)
(*                                                                         *)
(* The engine is SessionManager reduced to what the dialogs can tell apart.*)
(* All its commands here are staging commands, which run in the order      *)
(* accepted (CommandLanes).  There is at most one torrent of a hash in the *)
(* session, so handles are left out; a removal and its alert are one step, *)
(* because add_torrent waits for the removals posted before it.  libtorrent*)
(* destroys a removed torrent sooner or later: whether its handle is still *)
(* valid is open each time it is used.  Left to SessionManager are calls   *)
(* that throw in between (HandleThrows); left out is that a torrent removed*)
(* but not destroyed may still answer with its files.                      *)
(*                                                                         *)
(* A magnet URI is the hash it names, a file list is the hash of its       *)
(* torrent.  Two assumptions about time: the 250 ms checks fire before a   *)
(* 90 s timeout does, and choosing a .torrent file takes longer than the   *)
(* debounce and those checks.                                              *)
(***************************************************************************)
EXTENDS Naturals, Sequences

CONSTANTS
    Hash,       \* torrents the user may add
    NoHash,     \* the empty id, the empty field, the empty file list
    MaxLoads,   \* bound: magnet previews begun
    MaxAdds     \* bound: torrents added without a magnet preview

ASSUME NoHashAssumption == NoHash \notin Hash
ASSUME LoadsAssumption == MaxLoads \in Nat /\ MaxAdds \in Nat

VARIABLES
    dialog,      \* the open dialog
    field,       \* magnetField.text
    debounce,    \* previewDebounce is running
    ui,          \* where the UI thread is inside a call
    status,      \* add_preview_status_
    hash,        \* add_preview_info_hash_
    files,       \* add_preview_files_
    polling,     \* add_preview_poll_timer_ is running
    timing,      \* add_preview_timeout_timer_ is running
    checks,      \* 250 ms checks still to fire
    commands,    \* Impl::commands, the batch being run at its head
    phase,       \* where the worker is in its loop
    batch,       \* commands of this round still to run
    staged,      \* Impl::pending_magnets: absent, without files, with files
    listed,      \* Impl::torrents
    last_error,  \* Impl::last_error
    live,        \* torrents in libtorrent's session
    known,       \* those whose metadata is known
    alerts,      \* libtorrent's alert queue
    popped       \* how many of them pop_alerts returned and are still to handle

\* What the properties remember: previews begun, in all and of each
\* torrent, torrents added, the preview accepted last,
\* the torrents the session got from the user and was not told to cancel, those staged that a
\* Finalize missed, and that the current preview lost its timeout to an event that was not its own.
VARIABLES loads, begun, adds, accepted, kept, missed, spoiled

dialogVars == <<dialog, field, debounce>>
previewVars == <<status, hash, files, polling, timing>>
roundVars == <<phase, batch>>
engineVars == <<staged, listed, last_error>>
ltVars == <<live, known, alerts, popped>>
historyVars == <<loads, begun, adds, accepted, kept, missed, spoiled>>
uiVars == <<dialogVars, ui, previewVars, checks>>
vars == <<uiVars, commands, roundVars, engineVars, ltVars, historyVars>>

Id == Hash \cup {NoHash}

Command == [type : {"Begin", "Finalize", "Cancel", "Add"}, hash : Hash, load : 0 .. MaxLoads]

Cmd(type, h, n) == [type |-> type, hash |-> h, load |-> n]

\* last_error: none, the load whose begin failed, or an error of anything else.
NoError == 0
OtherError == MaxLoads + 1

Alert == [type : {"added", "removed"}, hash : Hash]

TypeOK ==
    /\ dialog \in {"closed", "magnet", "file"}
    /\ field \in Id
    /\ debounce \in BOOLEAN
    /\ ui \in {"free", "beginning", "polled", "missing"}
    /\ status \in {"idle", "loading", "ready", "error"}
    /\ hash \in Id
    /\ files \in Id
    /\ polling \in BOOLEAN
    /\ timing \in BOOLEAN
    /\ checks \in Nat
    /\ commands \in Seq(Command)
    /\ phase \in {"sleep", "commands", "alerts"}
    /\ batch \in 0 .. Len(commands)
    /\ staged \in [Hash -> {"no", "bare", "files"}]
    /\ listed \subseteq Hash
    /\ last_error \in NoError .. OtherError
    /\ live \subseteq Hash
    /\ known \subseteq Hash
    /\ alerts \in Seq(Alert)
    /\ popped \in 0 .. Len(alerts)
    /\ loads \in 0 .. MaxLoads
    /\ begun \in [Hash -> 0 .. MaxLoads]
    /\ adds \in 0 .. MaxAdds
    /\ accepted \in Id
    /\ kept \subseteq Hash
    /\ missed \subseteq Hash
    /\ spoiled \in BOOLEAN

Init ==
    /\ dialog = "closed" /\ field = NoHash /\ debounce = FALSE
    /\ ui = "free"
    /\ status = "idle" /\ hash = NoHash /\ files = NoHash
    /\ polling = FALSE /\ timing = FALSE
    /\ checks = 0
    /\ commands = <<>>
    /\ phase = "sleep" /\ batch = 0
    /\ staged = [h \in Hash |-> "no"]
    /\ listed = {}
    /\ last_error = NoError
    /\ live = {} /\ known = {}
    /\ alerts = <<>> /\ popped = 0
    /\ loads = 0 /\ begun = [h \in Hash |-> 0] /\ adds = 0 /\ accepted = NoHash
    /\ kept = {} /\ missed = {} /\ spoiled = FALSE

Staged(h) == staged[h] # "no"

-----------------------------------------------------------------------------
(* AppController: resetting, loading and polling a preview *)

CancelNothing(q) == q

\* The queue with the cancellation of the current preview, if there is one.
CancelCurrent(q) == IF hash = NoHash THEN q ELSE Append(q, Cmd("Cancel", hash, 0))

ForgetKeepsFiles(s) ==
    /\ status' = s
    /\ hash' = NoHash /\ UNCHANGED files
    /\ polling' = FALSE /\ timing' = FALSE

\* resetAddPreviewUi but for the cancellation.
Forget(s) ==
    /\ status' = s
    /\ hash' = NoHash /\ files' = NoHash
    /\ polling' = FALSE /\ timing' = FALSE

ClearForgets(s) == Forget(s) /\ UNCHANGED commands

Clear(s) == Forget(s) /\ commands' = CancelCurrent(commands)

\* loadMagnetPreview with a folder that does not exist, or a link that is none: only the status
\* changes.
LoadRefused ==
    /\ status' = "error"
    /\ UNCHANGED <<hash, files, polling, timing, ui, commands, loads, begun, spoiled>>

\* The URI does not parse, or begin_magnet_preview returns an error.
LoadFails ==
    /\ Clear("error")
    /\ UNCHANGED <<ui, loads, begun, spoiled>>

\* The command is queued; begin_magnet_preview has still to clear last_error.
LoadBegins(h) ==
    /\ loads < MaxLoads
    /\ loads' = loads + 1 /\ begun' = [begun EXCEPT ![h] = @ + 1]
    /\ status' = "loading" /\ hash' = h /\ files' = NoHash
    /\ polling' = FALSE /\ timing' = FALSE
    /\ commands' = Append(CancelCurrent(commands), Cmd("Begin", h, loads'))
    /\ ui' = "beginning"
    /\ spoiled' = FALSE

Load(h) == LoadRefused \/ LoadFails \/ LoadBegins(h)

BeginReturnsUntimed ==
    /\ ui = "beginning"
    /\ ui' = "free"
    /\ last_error' = NoError
    /\ polling' = TRUE
    /\ checks' = checks + 1
    /\ UNCHANGED <<dialogVars, status, hash, files, timing, commands, roundVars, staged, listed, ltVars, historyVars>>

BeginReturns ==
    /\ ui = "beginning"
    /\ ui' = "free"
    /\ last_error' = NoError
    /\ polling' = TRUE /\ timing' = TRUE
    /\ checks' = checks + 1
    /\ UNCHANGED <<dialogVars, status, hash, files, commands, roundVars, staged, listed, ltVars, historyVars>>

\* pollMagnetAddPreview: an answer without files leaves the preview loading.
PollPreview ==
    \/ /\ hash = NoHash
       /\ polling' = FALSE
       /\ UNCHANGED <<status, hash, files, timing>>
    \/ /\ hash # NoHash /\ ~Staged(hash)
       /\ UNCHANGED previewVars
    \/ /\ hash # NoHash /\ staged[hash] = "bare"
       /\ status' = "loading" /\ files' = NoHash
       /\ UNCHANGED <<hash, polling, timing>>
    \/ /\ hash # NoHash /\ staged[hash] = "files"
       /\ status' = "ready" /\ files' = hash
       /\ polling' = FALSE /\ timing' = FALSE
       /\ UNCHANGED hash

PollTimer ==
    /\ ui = "free" /\ polling
    /\ PollPreview
    /\ UNCHANGED <<dialogVars, ui, checks, commands, roundVars, engineVars, ltVars, historyVars>>

\* The 250 ms check of whatever preview is current, in three critical sections.
CheckPolls ==
    /\ ui = "free" /\ checks > 0
    /\ checks' = checks - 1
    /\ PollPreview
    /\ ui' = IF status' = "loading" THEN "polled" ELSE "free"
    /\ spoiled' = (spoiled \/ (status' = "loading" /\ ~timing))
    /\ UNCHANGED <<dialogVars, commands, roundVars, engineVars, ltVars, loads, begun, adds, accepted, kept, missed>>

CheckReads ==
    /\ ui = "polled"
    /\ ui' = IF Staged(hash) THEN "free" ELSE "missing"
    /\ UNCHANGED <<dialogVars, previewVars, checks, commands, roundVars, engineVars, ltVars, historyVars>>

CheckTakesError ==
    /\ ui = "missing"
    /\ ui' = "free"
    /\ last_error' = NoError
    /\ IF last_error = NoError
       THEN UNCHANGED <<status, polling, timing, spoiled>>
       ELSE /\ status' = "error" /\ polling' = FALSE /\ timing' = FALSE
            /\ spoiled' = (spoiled \/ last_error # loads)
    /\ UNCHANGED <<dialogVars, hash, files, checks, commands, roundVars, staged, listed, ltVars, loads, begun, adds, accepted, kept, missed>>

TimeoutFires ==
    /\ ui = "free" /\ timing /\ checks = 0
    /\ timing' = FALSE
    /\ IF status = "loading"
       THEN status' = "error" /\ polling' = FALSE /\ UNCHANGED spoiled
       ELSE spoiled' = (spoiled \/ polling) /\ UNCHANGED <<status, polling>>
    /\ UNCHANGED <<dialogVars, ui, hash, files, checks, commands, roundVars, engineVars, ltVars, loads, begun, adds, accepted, kept, missed>>

-----------------------------------------------------------------------------
(* The add dialogs *)

FreeIn(d) == ui = "free" /\ dialog = d

\* onOpened; filling in the folder restarts the debounce when its text changes.
OpenMagnet ==
    /\ FreeIn("closed")
    /\ dialog' = "magnet"
    /\ \/ /\ field = NoHash
          /\ UNCHANGED <<debounce, ui, previewVars, commands, loads, begun, spoiled>>
       \/ /\ field # NoHash
          /\ debounce' \in {debounce, TRUE}
          /\ Load(field)
    /\ UNCHANGED <<field, checks, roundVars, engineVars, ltVars, adds, accepted, kept, missed>>

\* The link is edited to name u, or the folder is (then u is the field).
Edit(u) ==
    /\ FreeIn("magnet")
    /\ u \in Hash \/ field # NoHash
    /\ field' = u
    /\ debounce' = TRUE
    /\ UNCHANGED <<dialog, ui, previewVars, checks, commands, roundVars, engineVars, ltVars, historyVars>>

\* The timer outlives the dialog: requestPreview runs even when it is closed.
DebounceFires ==
    /\ ui = "free" /\ debounce
    /\ debounce' = FALSE
    /\ \/ /\ field = NoHash
          /\ UNCHANGED <<ui, previewVars, commands, loads, begun, spoiled>>
       \/ /\ field # NoHash
          /\ Load(field)
    /\ UNCHANGED <<dialog, field, checks, roundVars, engineVars, ltVars, adds, accepted, kept, missed>>

AcceptCancels ==
    /\ commands' = Append(CancelCurrent(commands), Cmd("Finalize", hash, 0))
    /\ Forget("idle")
    /\ accepted' = hash

\* addMagnetWithSelection finalizes the preview, whatever the field says by now, and forgets it
\* without cancelling.  (Without a preview it would add the link; a ready one has a hash.)
Accept ==
    /\ commands' = Append(commands, Cmd("Finalize", hash, 0))
    /\ Forget("idle")
    /\ accepted' = hash

SubmitAnything ==
    /\ FreeIn("magnet") /\ hash # NoHash
    /\ Accept
    /\ dialog' = "closed" /\ field' = NoHash /\ debounce' = TRUE
    /\ UNCHANGED <<ui, checks, roundVars, engineVars, ltVars, loads, begun, adds, kept, missed, spoiled>>

Submit ==
    /\ FreeIn("magnet") /\ status = "ready"
    /\ Accept
    /\ dialog' = "closed" /\ field' = NoHash /\ debounce' = TRUE
    /\ UNCHANGED <<ui, checks, roundVars, engineVars, ltVars, loads, begun, adds, kept, missed, spoiled>>

\* The folder does not exist: the dialog is cleared and closed all the same.
SubmitRefused ==
    /\ FreeIn("magnet") /\ status = "ready"
    /\ Clear("idle")
    /\ dialog' = "closed" /\ field' = NoHash /\ debounce' = TRUE
    /\ UNCHANGED <<ui, checks, roundVars, engineVars, ltVars, historyVars>>

\* Also a refused torrent file.
Close ==
    /\ ui = "free" /\ dialog # "closed"
    /\ Clear("idle")
    /\ dialog' = "closed"
    /\ UNCHANGED <<field, debounce, ui, checks, roundVars, engineVars, ltVars, historyVars>>

\* loadTorrentFilePreview: no timers, the files are known at once.
OpenFile(h) ==
    /\ FreeIn("closed") /\ ~debounce /\ checks = 0 /\ adds < MaxAdds
    /\ adds' = adds + 1
    /\ dialog' = "file"
    /\ commands' = CancelCurrent(commands)
    /\ \/ status' = "error" /\ hash' = NoHash /\ files' = NoHash
       \/ status' = "ready" /\ hash' = h /\ files' = h
    /\ polling' = FALSE /\ timing' = FALSE
    /\ UNCHANGED <<field, debounce, ui, checks, roundVars, engineVars, ltVars, loads, begun, accepted, kept, missed, spoiled>>

\* The add, and the cancellation clearAddPreview issues for the file's hash.
SubmitFile ==
    /\ FreeIn("file") /\ status = "ready"
    /\ commands' = CancelCurrent(Append(commands, Cmd("Add", hash, 0)))
    /\ Forget("idle")
    /\ dialog' = "closed"
    /\ UNCHANGED <<field, debounce, ui, checks, roundVars, engineVars, ltVars, historyVars>>

\* handleDroppedUrls, addMagnetUri, addTorrentFile.
AddDirect(h) ==
    /\ FreeIn("closed") /\ adds < MaxAdds
    /\ adds' = adds + 1
    /\ commands' = Append(commands, Cmd("Add", h, 0))
    /\ UNCHANGED <<dialogVars, ui, previewVars, checks, roundVars, engineVars, ltVars, loads, begun, accepted, kept, missed, spoiled>>

\* take_last_error, 300 ms after an add or any other operation (runTorrentOp).
ResultCheck ==
    /\ ui = "free"
    /\ last_error' = NoError
    /\ UNCHANGED <<uiVars, commands, roundVars, staged, listed, ltVars, historyVars>>

-----------------------------------------------------------------------------
(* The engine: one round of the worker *)

TakeBatch ==
    /\ phase = "sleep"
    /\ batch' = Len(commands) /\ phase' = "commands"
    /\ UNCHANGED <<uiVars, commands, engineVars, ltVars, historyVars>>

At(type) == phase = "commands" /\ batch > 0 /\ Head(commands).type = type

Current == Head(commands).hash

NextCommandRunsOn == commands' = Tail(commands) /\ UNCHANGED batch

NextCommand == commands' = Tail(commands) /\ batch' = batch - 1

Stage(h) == staged' = [staged EXCEPT ![h] = IF h \in live' /\ h \in known THEN "files" ELSE "bare"]

Unstage(h) == staged' = [staged EXCEPT ![h] = "no"] /\ missed' = missed \ {h}

\* find_handle_by_id has a handle of h; and it may be none, or one that is not valid any more.
Found(h) == Staged(h) \/ h \in listed

Lost(h) == Found(h) => h \notin live

\* add_torrent: the torrent of that hash, or a new one; an added alert.
AddTorrent(h) ==
    /\ live' = live \cup {h}
    /\ alerts' = Append(alerts, [type |-> "added", hash |-> h])

BeginFails ==
    /\ At("Begin")
    /\ last_error' = Head(commands).load
    /\ NextCommand
    /\ UNCHANGED <<uiVars, phase, staged, listed, ltVars, historyVars>>

\* Beginning a staged preview has no step: refresh_pending_preview locks the mutex the worker
\* holds, or, if the torrent is destroyed, resume throws (NeverSelfLocks says when the dialogs may
\* cause it).

\* The entry of a torrent already removed still has a valid handle until it is destroyed.
BeginReusesListed ==
    /\ At("Begin") /\ ~Staged(Current) /\ Current \in listed
    /\ UNCHANGED <<live, alerts>>
    /\ Stage(Current)
    /\ NextCommand
    /\ UNCHANGED <<uiVars, phase, listed, last_error, known, popped, historyVars>>

BeginAdds ==
    /\ At("Begin") /\ ~Staged(Current) /\ (Current \in listed => Current \notin live)
    /\ AddTorrent(Current)
    /\ Stage(Current)
    /\ NextCommand
    /\ UNCHANGED <<uiVars, phase, listed, last_error, known, popped, historyVars>>

\* update_entry of a key that is not staged: a torrent already removed may be listed, lose its
\* entry, or be destroyed by now.
List(h) ==
    \/ listed' = listed \cup {h}
    \/ h \notin live' /\ listed' = listed \ {h}
    \/ h \notin live' /\ UNCHANGED listed

\* What the session holds because the user asked for it.
Keep(h) == kept' = IF h \in live' THEN kept \cup {h} ELSE kept

\* A staged torrent already destroyed is not found, and stays staged.
Finalize ==
    /\ At("Finalize")
    /\ UNCHANGED live
    /\ Keep(Current)
    /\ \/ Found(Current) /\ Unstage(Current) /\ List(Current) /\ UNCHANGED last_error
       \/ /\ Lost(Current)
          /\ last_error' = OtherError
          /\ missed' = IF Staged(Current) THEN missed \cup {Current} ELSE missed
          /\ UNCHANGED <<staged, listed>>
    /\ NextCommand
    /\ UNCHANGED <<uiVars, phase, known, alerts, popped, loads, begun, adds, accepted, spoiled>>

\* A staged torrent is removed, listed or not; its removed alert follows.  One already destroyed
\* is only unstaged.
Cancel ==
    /\ At("Cancel")
    /\ IF Staged(Current) THEN Unstage(Current) ELSE UNCHANGED <<staged, missed>>
    /\ \/ /\ Staged(Current)
          /\ live' = live \ {Current} /\ known' = known \ {Current}
          /\ alerts' = Append(alerts, [type |-> "removed", hash |-> Current])
          /\ kept' = kept \ {Current}
       \/ /\ Staged(Current) => Current \notin live
          /\ UNCHANGED <<live, known, alerts, kept>>
    /\ NextCommand
    /\ UNCHANGED <<uiVars, phase, listed, last_error, popped, loads, begun, adds, accepted, spoiled>>

\* update_entry, for whatever the key of h has: a staged torrent stays hidden.
Update(h) == IF Staged(h) THEN Stage(h) /\ UNCHANGED listed ELSE List(h) /\ UNCHANGED staged

\* A torrent the engine has a handle of is only refreshed.  The metadata of a torrent file
\* arrives (MetadataArrives) at once.
AddKnown ==
    /\ At("Add") /\ Found(Current)
    /\ UNCHANGED <<live, alerts>>
    /\ Keep(Current)
    /\ Update(Current)
    /\ NextCommand
    /\ UNCHANGED <<uiVars, phase, last_error, known, popped, loads, begun, adds, accepted, missed, spoiled>>

AddNew ==
    /\ At("Add") /\ Lost(Current)
    /\ \/ /\ last_error' = OtherError
          /\ UNCHANGED <<staged, listed, live, alerts, kept>>
       \/ /\ AddTorrent(Current)
          /\ Update(Current)
          /\ Keep(Current)
          /\ UNCHANGED last_error
    /\ NextCommand
    /\ UNCHANGED <<uiVars, phase, known, popped, loads, begun, adds, accepted, missed, spoiled>>

\* All alerts; libtorrent may not have run the removals posted last.
PopAlerts ==
    /\ phase = "commands" /\ batch = 0
    /\ phase' = "alerts"
    /\ \E n \in 0 .. Len(alerts) :
          /\ \A i \in n + 1 .. Len(alerts) : alerts[i].type = "removed"
          /\ popped' = n
    /\ UNCHANGED <<uiVars, commands, batch, engineVars, live, known, alerts, historyVars>>

NextAlert == alerts' = Tail(alerts) /\ popped' = popped - 1

Handling(type) == phase = "alerts" /\ popped > 0 /\ Head(alerts).type = type

HandleAddedOfStaged ==
    /\ Handling("added")
    /\ UNCHANGED <<live, known, listed>>
    /\ LET h == Head(alerts).hash
       IN  IF Staged(h) THEN Stage(h) ELSE UNCHANGED staged
    /\ NextAlert
    /\ UNCHANGED <<uiVars, commands, roundVars, last_error, historyVars>>

HandleAdded ==
    /\ Handling("added")
    /\ UNCHANGED <<live, known>>
    /\ Update(Head(alerts).hash)
    /\ NextAlert
    /\ UNCHANGED <<uiVars, commands, roundVars, last_error, historyVars>>

HandleRemoved ==
    /\ Handling("removed")
    /\ Unstage(Head(alerts).hash)
    /\ listed' = listed \ {Head(alerts).hash}
    /\ NextAlert
    /\ UNCHANGED <<uiVars, commands, roundVars, last_error, live, known, loads, begun, adds, accepted, kept, spoiled>>

\* The round ends with a refresh of every preview.
RefreshAll ==
    /\ phase = "alerts" /\ popped = 0
    /\ phase' = "sleep"
    /\ staged' = [h \in Hash |-> IF Staged(h) /\ h \in live /\ h \in known THEN "files" ELSE staged[h]]
    /\ UNCHANGED <<uiVars, commands, batch, listed, last_error, ltVars, historyVars>>

\* libtorrent, external: metadata from the peers, or of a torrent file.
MetadataArrives(h) ==
    /\ h \in live \ known
    /\ known' = known \cup {h}
    /\ UNCHANGED <<uiVars, commands, roundVars, engineVars, live, alerts, popped, historyVars>>

\* A torrent_error alert, or another command that failed.
EngineError ==
    /\ last_error' = OtherError
    /\ UNCHANGED <<uiVars, commands, roundVars, staged, listed, ltVars, historyVars>>

-----------------------------------------------------------------------------
(* The specification *)

User ==
    \/ OpenMagnet \/ Submit \/ SubmitRefused \/ Close \/ SubmitFile
    \/ \E u \in Id : Edit(u)
    \/ \E h \in Hash : OpenFile(h) \/ AddDirect(h)

Timers == DebounceFires \/ PollTimer \/ CheckPolls \/ TimeoutFires \/ ResultCheck

Continuations == BeginReturns \/ CheckReads \/ CheckTakesError

Worker ==
    \/ TakeBatch \/ BeginFails \/ BeginReusesListed \/ BeginAdds
    \/ Finalize \/ Cancel \/ AddKnown \/ AddNew
    \/ PopAlerts \/ HandleAdded \/ HandleRemoved \/ RefreshAll

Environment == EngineError \/ \E h \in Hash : MetadataArrives(h)

Next == User \/ Timers \/ Continuations \/ Worker \/ Environment

Spec == Init /\ [][Next]_vars

-----------------------------------------------------------------------------
(* Properties *)

\* The files shown are those of the torrent shown: a ready preview has files and names them by
\* its own hash, a loading one shows none of an earlier link (applyAddPreview, lines 738-762).
FilesOfShown ==
    /\ status = "ready" => files = hash /\ hash # NoHash
    /\ status \in {"idle", "loading"} => files = NoHash

\* The dialogs never begin a preview that is staged: the engine would lock a mutex it holds
\* (session_manager.cpp, lines 797-812) and hang.  The one exception is a preview that stayed
\* staged because its Finalize came upon a torrent already destroyed (lines 877-881).
NeverSelfLocks == At("Begin") => ~Staged(Current) \/ Current \in missed

\* A command that ends the preview of h waits in the queue.
Closing(c, h) == c.type \in {"Cancel", "Finalize"} /\ c.hash = h

ClosingAfter(i, h) == \E j \in DOMAIN commands : j > i /\ Closing(commands[j], h)

\* The removed alert that erases whatever is kept of h is still to be handled.
Doomed(h) == \E i \in DOMAIN alerts : alerts[i] = [type |-> "removed", hash |-> h]

\* No forgotten preview: a staged torrent, which no view shows, is the one the controller
\* remembers, or the command that ends it is queued (resetAddPreviewUi, lines 711-725), or its
\* Finalize missed it and its removed alert is on the way (session_manager.cpp, lines 664-670, 877-881).
StagedIsKnown == \A h \in Hash : Staged(h) => hash = h \/ ClosingAfter(0, h) \/ (h \in missed /\ Doomed(h))

AtRest == commands = <<>> /\ alerts = <<>>

\* What the user accepted, and did not cancel, is in the library once the engine is at rest, or
\* hidden by the preview the controller has of the same torrent: stale removed alerts erase
\* entries by hash (session_manager.cpp, lines 664-670), the added alert behind them restores.
AcceptedIsKept == AtRest => \A h \in kept : h \in listed \/ (Staged(h) /\ hash = h)

\* An accepted preview is never lost before the engine finalizes it: whatever alerts and commands
\* came in between, the torrent is found and in the session, unless its link was loaded twice (the second
\* load cancels the preview whose files may be the ones accepted).
AcceptFindsTorrent ==
    [][At("Finalize") /\ commands' = Tail(commands) =>
          (Found(Current) /\ Current \in live) \/ begun[Current] > 1]_vars

\* No preview loads for ever: while it loads, its timeout is running, unless the error of another
\* command, a refused reload or the answer of an earlier load of the same link took its timers
\* away (app_controller.cpp, lines 161-176, 738-789 and 876-895).
LoadingIsTimed == status = "loading" => timing \/ ui = "beginning" \/ spoiled

=============================================================================
