--------------------------- MODULE SessionManager ---------------------------
(***************************************************************************)
(* The engine of Torrin: SessionManager and its Impl                       *)
(* (src/core/session_manager.cpp), one worker thread between a UI      *)
(* thread and libtorrent.                                                  *)
(*                                                                         *)
(*   UI thread   appends commands and returns at once; polls the engine    *)
(*               under the engine's mutex; starts and shuts it down.       *)
(*   worker      loops: take the whole command queue as a batch, run the   *)
(*               staging commands of the batch, then its torrent           *)
(*               operations, then pop and handle libtorrent's alerts, then *)
(*               refresh every snapshot.                                   *)
(*   libtorrent  (external) runs posted removals in order, posts alerts in *)
(*               order, and destroys removed torrents some time later.     *)
(*                                                                         *)
(* A worker step is one command, one alert or one refresh: torrents and    *)
(* pending_magnets are written by the worker only, under the mutex, and    *)
(* the UI only copies them.  Inside a step only libtorrent can interfere,  *)
(* by destroying a removed torrent between the is_valid() of its handle    *)
(* and the call; HandleThrows and UpdateEntry have those outcomes.         *)
(*                                                                         *)
(* Abstracted: an info hash is a model value (keys are already lower case),*)
(* a preview is the handle it was staged with, a snapshot is the state the *)
(* engine decides on and its upload_stopped flag; AddMagnet and AddFile    *)
(* are one command Add, and Adjust stands for ForceReannounce,             *)
(* SetFilePriority and SetSequential, which change none of this state.     *)
(***************************************************************************)
EXTENDS Naturals, Sequences, FiniteSets

CONSTANTS
    Hash,         \* info hashes the client knows
    Handle,       \* torrent objects libtorrent can create, never reused
    NoHandle,     \* the default torrent_handle: never valid
    Requests,     \* the command types this client issues
    Relock,       \* what locking a std::mutex one already holds may do
    MaxRequests,  \* bound: commands the client issues
    MaxEvents,    \* bound: spontaneous events of libtorrent
    MaxRestarts   \* bound: starts after the first

StageTypes == {"BeginMagnetPreview", "FinalizeMagnetPreview", "CancelMagnetPreview", "Add"}

OpTypes == {"Pause", "Resume", "StopSeeding", "ResumeSeeding", "ForceRecheck", "Adjust", "Remove"}

ASSUME HashAssumption == IsFiniteSet(Hash) /\ Hash # {}
ASSUME NoHandleAssumption == NoHandle \notin Handle
ASSUME RequestsAssumption == Requests \subseteq StageTypes \cup OpTypes
ASSUME RelockAssumption == Relock \subseteq {"blocks", "succeeds"}
ASSUME BoundsAssumption == MaxRequests \in Nat /\ MaxEvents \in Nat /\ MaxRestarts \in Nat

VARIABLES
    ui,          \* what the UI thread is doing
    running,     \* running_
    sent,        \* commands issued so far
    commands,    \* Impl::commands
    worker,      \* the worker thread: running, waiting for a mutex it owns, or terminated
    phase,       \* where the worker is in its loop
    batch,       \* the commands of this round
    at,          \* the command of the batch this pass has come to
    popped,      \* alerts of this round still to handle
    torrents,    \* Impl::torrents, the library
    pending,     \* Impl::pending_magnets, the staged previews
    last_error,  \* Impl::last_error
    tor,         \* libtorrent's torrent objects
    posted,      \* removals posted to libtorrent and not yet run
    alerts,      \* libtorrent's alert queue
    events,      \* spontaneous libtorrent events so far
    files,       \* torrents/<key>.resume
    dat,         \* session.dat
    saving,      \* torrents whose resume data shutdown still waits for
    restarts     \* starts after the first

uiVars == <<ui, running, sent, commands>>
batchVars == <<worker, phase, batch, at, popped>>
engineVars == <<torrents, pending, last_error>>
ltVars == <<tor, posted, alerts, events>>
diskVars == <<files, dat, saving, restarts>>
vars == <<uiVars, batchVars, engineVars, ltVars, diskVars>>

-----------------------------------------------------------------------------
(* Values *)

\* last_error holds the id of the command that failed, 0 for none.
NoError == 0
AlertError == MaxRequests + 1
Error == 0 .. AlertError

Command == [type : StageTypes \cup OpTypes, hash : Hash, id : 1 .. MaxRequests]

Flags == {"paused", "auto_managed", "upload_mode"}

\* A torrent object: alive in the session, removed from it but still referenced ("dying"),
\* or destroyed.  limited: its upload limit is 1 byte/s.
Torrent == [life : {"unused", "live", "dying", "gone"}, hash : Hash,
            flags : SUBSET Flags, complete : BOOLEAN, limited : BOOLEAN]

Unused == [life |-> "unused", hash |-> CHOOSE h \in Hash : TRUE,
           flags |-> {}, complete |-> FALSE, limited |-> FALSE]

Alert == [type : {"added", "update", "error", "removed"}, handle : Handle]

\* Snapshot states told apart: paused, complete seeding (is_complete_seeding), the rest.
State == {"Paused", "Seeding", "Incomplete"}

Entry == [handle : Handle \cup {NoHandle}, state : State, shown_stopped : BOOLEAN, upload_stopped : BOOLEAN]

\* No entry for a key.  An entry whose handle was cleared (line 684) behaves like one whose
\* torrent is destroyed, so a key without handle is a key without entry.
NoEntry == [handle |-> NoHandle, state |-> "Incomplete", shown_stopped |-> FALSE, upload_stopped |-> FALSE]

\* What a resume file restores, or that there is none, or that a crash left half of it.
ResumeFile == [kind : {"none", "whole", "torn"}, flags : SUBSET Flags, complete : BOOLEAN, limited : BOOLEAN]
NoFile == [kind |-> "none", flags |-> {}, complete |-> FALSE, limited |-> FALSE]
TornFile == [NoFile EXCEPT !.kind = "torn"]

TypeOK ==
    /\ ui \in {"idle", "clearing", "frozen", "joining"}
    /\ running \in BOOLEAN
    /\ sent \in 0 .. MaxRequests
    /\ commands \in Seq(Command)
    /\ worker \in {"running", "blocked", "terminated"}
    /\ phase \in {"off", "sleep", "staging", "operating", "alerts", "persisting"}
    /\ batch \in Seq(Command)
    /\ at \in 1 .. Len(batch) + 1
    /\ popped \in Seq(Alert)
    /\ torrents \in [Hash -> Entry]
    /\ pending \in [Hash -> Handle \cup {NoHandle}]
    /\ last_error \in Error
    /\ tor \in [Handle -> Torrent]
    /\ posted \in Seq(Handle)
    /\ alerts \in Seq(Alert)
    /\ events \in 0 .. MaxEvents
    /\ files \in [Hash -> ResumeFile]
    /\ dat \in {"none", "intact", "torn"}
    /\ saving \subseteq Hash
    /\ restarts \in 0 .. MaxRestarts

-----------------------------------------------------------------------------
(* Reading the state *)

Listed(h) == torrents[h].handle # NoHandle
Staged(h) == pending[h] # NoHandle

\* torrent_handle::is_valid(): the torrent object still exists.
Valid(x) == x \in Handle /\ tor[x].life \in {"live", "dying"}

Live(x) == x \in Handle /\ tor[x].life = "live"

\* find_handle_by_id: previews first, then the library.
HandleOf(h) == IF Staged(h) THEN pending[h] ELSE torrents[h].handle

\* Every posted removal has run.  A call that waits for libtorrent (add_torrent, status)
\* waits for the messages posted before it.
Drained == posted = <<>>

SnapshotState(t) ==
    IF "paused" \in t.flags THEN "Paused" ELSE IF t.complete THEN "Seeding" ELSE "Incomplete"

\* The tests StopSeeding and ResumeSeeding make on the library entry.
CanStop(h) == torrents[h].state = "Seeding" /\ ~torrents[h].upload_stopped
CanResume(h) == torrents[h].state = "Seeding" /\ torrents[h].upload_stopped

\* lt::session::add_torrent: the torrent of that hash, or a new object.
AddResult(h) ==
    LET same == {x \in Handle : tor[x].life = "live" /\ tor[x].hash = h}
    IN  IF same # {} THEN same ELSE {x \in Handle : tor[x].life = "unused"}

Added(h, x, flags) ==
    IF tor[x].life = "live"
    THEN tor
    ELSE [tor EXCEPT ![x] = [life |-> "live", hash |-> h, flags |-> flags, complete |-> FALSE, limited |-> FALSE]]

Post(type, x) == alerts' = Append(alerts, [type |-> type, handle |-> x])

Init ==
    /\ ui = "idle"
    /\ running = TRUE
    /\ sent = 0
    /\ commands = <<>>
    /\ worker = "running"
    /\ phase = "sleep"
    /\ batch = <<>>
    /\ at = 1
    /\ popped = <<>>
    /\ torrents = [h \in Hash |-> NoEntry]
    /\ pending = [h \in Hash |-> NoHandle]
    /\ last_error = NoError
    /\ tor = [x \in Handle |-> Unused]
    /\ posted = <<>>
    /\ alerts = <<>>
    /\ events = 0
    /\ files = [h \in Hash |-> NoFile]
    /\ dat = "none"
    /\ saving = {}
    /\ restarts = 0

-----------------------------------------------------------------------------
(* The UI thread *)

\* add_magnet, begin_magnet_preview, ..., set_sequential_download: append the command.
\* begin_magnet_preview goes on to clear last_error, in a critical section of its own.
Enqueue(t, h) ==
    /\ ui = "idle" /\ running /\ worker # "terminated"
    /\ sent < MaxRequests
    /\ sent' = sent + 1
    /\ commands' = Append(commands, [type |-> t, hash |-> h, id |-> sent + 1])
    /\ ui' = IF t = "BeginMagnetPreview" THEN "clearing" ELSE "idle"
    /\ UNCHANGED <<running, batchVars, engineVars, ltVars, diskVars>>

\* The worker can give the mutex back.
MutexFree == worker = "running"

BeginClearsError ==
    /\ ui = "clearing" /\ MutexFree
    /\ ui' = "idle"
    /\ last_error' = NoError
    /\ UNCHANGED <<running, sent, commands, batchVars, torrents, pending, ltVars, diskVars>>

TakeLastError ==
    /\ ui = "idle" /\ running /\ MutexFree
    /\ last_error # NoError
    /\ last_error' = NoError
    /\ UNCHANGED <<uiVars, batchVars, torrents, pending, ltVars, diskVars>>

\* Any poll (snapshots every 500 ms, magnet_preview every 200 ms, take_last_error) waits for a
\* mutex whose owner waits for it too.
PollFreezes ==
    /\ ui \in {"idle", "clearing"} /\ running /\ worker = "blocked"
    /\ ui' = "frozen"
    /\ UNCHANGED <<running, sent, commands, batchVars, engineVars, ltVars, diskVars>>

\* shutdown() up to the join.
Shutdown ==
    /\ ui = "idle" /\ running /\ worker # "terminated"
    /\ running' = FALSE
    /\ ui' = "joining"
    /\ UNCHANGED <<sent, commands, batchVars, engineVars, ltVars, diskVars>>

-----------------------------------------------------------------------------
(* The worker: update_entry, and what may go wrong inside a handler *)

\* The library entry update_entry leaves for a handle: upload_stopped is carried over.
Refreshed(e, x, t) ==
    [handle |-> x, state |-> SnapshotState(t),
     shown_stopped |-> e.upload_stopped, upload_stopped |-> e.upload_stopped]

UpdateListedOnly(x, T, lib, stg) ==
    /\ torrents' = [h \in Hash |->
          IF h = T[x].hash /\ lib[h] # NoEntry THEN Refreshed(lib[h], x, T[x]) ELSE lib[h]]
    /\ pending' = stg

\* update_entry(x) in a state where the torrent objects, the library and the previews are
\* T, lib and stg.  A staged key has its preview refreshed and stays out of the library.
\* A torrent destroyed before status() leaves everything alone; one destroyed after it
\* loses its entry.
UpdateEntry(x, T, lib, stg) ==
    LET h == T[x].hash IN
    \/ /\ T[x].life # "gone" /\ stg[h] # NoHandle
       /\ torrents' = lib
       /\ pending' = [stg EXCEPT ![h] = x]
    \/ /\ T[x].life # "gone" /\ stg[h] = NoHandle
       /\ torrents' = [lib EXCEPT ![h] = Refreshed(lib[h], x, T[x])]
       /\ pending' = stg
    \/ /\ T[x].life = "dying" /\ stg[h] = NoHandle
       /\ torrents' = [lib EXCEPT ![h] = NoEntry]
       /\ pending' = stg
    \/ /\ T[x].life # "live"
       /\ torrents' = lib
       /\ pending' = stg

\* set_error from inside a scoped_lock of the same std::mutex.
SetErrorUnderLock(id) ==
    \/ /\ "blocks" \in Relock
       /\ worker' = "blocked"
       /\ UNCHANGED last_error
    \/ /\ "succeeds" \in Relock
       /\ last_error' = id
       /\ UNCHANGED worker

\* The command the worker has come to, in the pass that runs commands of type t.
Current == batch[at]

In(p) == worker = "running" /\ phase = p

At(t) == at <= Len(batch) /\ Current.type = t /\ In(IF t \in StageTypes THEN "staging" ELSE "operating")

NextCommandSkipsOne == at' = at + 2 /\ UNCHANGED <<uiVars, worker, phase, batch, popped>>

NextCommand == at' = at + 1 /\ UNCHANGED <<uiVars, worker, phase, batch, popped>>

-----------------------------------------------------------------------------
(* The worker: staging commands, first pass over the batch *)

CopyBatch ==
    /\ In("sleep") /\ running
    /\ phase' = "staging"
    /\ batch' = commands
    /\ at' = 1
    /\ UNCHANGED <<uiVars, worker, popped, engineVars, ltVars, diskVars>>

TakeBatch ==
    /\ In("sleep") /\ running
    /\ phase' = "staging"
    /\ batch' = commands
    /\ at' = 1
    /\ commands' = <<>>
    /\ UNCHANGED <<ui, running, sent, worker, popped, engineVars, ltVars, diskVars>>

\* Each pass over the batch passes the other pass's commands by.
PassBy ==
    /\ at <= Len(batch)
    /\ \/ In("staging") /\ Current.type \in OpTypes
       \/ In("operating") /\ Current.type \in StageTypes
    /\ NextCommand
    /\ UNCHANGED <<engineVars, ltVars, diskVars>>

SecondPassContinues ==
    /\ In("staging") /\ at > Len(batch)
    /\ phase' = "operating"
    /\ UNCHANGED <<uiVars, worker, batch, at, popped, engineVars, ltVars, diskVars>>

SecondPassBegins ==
    /\ In("staging") /\ at > Len(batch)
    /\ phase' = "operating"
    /\ at' = 1
    /\ UNCHANGED <<uiVars, worker, batch, popped, engineVars, ltVars, diskVars>>

\* The save path cannot be created, the input does not parse, or add_torrent fails.
StageFails ==
    /\ At("BeginMagnetPreview") \/ At("Add")
    /\ last_error' = Current.id
    /\ NextCommand
    /\ UNCHANGED <<torrents, pending, ltVars, diskVars>>

\* Lines 804-811: the preview exists; refresh_pending_preview locks the mutex held here.
BeginStagedAgain ==
    /\ At("BeginMagnetPreview") /\ Drained
    /\ LET h == Current.hash
           x == pending[h]
       IN  /\ Staged(h) /\ Valid(x)
           /\ tor' = [tor EXCEPT ![x].flags = @ \ {"paused"}]
           /\ \/ /\ "blocks" \in Relock
                 /\ worker' = "blocked"
              \/ /\ "succeeds" \in Relock \/ tor[x].life = "dying"
                 /\ UNCHANGED worker
    /\ at' = at + 1
    /\ UNCHANGED <<uiVars, phase, batch, popped, engineVars, posted, alerts, events, diskVars>>

\* Lines 815-843: the torrent is in the library; it is staged as it is.
BeginReusesListed ==
    /\ At("BeginMagnetPreview") /\ Drained
    /\ LET h == Current.hash
       IN  /\ ~Staged(h) /\ Valid(HandleOf(h))
           /\ pending' = [pending EXCEPT ![h] = torrents[h].handle]
    /\ NextCommand
    /\ UNCHANGED <<torrents, last_error, ltVars, diskVars>>

\* Lines 850-873: a new torrent is not managed, and in upload mode until finalized.
BeginAdds ==
    /\ At("BeginMagnetPreview") /\ Drained
    /\ LET h == Current.hash
       IN  /\ ~Staged(h) /\ ~Valid(HandleOf(h))
           /\ \E x \in AddResult(h) :
                 /\ tor' = [Added(h, x, {"upload_mode"}) EXCEPT ![x].flags = @ \ {"paused"}]
                 /\ Post("added", x)
                 /\ pending' = [pending EXCEPT ![h] = x]
    /\ NextCommand
    /\ UNCHANGED <<torrents, last_error, posted, events, diskVars>>

Finalize ==
    /\ At("FinalizeMagnetPreview")
    /\ LET h == Current.hash
           x == HandleOf(h)
       IN  \/ /\ ~Valid(x)
              /\ last_error' = Current.id
              /\ UNCHANGED <<torrents, pending, tor>>
           \/ /\ Valid(x) /\ Drained
              /\ tor' = [tor EXCEPT ![x].flags = (@ \ {"upload_mode", "paused"}) \cup {"auto_managed"}]
              /\ UpdateEntry(x, tor', torrents, [pending EXCEPT ![h] = NoHandle])
              /\ UNCHANGED last_error
    /\ NextCommand
    /\ UNCHANGED <<posted, alerts, events, diskVars>>

\* The torrent leaves the session, whether or not it is in the library too.
Cancel ==
    /\ At("CancelMagnetPreview")
    /\ LET h == Current.hash
       IN  /\ pending' = [pending EXCEPT ![h] = NoHandle]
           /\ posted' = IF Valid(pending[h]) THEN Append(posted, pending[h]) ELSE posted
    /\ NextCommand
    /\ UNCHANGED <<torrents, last_error, tor, alerts, events, diskVars>>

\* A torrent the engine already has a handle of is only refreshed.
Add ==
    /\ At("Add") /\ Drained
    /\ LET h == Current.hash
       IN  \/ /\ Valid(HandleOf(h))
              /\ UpdateEntry(HandleOf(h), tor, torrents, pending)
              /\ UNCHANGED <<tor, alerts>>
           \/ /\ ~Valid(HandleOf(h))
              /\ \E x \in AddResult(h) :
                    /\ tor' = Added(h, x, {"paused", "auto_managed"})
                    /\ Post("added", x)
                    /\ UpdateEntry(x, tor', torrents, pending)
    /\ NextCommand
    /\ UNCHANGED <<last_error, posted, events, diskVars>>

-----------------------------------------------------------------------------
(* The worker: torrent operations, second pass over the batch *)

OpNotFound ==
    /\ \E t \in OpTypes : At(t)
    /\ ~Valid(HandleOf(Current.hash))
    /\ last_error' = Current.id
    /\ NextCommand
    /\ UNCHANGED <<torrents, pending, ltVars, diskVars>>

OpFound(t) == At(t) /\ Valid(HandleOf(Current.hash)) /\ Drained

\* An operation on a found handle x: what it does to the torrent object and to the library,
\* then the update_entry every operation but Remove ends with.
Operate(x, t, lib) ==
    /\ tor' = [tor EXCEPT ![x] = t]
    /\ UpdateEntry(x, tor', lib, pending)
    /\ NextCommand
    /\ UNCHANGED <<last_error, posted, alerts, events, diskVars>>

\* The library with the upload_stopped flags of h set to b, where h has an entry.
WithStopped(h, b) ==
    IF Listed(h) THEN [torrents EXCEPT ![h].upload_stopped = b, ![h].shown_stopped = b] ELSE torrents

\* Pause forgets upload_stopped and leaves the upload limit as it is.
Pause ==
    /\ OpFound("Pause")
    /\ LET h == Current.hash
           x == HandleOf(h)
       IN  Operate(x, [tor[x] EXCEPT !.flags = (@ \ {"auto_managed"}) \cup {"paused"}], WithStopped(h, FALSE))

ResumeKeepsFlag ==
    /\ OpFound("Resume")
    /\ LET h == Current.hash
           x == HandleOf(h)
       IN  Operate(x, [tor[x] EXCEPT !.flags = (@ \ {"paused"}) \cup {"auto_managed"},
                                     !.limited = @ /\ ~Listed(h)], torrents)

ResumeLeavesLimit ==
    /\ OpFound("Resume")
    /\ LET h == Current.hash
           x == HandleOf(h)
       IN  Operate(x, [tor[x] EXCEPT !.flags = (@ \ {"paused"}) \cup {"auto_managed"}], WithStopped(h, FALSE))

ResumeTorrent ==
    /\ OpFound("Resume")
    /\ LET h == Current.hash
           x == HandleOf(h)
       IN  Operate(x, [tor[x] EXCEPT !.flags = (@ \ {"paused"}) \cup {"auto_managed"},
                                     !.limited = @ /\ ~Listed(h)], WithStopped(h, FALSE))

StopSeeding ==
    /\ OpFound("StopSeeding")
    /\ LET h == Current.hash
           x == HandleOf(h)
       IN  /\ CanStop(h)
           /\ Operate(x, [tor[x] EXCEPT !.limited = TRUE], WithStopped(h, TRUE))

ResumeSeeding ==
    /\ OpFound("ResumeSeeding")
    /\ LET h == Current.hash
           x == HandleOf(h)
       IN  /\ CanResume(h)
           /\ Operate(x, [tor[x] EXCEPT !.limited = FALSE], WithStopped(h, FALSE))

\* Lines 1024-1039 and 1049-1064: the reason is stored with set_error, under the lock.
SeedingOpRefused ==
    /\ \/ At("StopSeeding") /\ ~CanStop(Current.hash)
       \/ At("ResumeSeeding") /\ ~CanResume(Current.hash)
    /\ Valid(HandleOf(Current.hash))
    /\ SetErrorUnderLock(Current.id)
    /\ at' = at + 1
    /\ UNCHANGED <<uiVars, phase, batch, popped, torrents, pending, ltVars, diskVars>>

ForceRecheck ==
    /\ OpFound("ForceRecheck")
    /\ LET x == HandleOf(Current.hash)
       IN  Operate(x, [tor[x] EXCEPT !.complete = FALSE], torrents)

Adjust ==
    /\ OpFound("Adjust")
    /\ LET x == HandleOf(Current.hash)
       IN  Operate(x, tor[x], torrents)

\* set_file_priority with a negative index.
AdjustRefused ==
    /\ At("Adjust") /\ Valid(HandleOf(Current.hash))
    /\ last_error' = Current.id
    /\ NextCommand
    /\ UNCHANGED <<torrents, pending, ltVars, diskVars>>

KeepResumeFile(h) == UNCHANGED files

DeleteUnlessStaged(h) ==
    IF Staged(h) THEN UNCHANGED files ELSE files' = [files EXCEPT ![h] = NoFile]

DeleteResumeFile(h) == files' = [files EXCEPT ![h] = NoFile]

\* A preview of the same torrent stays staged until its removed alert is handled.
Remove ==
    /\ At("Remove")
    /\ LET h == Current.hash
       IN  /\ Valid(HandleOf(h))
           /\ posted' = Append(posted, HandleOf(h))
           /\ torrents' = [torrents EXCEPT ![h] = NoEntry]
           /\ DeleteResumeFile(h)
    /\ NextCommand
    /\ UNCHANGED <<pending, last_error, tor, alerts, events, dat, saving, restarts>>

-----------------------------------------------------------------------------
(* The worker: alerts and the refresh of all snapshots (pump_alerts_once) *)

PopAlerts ==
    /\ In("operating") /\ at > Len(batch)
    /\ phase' = "alerts"
    /\ batch' = <<>>
    /\ at' = 1
    /\ popped' = alerts
    /\ alerts' = <<>>
    /\ UNCHANGED <<uiVars, worker, engineVars, tor, posted, events, diskVars>>

HandlingAlert == In("alerts") /\ popped # <<>>

ForgetListed(h) ==
    /\ torrents' = [torrents EXCEPT ![h] = NoEntry]
    /\ UNCHANGED pending

ForgetStaged(h) ==
    /\ pending' = [pending EXCEPT ![h] = NoHandle]
    /\ UNCHANGED torrents

Forget(h) ==
    /\ torrents' = [torrents EXCEPT ![h] = NoEntry]
    /\ pending' = [pending EXCEPT ![h] = NoHandle]

HandleRemoved ==
    /\ HandlingAlert /\ Head(popped).type = "removed"
    /\ Forget(tor[Head(popped).handle].hash)
    /\ popped' = Tail(popped)
    /\ UNCHANGED <<uiVars, worker, phase, batch, at, last_error, ltVars, diskVars>>

HandleUpdate ==
    /\ HandlingAlert /\ Head(popped).type # "removed" /\ Drained
    /\ UpdateEntry(Head(popped).handle, tor, torrents, pending)
    /\ last_error' = IF Head(popped).type = "error" THEN AlertError ELSE last_error
    /\ popped' = Tail(popped)
    /\ UNCHANGED <<uiVars, worker, phase, batch, at, ltVars, diskVars>>

\* Lines 677-700: every snapshot is rebuilt from its handle, upload_stopped included.
RefreshAll ==
    /\ In("alerts") /\ popped = <<>> /\ Drained
    /\ torrents' = [h \in Hash |->
          IF Valid(torrents[h].handle)
          THEN [torrents[h] EXCEPT !.state = SnapshotState(tor[torrents[h].handle]), !.shown_stopped = FALSE]
          ELSE torrents[h]]
    /\ phase' = "sleep"
    /\ UNCHANGED <<uiVars, worker, batch, at, popped, pending, last_error, ltVars, diskVars>>

Dying(x) == x \in Handle /\ tor[x].life = "dying"

\* The operation gets as far as a call on the handle.
CallsHandle(c) ==
    CASE c.type = "StopSeeding" -> CanStop(c.hash)
      [] c.type = "ResumeSeeding" -> CanResume(c.hash)
      [] OTHER -> TRUE

\* A torrent_handle call throws once the torrent is destroyed.  Where nothing catches it on
\* the worker thread, std::terminate ends the process.
HandleThrows ==
    /\ \/ /\ At("BeginMagnetPreview")
          /\ LET h == Current.hash IN Dying(HandleOf(h)) \/ (Staged(h) /\ ~Valid(pending[h]))
       \/ At("FinalizeMagnetPreview") /\ Dying(HandleOf(Current.hash))
       \/ At("Add") /\ Dying(pending[Current.hash])
       \/ \E t \in OpTypes : At(t) /\ CallsHandle(Current) /\ Dying(HandleOf(Current.hash))
       \/ /\ HandlingAlert /\ Head(popped).type # "removed"
          /\ Dying(Head(popped).handle) /\ Staged(tor[Head(popped).handle].hash)
       \/ In("alerts") /\ popped = <<>> /\ \E h \in Hash : Dying(pending[h])
    /\ worker' = "terminated"
    /\ UNCHANGED <<uiVars, phase, batch, at, popped, engineVars, ltVars, diskVars>>

-----------------------------------------------------------------------------
(* libtorrent, external: what this code relies on *)

SessionUp == phase # "off" /\ worker # "terminated"

\* A posted removal runs.  Removing a torrent that is already out of the session posts its
\* alert again, as long as the object exists.
RunRemoval ==
    /\ SessionUp /\ posted # <<>>
    /\ LET x == Head(posted)
       IN  IF Valid(x)
           THEN tor' = [tor EXCEPT ![x].life = "dying"] /\ Post("removed", x)
           ELSE UNCHANGED <<tor, alerts>>
    /\ posted' = Tail(posted)
    /\ UNCHANGED <<uiVars, batchVars, engineVars, events, diskVars>>

DestroyTorrent(x) ==
    /\ SessionUp /\ tor[x].life = "dying"
    /\ tor' = [tor EXCEPT ![x].life = "gone"]
    /\ UNCHANGED <<uiVars, batchVars, engineVars, posted, alerts, events, diskVars>>

\* state_changed, torrent_finished, metadata_received and torrent_error alerts.
Event(x, t, type) ==
    /\ SessionUp /\ events < MaxEvents /\ tor[x].life = "live"
    /\ events' = events + 1
    /\ tor' = [tor EXCEPT ![x] = t]
    /\ Post(type, x)
    /\ UNCHANGED <<uiVars, batchVars, engineVars, posted, diskVars>>

TorrentFinishes(x) ==
    /\ tor[x].flags \cap {"paused", "upload_mode"} = {}
    /\ Event(x, [tor[x] EXCEPT !.complete = TRUE], "update")

TorrentReports(x) == \E type \in {"update", "error"} : Event(x, tor[x], type)

\* The queueing logic pauses and resumes managed torrents; no alert this code handles.
AutoManage(x) ==
    /\ SessionUp /\ events < MaxEvents /\ tor[x].life = "live"
    /\ "auto_managed" \in tor[x].flags
    /\ events' = events + 1
    /\ tor' = [tor EXCEPT ![x].flags = IF "paused" \in @ THEN @ \ {"paused"} ELSE @ \cup {"paused"}]
    /\ UNCHANGED <<uiVars, batchVars, engineVars, posted, alerts, diskVars>>

-----------------------------------------------------------------------------
(* Shutdown, crash and start (a process starts its engine once) *)

\* The worker leaves its loop; persist_state asks for the resume data of every valid entry.
\* Commands still queued are dropped with the process.
WorkerExits ==
    /\ In("sleep") /\ ~running
    /\ phase' = "persisting"
    /\ saving' = {h \in Hash : Valid(torrents[h].handle)}
    /\ UNCHANGED <<uiVars, worker, batch, at, popped, engineVars, ltVars, files, dat, restarts>>

\* handle_save_resume_alert.  The other alerts pumped meanwhile only change the two maps,
\* which the process is about to drop.
SaveResume(h) ==
    /\ phase = "persisting" /\ h \in saving /\ Drained
    /\ LET t == tor[torrents[h].handle]
       IN  /\ Live(torrents[h].handle)
           /\ files' = [files EXCEPT ![h] = [kind |-> "whole", flags |-> t.flags,
                                             complete |-> t.complete, limited |-> t.limited]]
    /\ saving' = saving \ {h}
    /\ UNCHANGED <<uiVars, batchVars, engineVars, ltVars, dat, restarts>>

\* save_resume_data_failed_alert, or a file that cannot be opened.
SaveFails(h) ==
    /\ phase = "persisting" /\ h \in saving
    /\ saving' = saving \ {h}
    /\ UNCHANGED <<uiVars, batchVars, engineVars, ltVars, files, dat, restarts>>

ProcessEnds ==
    /\ worker' = "running" /\ phase' = "off"
    /\ ui' = "idle" /\ running' = FALSE /\ commands' = <<>>
    /\ batch' = <<>> /\ at' = 1 /\ popped' = <<>>
    /\ torrents' = [h \in Hash |-> NoEntry]
    /\ pending' = [h \in Hash |-> NoHandle]
    /\ last_error' = NoError
    /\ tor' = [x \in Handle |-> Unused]
    /\ posted' = <<>> /\ alerts' = <<>> /\ saving' = {}
    /\ UNCHANGED <<sent, events, restarts>>

\* Every answer came, or five seconds have passed (then what is left in saving stays unsaved).
FinishWithoutDeadline ==
    /\ phase = "persisting" /\ saving = {}
    /\ dat' = "intact"
    /\ ProcessEnds
    /\ UNCHANGED files

FinishShutdown ==
    /\ phase = "persisting"
    /\ dat' = "intact"
    /\ ProcessEnds
    /\ UNCHANGED files

\* The process dies at any point; a file being rewritten (truncate, then write) may be torn.
Crash ==
    /\ phase # "off" /\ restarts < MaxRestarts
    /\ ProcessEnds
    /\ \/ UNCHANGED <<files, dat>>
       \/ /\ phase = "persisting"
          /\ \E h \in saving : files' = [files EXCEPT ![h] = TornFile]
          /\ UNCHANGED dat
       \/ /\ phase = "persisting"
          /\ dat' = "torn"
          /\ UNCHANGED files

Restorable == {h \in Hash : files[h].kind = "whole"}

Injective(f) == \A a, b \in DOMAIN f : f[a] = f[b] => a = b

\* start() and restore_torrents(), in directory order: a torn resume file is skipped, every
\* restored torrent becomes managed.  A torn session.dat makes read_session_params throw.
Start ==
    /\ phase = "off" /\ restarts < MaxRestarts /\ dat # "torn"
    /\ \E order \in {s \in [1 .. Cardinality(Restorable) -> Restorable] : Injective(s)} :
         \E new \in {f \in [Restorable -> Handle] : Injective(f)} :
           /\ tor' = [x \in Handle |->
                IF \E h \in Restorable : new[h] = x
                THEN LET h == CHOOSE g \in Restorable : new[g] = x
                     IN  [life |-> "live", hash |-> h, flags |-> files[h].flags \cup {"auto_managed"},
                          complete |-> files[h].complete, limited |-> files[h].limited]
                ELSE Unused]
           /\ torrents' = [h \in Hash |->
                IF h \in Restorable THEN Refreshed(NoEntry, new[h], tor'[new[h]]) ELSE NoEntry]
           /\ alerts' = [i \in DOMAIN order |-> [type |-> "added", handle |-> new[order[i]]]]
    /\ phase' = "sleep" /\ running' = TRUE
    /\ restarts' = restarts + 1
    /\ UNCHANGED <<ui, sent, commands, worker, batch, at, popped, pending, last_error, posted, events, files, dat, saving>>

-----------------------------------------------------------------------------
(* The specification *)

Client ==
    \/ \E t \in Requests, h \in Hash : Enqueue(t, h)
    \/ BeginClearsError
    \/ TakeLastError
    \/ PollFreezes
    \/ Shutdown

FirstPass ==
    PassBy \/ SecondPassBegins \/ StageFails \/ BeginStagedAgain \/ BeginReusesListed \/ BeginAdds \/ Finalize \/ Cancel \/ Add

SecondPass ==
    \/ OpNotFound \/ Pause \/ ResumeTorrent \/ StopSeeding \/ ResumeSeeding \/ SeedingOpRefused
    \/ ForceRecheck \/ Adjust \/ AdjustRefused \/ Remove

Pump == PopAlerts \/ HandleRemoved \/ HandleUpdate \/ RefreshAll

Worker == TakeBatch \/ FirstPass \/ SecondPass \/ Pump \/ HandleThrows \/ WorkerExits

Libtorrent ==
    \/ RunRemoval
    \/ \E x \in Handle : DestroyTorrent(x) \/ TorrentFinishes(x) \/ TorrentReports(x) \/ AutoManage(x)

Lifecycle ==
    \/ \E h \in Hash : SaveResume(h) \/ SaveFails(h)
    \/ FinishShutdown
    \/ Crash
    \/ Start

Next == Client \/ Worker \/ Libtorrent \/ Lifecycle

Spec == Init /\ [][Next]_vars

\* The operating system runs all threads: the worker keeps looping, begin_magnet_preview goes on
\* from one critical section to the next, libtorrent runs what is posted to it, and persist_state
\* stops waiting after five seconds.  Nothing makes the client call, or libtorrent answer a save.
FairSpec ==
    /\ Spec
    /\ WF_vars(Worker) /\ WF_vars(BeginClearsError) /\ WF_vars(RunRemoval) /\ WF_vars(FinishShutdown)

-----------------------------------------------------------------------------
(* Properties *)

Life(x) == tor[x].life

\* The key h has the handle x, in the library or as a preview.
Held(h, x) == x = torrents[h].handle \/ x = pending[h]

RemovedInFlight(x) ==
    \/ \E i \in DOMAIN popped : popped[i].type = "removed" /\ popped[i].handle = x
    \/ \E i \in DOMAIN alerts : alerts[i].type = "removed" /\ alerts[i].handle = x

AddedInFlight(x) ==
    \/ \E i \in DOMAIN popped : popped[i].type = "added" /\ popped[i].handle = x
    \/ \E i \in DOMAIN alerts : alerts[i].type = "added" /\ alerts[i].handle = x

RemovalPosted(x) == \E i \in DOMAIN posted : posted[i] = x

\* No ghost rows: a torrent in the library or staged as a preview is alive in the session, or
\* its removed alert, which clears both maps, is still on its way.  Late state or metadata
\* alerts re-insert removed torrents (update_entry, lines 561-598); this says it never lasts.
NoGhost ==
    \A h \in Hash : \A x \in Handle : Held(h, x) => Life(x) = "live" \/ RemovedInFlight(x)

\* No orphans: a torrent alive in the session can be reached by the client (it is listed or
\* staged), or its removal is posted, or the added alert that will list it is on its way.
\* Stale removed alerts (lines 664-670) erase the entries of a torrent added again.
NoOrphan ==
    \A x \in Handle : Life(x) = "live" =>
        \/ torrents[tor[x].hash].handle = x
        \/ pending[tor[x].hash] = x
        \/ RemovalPosted(x)
        \/ AddedInFlight(x)

\* The engine's upload_stopped flag is never a promise libtorrent does not keep: the torrent of
\* a flagged entry has its upload limited, or its key is about to be cleared by a removed alert
\* (StopSeeding and ResumeSeeding, lines 1019-1068; the flag is carried from handle to handle
\* by update_entry).
StoppedIsLimited ==
    \A h \in Hash : torrents[h].upload_stopped =>
        \/ tor[torrents[h].handle].limited
        \/ \E x \in Handle : tor[x].hash = h /\ RemovedInFlight(x)

\* The torrent of an entry without the flag has its upload limited to a byte a second, and is not
\* paused for the user: it runs, or the queueing logic may run it.
ThrottledUnseen(h) ==
    LET x == torrents[h].handle
    IN  /\ Live(x) /\ tor[x].limited /\ ~torrents[h].upload_stopped
        /\ "paused" \notin tor[x].flags \/ "auto_managed" \in tor[x].flags

\* The worker is about to start the torrent of h as a preview (lines 809 and 885).
StartsPreview(h) ==
    /\ At("FinalizeMagnetPreview") \/ (At("BeginMagnetPreview") /\ Staged(h))
    /\ Current.hash = h

\* No torrent becomes throttled unseen while it stays listed: Pause forgets the flag and leaves the
\* limit (lines 998-1019), but only resuming lets the torrent run again, and that lifts the limit.
\* The exception are the preview commands, which start a torrent of the library as it is.
NeverThrottledUnseen ==
    [][\A h \in Hash : ThrottledUnseen(h)' /\ torrents'[h].handle = torrents[h].handle =>
            ThrottledUnseen(h) \/ StartsPreview(h)]_vars

\* The engine between two rounds with nothing under way in libtorrent.
AtRest == phase = "sleep" /\ running /\ posted = <<>> /\ alerts = <<>>

\* What was removed stays removed: with the engine at rest, a resume file the next start will
\* restore belongs to a torrent of the library (delete_resume_file, line 1095).
FilesMatchLibrary == AtRest => \A h \in Hash : files[h].kind = "whole" => Listed(h)

\* The one way around it: cancelling a preview that reuses a torrent of the library removes that
\* torrent and leaves its file (lines 897-921).  The same engine for clients that never do so:
SparingCancel == Cancel /\ ~(Staged(Current.hash) /\ Listed(Current.hash))

SparingFirstPass ==
    \/ PassBy \/ SecondPassBegins \/ StageFails \/ BeginStagedAgain \/ BeginReusesListed \/ BeginAdds
    \/ Finalize \/ SparingCancel \/ Add

SparingNext ==
    \/ Client \/ Libtorrent \/ Lifecycle
    \/ TakeBatch \/ SparingFirstPass \/ SecondPass \/ Pump \/ HandleThrows \/ WorkerExits

SparingSpec == Init /\ [][SparingNext]_vars

\* Nothing is under way that could take the torrent of h out of the session or out of the library.
Settled(h) ==
    /\ Live(torrents[h].handle)
    /\ \A i \in DOMAIN posted : tor[posted[i]].hash # h
    /\ \A x \in Handle : RemovedInFlight(x) => tor[x].hash # h

\* Why FilesMatchLibrary holds, at rest or not: while the engine runs, whatever is staged, added,
\* removed or pumped, a torrent that the next start will restore is settled.
FileInv ==
    phase \notin {"off", "persisting"} => \A h \in Hash : files[h].kind = "whole" => Settled(h)

\* A preview stays hidden from snapshots() until finalized (session_manager.hpp, line 47): at
\* rest no listed torrent is still in the upload mode begin_magnet_preview starts it with.
PreviewHidden ==
    AtRest => \A h \in Hash : Listed(h) => "upload_mode" \notin tor[torrents[h].handle].flags

\* The worker never waits for the mutex it holds, so that the calls the UI polls with return
\* ("Thread-safe snapshot for UI (may be called from any thread)", session_manager.hpp, line 36).
UiNotFrozen == ui # "frozen"

\* The snapshots show a stopped upload (types.hpp, line 47).
SnapshotShowsStopped == \A h \in Hash : torrents[h].shown_stopped = torrents[h].upload_stopped

\* An error stays until it is read ("Last engine error (e.g. failed add); cleared when read",
\* session_manager.hpp, line 58): begin_magnet_preview does not clear the error its own
\* command has meanwhile run into.
OwnErrorKept == [][~(ui = "clearing" /\ ui' = "idle" /\ running /\ last_error = sent)]_vars

\* Why NoGhost holds.  A non-removed alert of a torrent that has left the session is always
\* followed by its removed alert: libtorrent posts nothing after it, and the pump pops alerts in
\* the order of posting.  So whatever a late alert re-inserts, a removed alert still clears.
ClosedByRemoved(i, x) ==
    \/ \E j \in DOMAIN popped : j > i /\ popped[j].type = "removed" /\ popped[j].handle = x
    \/ \E j \in DOMAIN alerts : alerts[j].type = "removed" /\ alerts[j].handle = x

PoppedClosed ==
    \A i \in DOMAIN popped :
        LET x == popped[i].handle
        IN  /\ Life(x) # "unused"
            /\ popped[i].type # "removed" /\ Life(x) # "live" => ClosedByRemoved(i, x)

AlertsClosed ==
    \A i \in DOMAIN alerts :
        LET x == alerts[i].handle
        IN  /\ Life(x) # "unused"
            /\ alerts[i].type # "removed" /\ Life(x) # "live" =>
                   \E j \in DOMAIN alerts : j > i /\ alerts[j].type = "removed" /\ alerts[j].handle = x

\* Handles are kept under the hash of their torrent.
KeysMatch == \A h \in Hash : \A x \in Handle : Held(h, x) => tor[x].hash = h /\ Life(x) # "unused"

PumpOnlyInAlerts ==
    /\ phase # "alerts" => popped = <<>>
    /\ phase = "off" => \A h \in Hash : pending[h] = NoHandle

\* The inductive strengthening of NoGhost (pump_alerts_once, lines 640-701): every alert still to
\* be handled, popped or not, is closed by a later removed alert or is about a live torrent.
GhostInv == NoGhost /\ PoppedClosed /\ AlertsClosed /\ KeysMatch /\ PumpOnlyInAlerts

IsQueued(id) ==
    \/ \E i \in DOMAIN commands : commands[i].id = id
    \/ \E i \in DOMAIN batch : batch[i].id = id

\* Every accepted command is run or dropped with the process, unless the worker has hung or
\* died: no command stays in the queue for ever (process_commands, lines 770-1101).
RequestsServed == \A id \in 1 .. MaxRequests : IsQueued(id) ~> (~IsQueued(id) \/ worker # "running")

\* A row of a torrent that has left the session disappears.
GhostsVanish ==
    \A h \in Hash :
        (\E x \in Handle : x = torrents[h].handle /\ Life(x) # "live")
            ~> (torrents[h].handle = NoHandle \/ Life(torrents[h].handle) = "live" \/ worker # "running")

\* shutdown() returns, whatever libtorrent answers to the saves, unless the worker hangs or dies.
ShutdownReturns == (ui = "joining") ~> (phase = "off" \/ worker # "running")

=============================================================================
