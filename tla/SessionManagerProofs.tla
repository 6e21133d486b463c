------------------------ MODULE SessionManagerProofs ------------------------
(***************************************************************************)
(* Proofs about SessionManager, for every number of hashes, torrent        *)
(* objects, requests, events and restarts.  This module has the types, and *)
(* that SessionManager implements CommandLanes; LibraryProofs relates the  *)
(* library to the session, and EntryProofs what an entry says to what its  *)
(* torrent does.                                                           *)
(***************************************************************************)
EXTENDS SessionManagerLanes, TLAPS, FiniteSetTheorems

-----------------------------------------------------------------------------
(* Types *)

\* update_entry stores well-formed entries whatever it is given.
LEMMA UpdateEntryType ==
    ASSUME NEW x \in Handle, NEW T \in [Handle -> Torrent],
           NEW lib \in [Hash -> Entry], NEW stg \in [Hash -> Handle \cup {NoHandle}],
           UpdateEntry(x, T, lib, stg)
    PROVE  /\ torrents' \in [Hash -> Entry]
           /\ pending' \in [Hash -> Handle \cup {NoHandle}]
<1>1. T[x].hash \in Hash /\ T[x].complete \in BOOLEAN
  BY DEF Torrent
<1>2. Refreshed(lib[T[x].hash], x, T[x]) \in Entry
  BY <1>1 DEF Refreshed, SnapshotState, Entry, State
<1>3. NoEntry \in Entry
  BY DEF NoEntry, Entry, State
<1> QED
  BY <1>1, <1>2, <1>3 DEF UpdateEntry

\* A torrent object stays well-formed when its flags change.
LEMMA FlagsType ==
    ASSUME NEW T \in [Handle -> Torrent], NEW x \in Handle, NEW f \in SUBSET Flags
    PROVE  [T EXCEPT ![x].flags = f] \in [Handle -> Torrent]
  BY DEF Torrent

\* Every value the initial state needs is in its type.
LEMMA InitType == Init => TypeOK
<1>1. NoEntry \in Entry
  BY DEF NoEntry, Entry, State
<1>2. Unused \in Torrent
  BY HashAssumption DEF Unused, Torrent
<1>3. NoFile \in ResumeFile
  BY DEF NoFile, ResumeFile
<1> QED
  BY <1>1, <1>2, <1>3, BoundsAssumption DEF Init, TypeOK, Error, AlertError, NoError

\* What the client calls keeps the types.
LEMMA ClientType == TypeOK /\ Client => TypeOK'
<1> SUFFICES ASSUME TypeOK, Client PROVE TypeOK'
  OBVIOUS
<1> USE BoundsAssumption, RequestsAssumption
<1>1. ASSUME NEW t \in Requests, NEW h \in Hash, Enqueue(t, h) PROVE TypeOK'
  <2>1. [type |-> t, hash |-> h, id |-> sent + 1] \in Command
    BY <1>1 DEF Enqueue, TypeOK, Command
  <2> QED
    BY <1>1, <2>1 DEF Enqueue, TypeOK, batchVars, engineVars, ltVars, diskVars
<1>2. CASE BeginClearsError \/ TakeLastError
  BY <1>2 DEF BeginClearsError, TakeLastError, TypeOK, Error, NoError, AlertError, uiVars, batchVars, engineVars, ltVars, diskVars
<1>3. CASE PollFreezes \/ Shutdown
  BY <1>3 DEF PollFreezes, Shutdown, TypeOK, batchVars, engineVars, ltVars, diskVars
<1> QED
  BY <1>1, <1>2, <1>3 DEF Client

\* The command a pass has come to is a command, and there is a place after it.
LEMMA CurrentType ==
    ASSUME TypeOK, NEW t, At(t)
    PROVE  at + 1 \in 1 .. Len(batch) + 1 /\ Current.hash \in Hash /\ Current.id \in Error
<1>1. at \in Nat /\ Len(batch) \in Nat /\ at <= Len(batch) /\ at \in 1 .. Len(batch)
  BY DEF At, TypeOK
<1>2. batch[at] \in Command
  BY <1>1 DEF TypeOK
<1> QED
  BY <1>1, <1>2, BoundsAssumption DEF Current, Command, Error, AlertError

\* The first pass over the batch keeps the types.
LEMMA FirstPassType == TypeOK /\ (TakeBatch \/ FirstPass) => TypeOK'
<1> SUFFICES ASSUME TypeOK, TakeBatch \/ FirstPass PROVE TypeOK'
  OBVIOUS
<1> USE BoundsAssumption, NoHandleAssumption DEF uiVars, batchVars, engineVars, ltVars, diskVars
<1>1. CASE TakeBatch
  BY <1>1 DEF TakeBatch, TypeOK
<1>2. CASE PassBy \/ SecondPassBegins
  BY <1>2 DEF PassBy, NextCommand, SecondPassBegins, TypeOK
<1>3. ASSUME NEW t, At(t) PROVE at + 1 \in 1 .. Len(batch) + 1 /\ Current.hash \in Hash /\ Current.id \in Error
  BY <1>3, CurrentType
<1>4. CASE StageFails
  BY <1>4, <1>3 DEF StageFails, NextCommand, TypeOK
<1>5. CASE BeginStagedAgain
  <2> DEFINE x == pending[Current.hash]
  <2>1. x \in Handle /\ tor' = [tor EXCEPT ![x].flags = @ \ {"paused"}]
    BY <1>5 DEF BeginStagedAgain, Valid
  <2>2. tor[x].flags \ {"paused"} \in SUBSET Flags
    BY <2>1 DEF TypeOK, Torrent
  <2>3. tor' \in [Handle -> Torrent]
    BY <2>1, <2>2, FlagsType DEF TypeOK
  <2> QED
    BY <1>5, <1>3, <2>3 DEF BeginStagedAgain, TypeOK
<1>6. CASE BeginReusesListed
  BY <1>6, <1>3 DEF BeginReusesListed, NextCommand, TypeOK, Entry
<1>7. ASSUME NEW h \in Hash, NEW x \in AddResult(h), NEW f \in SUBSET Flags
      PROVE  /\ x \in Handle
             /\ Added(h, x, f) \in [Handle -> Torrent]
             /\ Append(alerts, [type |-> "added", handle |-> x]) \in Seq(Alert)
  BY <1>7 DEF AddResult, Added, TypeOK, Torrent, Alert
<1>8. CASE BeginAdds
  <2> DEFINE h == Current.hash
  <2>1. PICK x \in AddResult(h) :
          /\ tor' = [Added(h, x, {"upload_mode"}) EXCEPT ![x].flags = @ \ {"paused"}]
          /\ Post("added", x)
          /\ pending' = [pending EXCEPT ![h] = x]
    BY <1>8 DEF BeginAdds
  <2>2. h \in Hash /\ at + 1 \in 1 .. Len(batch) + 1
    BY <1>8, <1>3 DEF BeginAdds
  <2> DEFINE T == Added(h, x, {"upload_mode"})
  <2>4. x \in Handle /\ T \in [Handle -> Torrent] /\ alerts' \in Seq(Alert)
    BY <2>1, <2>2, <1>7 DEF Post, Flags
  <2>5. T[x].flags \ {"paused"} \in SUBSET Flags
    BY <2>4 DEF Torrent
  <2>3. tor' \in [Handle -> Torrent] /\ alerts' \in Seq(Alert) /\ x \in Handle
    <3> HIDE DEF T
    <3>1. tor' = [T EXCEPT ![x].flags = @ \ {"paused"}]
      BY <2>1 DEF T
    <3> QED
      BY <3>1, <2>4, <2>5, FlagsType
  <2> QED
    BY <1>8, <2>1, <2>2, <2>3 DEF BeginAdds, NextCommand, TypeOK
<1>9. CASE Finalize
  <2> DEFINE h == Current.hash
  <2> DEFINE x == HandleOf(h)
  <2>1. h \in Hash /\ at + 1 \in 1 .. Len(batch) + 1 /\ Current.id \in Error
    BY <1>9, <1>3 DEF Finalize
  <2>2. CASE ~Valid(x)
    BY <1>9, <2>1, <2>2 DEF Finalize, NextCommand, TypeOK
  <2>3. CASE Valid(x)
    <3>1. x \in Handle
      BY <2>3 DEF Valid
    <3>2. tor' = [tor EXCEPT ![x].flags = (@ \ {"upload_mode", "paused"}) \cup {"auto_managed"}]
      BY <1>9, <2>3 DEF Finalize
    <3>3. tor' \in [Handle -> Torrent]
      <4>1. tor \in [Handle -> Torrent]
        BY DEF TypeOK
      <4> HIDE DEF x, h
      <4> QED
        BY <3>1, <3>2, <4>1 DEF Torrent, Flags
    <3>4. UpdateEntry(x, tor', torrents, [pending EXCEPT ![h] = NoHandle])
      BY <1>9, <2>3 DEF Finalize
    <3>5. [pending EXCEPT ![h] = NoHandle] \in [Hash -> Handle \cup {NoHandle}]
      BY DEF TypeOK
    <3>6. tor' \in [Handle -> Torrent] /\ torrents \in [Hash -> Entry]
      BY <3>3 DEF TypeOK
    <3>7. /\ torrents' \in [Hash -> Entry]
          /\ pending' \in [Hash -> Handle \cup {NoHandle}]
      BY <3>1, <3>4, <3>5, <3>6, UpdateEntryType
    <3> QED
      BY <1>9, <2>1, <2>3, <3>3, <3>7 DEF Finalize, NextCommand, TypeOK
  <2> QED
    BY <2>2, <2>3
<1>10. CASE Cancel
  BY <1>10, <1>3 DEF Cancel, NextCommand, Valid, TypeOK
<1>11. CASE Add
  <2> DEFINE h == Current.hash
  <2>1. h \in Hash /\ at + 1 \in 1 .. Len(batch) + 1
    BY <1>11, <1>3 DEF Add
  <2>2. CASE Valid(HandleOf(h))
    <3>1. UpdateEntry(HandleOf(h), tor, torrents, pending) /\ UNCHANGED <<tor, alerts>>
      BY <1>11, <2>2 DEF Add
    <3>2. /\ torrents' \in [Hash -> Entry]
          /\ pending' \in [Hash -> Handle \cup {NoHandle}]
      BY <2>2, <3>1, UpdateEntryType DEF TypeOK, Valid
    <3> QED
      BY <1>11, <2>1, <3>1, <3>2 DEF Add, NextCommand, TypeOK
  <2>3. CASE ~Valid(HandleOf(h))
    <3>1. PICK x \in AddResult(h) :
            /\ tor' = Added(h, x, {"paused", "auto_managed"})
            /\ Post("added", x)
            /\ UpdateEntry(x, tor', torrents, pending)
      BY <1>11, <2>3 DEF Add
    <3>2. x \in Handle /\ tor' \in [Handle -> Torrent] /\ alerts' \in Seq(Alert)
      BY <3>1, <2>1, <1>7 DEF Post, Flags
    <3>3. /\ torrents' \in [Hash -> Entry]
          /\ pending' \in [Hash -> Handle \cup {NoHandle}]
      BY <3>1, <3>2, UpdateEntryType DEF TypeOK
    <3> QED
      BY <1>11, <2>1, <3>2, <3>3 DEF Add, NextCommand, TypeOK
  <2> QED
    BY <2>2, <2>3
<1> QED
  BY <1>1, <1>2, <1>4, <1>5, <1>6, <1>8, <1>9, <1>10, <1>11 DEF FirstPass

\* An operation that gives a torrent object and the library well-formed values keeps the types.
LEMMA OperateType ==
    ASSUME TypeOK, NEW ty, At(ty), NEW x \in Handle, NEW t \in Torrent, NEW lib \in [Hash -> Entry],
           Operate(x, t, lib)
    PROVE  TypeOK'
<1>1. tor' \in [Handle -> Torrent]
  BY DEF Operate, TypeOK
<1>2. pending \in [Hash -> Handle \cup {NoHandle}]
  BY DEF TypeOK
<1>3. UpdateEntry(x, tor', lib, pending)
  BY DEF Operate
<1>4. /\ torrents' \in [Hash -> Entry]
      /\ pending' \in [Hash -> Handle \cup {NoHandle}]
  BY <1>1, <1>2, <1>3, UpdateEntryType
<1> QED
  BY <1>1, <1>4, CurrentType DEF Operate, NextCommand, TypeOK, uiVars, diskVars

\* Setting the flags of an entry keeps the library well-formed.
LEMMA WithStoppedType ==
    ASSUME TypeOK, NEW h \in Hash, NEW b \in BOOLEAN
    PROVE  WithStopped(h, b) \in [Hash -> Entry]
<1>1. torrents[h] \in Entry
  BY DEF TypeOK
<1>2. CASE Listed(h)
  <2>1. [torrents[h] EXCEPT !.upload_stopped = b, !.shown_stopped = b] \in Entry
    BY <1>1 DEF Entry
  <2>2. WithStopped(h, b) = [torrents EXCEPT ![h] = [torrents[h] EXCEPT !.upload_stopped = b, !.shown_stopped = b]]
    BY <1>2 DEF WithStopped, TypeOK
  <2> QED
    BY <2>1, <2>2 DEF TypeOK
<1> QED
  BY <1>2 DEF WithStopped, TypeOK

\* The second pass over the batch keeps the types.
LEMMA SecondPassType == TypeOK /\ SecondPass => TypeOK'
<1> SUFFICES ASSUME TypeOK, SecondPass PROVE TypeOK'
  OBVIOUS
<1> DEFINE h == Current.hash
<1> DEFINE x == HandleOf(h)
<1>1. ASSUME NEW ty, OpFound(ty)
      PROVE  At(ty) /\ h \in Hash /\ x \in Handle /\ tor[x] \in Torrent /\ torrents \in [Hash -> Entry]
  BY <1>1, CurrentType DEF OpFound, Valid, TypeOK
<1>2. CASE OpNotFound \/ AdjustRefused
  BY <1>2, CurrentType DEF OpNotFound, AdjustRefused, NextCommand, TypeOK, uiVars, ltVars, diskVars
<1>3. CASE Pause
  <2> DEFINE t == [tor[x] EXCEPT !.flags = (@ \ {"auto_managed"}) \cup {"paused"}]
  <2>1. OpFound("Pause") /\ Operate(x, t, WithStopped(h, FALSE))
    BY <1>3 DEF Pause
  <2>2. t \in Torrent
    BY <2>1, <1>1 DEF Torrent, Flags
  <2> QED
    BY <2>1, <2>2, <1>1, WithStoppedType, OperateType
<1>4. CASE ResumeTorrent
  <2> DEFINE t == [tor[x] EXCEPT !.flags = (@ \ {"paused"}) \cup {"auto_managed"}, !.limited = @ /\ ~Listed(h)]
  <2>1. OpFound("Resume") /\ Operate(x, t, WithStopped(h, FALSE))
    BY <1>4 DEF ResumeTorrent
  <2>2. t \in Torrent
    BY <2>1, <1>1 DEF Torrent, Flags
  <2> QED
    BY <2>1, <2>2, <1>1, WithStoppedType, OperateType
<1>5. CASE StopSeeding
  <2> DEFINE t == [tor[x] EXCEPT !.limited = TRUE]
  <2>1. OpFound("StopSeeding") /\ Operate(x, t, WithStopped(h, TRUE))
    BY <1>5 DEF StopSeeding
  <2>2. t \in Torrent
    BY <2>1, <1>1 DEF Torrent
  <2> QED
    BY <2>1, <2>2, <1>1, WithStoppedType, OperateType
<1>6. CASE ResumeSeeding
  <2> DEFINE t == [tor[x] EXCEPT !.limited = FALSE]
  <2>1. OpFound("ResumeSeeding") /\ Operate(x, t, WithStopped(h, FALSE))
    BY <1>6 DEF ResumeSeeding
  <2>2. t \in Torrent
    BY <2>1, <1>1 DEF Torrent
  <2> QED
    BY <2>1, <2>2, <1>1, WithStoppedType, OperateType
<1>7. CASE SeedingOpRefused
  BY <1>7, CurrentType DEF SeedingOpRefused, SetErrorUnderLock, TypeOK, uiVars, ltVars, diskVars
<1>8. CASE ForceRecheck
  <2> DEFINE t == [tor[x] EXCEPT !.complete = FALSE]
  <2>1. OpFound("ForceRecheck") /\ Operate(x, t, torrents)
    BY <1>8 DEF ForceRecheck
  <2>2. t \in Torrent
    BY <2>1, <1>1 DEF Torrent
  <2> QED
    BY <2>1, <2>2, <1>1, OperateType
<1>9. CASE Adjust
  <2>1. OpFound("Adjust") /\ Operate(x, tor[x], torrents)
    BY <1>9 DEF Adjust
  <2> QED
    BY <2>1, <1>1, OperateType
<1>10. CASE Remove
  <2>1. h \in Hash /\ at + 1 \in 1 .. Len(batch) + 1 /\ x \in Handle
    BY <1>10, CurrentType DEF Remove, Valid
  <2>2. NoEntry \in Entry /\ NoFile \in ResumeFile
    BY DEF NoEntry, Entry, State, NoFile, ResumeFile
  <2> QED
    BY <1>10, <2>1, <2>2 DEF Remove, DeleteResumeFile, NextCommand, TypeOK, uiVars
<1> QED
  BY <1>2, <1>3, <1>4, <1>5, <1>6, <1>7, <1>8, <1>9, <1>10 DEF SecondPass

\* Handling alerts, refreshing, failing and leaving the loop keep the types.
LEMMA PumpType == TypeOK /\ (Pump \/ HandleThrows \/ WorkerExits) => TypeOK'
<1> SUFFICES ASSUME TypeOK, Pump \/ HandleThrows \/ WorkerExits PROVE TypeOK'
  OBVIOUS
<1> USE DEF uiVars, batchVars, engineVars, ltVars, diskVars
<1>1. ASSUME HandlingAlert
      PROVE  Head(popped) \in Alert /\ Head(popped).handle \in Handle /\ Tail(popped) \in Seq(Alert)
  <2>1. popped \in Seq(Alert) /\ popped # <<>>
    BY <1>1 DEF HandlingAlert, TypeOK
  <2>2. Head(popped) \in Alert /\ Tail(popped) \in Seq(Alert)
    BY <2>1
  <2> QED
    BY <2>2 DEF Alert
<1>2. CASE PopAlerts
  BY <1>2 DEF PopAlerts, TypeOK
<1>3. CASE HandleRemoved
  <2> DEFINE h == tor[Head(popped).handle].hash
  <2>1. h \in Hash
    BY <1>1, <1>3 DEF HandleRemoved, TypeOK, Torrent
  <2>2. NoEntry \in Entry
    BY DEF NoEntry, Entry, State
  <2> QED
    BY <1>1, <1>3, <2>1, <2>2 DEF HandleRemoved, Forget, TypeOK
<1>4. CASE HandleUpdate
  <2> DEFINE x == Head(popped).handle
  <2>1. x \in Handle /\ UpdateEntry(x, tor, torrents, pending)
    BY <1>1, <1>4 DEF HandleUpdate
  <2>2. /\ torrents' \in [Hash -> Entry]
        /\ pending' \in [Hash -> Handle \cup {NoHandle}]
    BY <2>1, UpdateEntryType DEF TypeOK
  <2>3. AlertError \in Error
    BY BoundsAssumption DEF AlertError, Error
  <2> QED
    BY <1>1, <1>4, <2>2, <2>3 DEF HandleUpdate, TypeOK
<1>5. CASE RefreshAll
  <2>1. ASSUME NEW h \in Hash
        PROVE  [torrents[h] EXCEPT !.state = SnapshotState(tor[torrents[h].handle]), !.shown_stopped = FALSE] \in Entry
    <3>1. torrents[h] \in Entry
      BY DEF TypeOK
    <3> QED
      BY <3>1 DEF Entry, State, SnapshotState
  <2> QED
    BY <1>5, <2>1 DEF RefreshAll, TypeOK
<1>6. CASE HandleThrows
  BY <1>6 DEF HandleThrows, TypeOK
<1>7. CASE WorkerExits
  BY <1>7 DEF WorkerExits, TypeOK
<1> QED
  BY <1>2, <1>3, <1>4, <1>5, <1>6, <1>7 DEF Pump

\* What libtorrent does keeps the types.
LEMMA LibtorrentType == TypeOK /\ Libtorrent => TypeOK'
<1> SUFFICES ASSUME TypeOK, Libtorrent PROVE TypeOK'
  OBVIOUS
<1> USE DEF uiVars, batchVars, engineVars, diskVars
<1>1. CASE RunRemoval
  <2> DEFINE x == Head(posted)
  <2>1. x \in Handle /\ Tail(posted) \in Seq(Handle)
    BY <1>1 DEF RunRemoval, TypeOK
  <2>2. [tor[x] EXCEPT !.life = "dying"] \in Torrent
    BY <2>1 DEF TypeOK, Torrent
  <2>3. [tor EXCEPT ![x].life = "dying"] \in [Handle -> Torrent]
    BY <2>1, <2>2 DEF TypeOK
  <2>4. Append(alerts, [type |-> "removed", handle |-> x]) \in Seq(Alert)
    BY <2>1 DEF TypeOK, Alert
  <2>5. tor' \in [Handle -> Torrent] /\ alerts' \in Seq(Alert) /\ posted' \in Seq(Handle)
    BY <1>1, <2>1, <2>3, <2>4 DEF RunRemoval, Post, TypeOK
  <2> QED
    BY <1>1, <2>5 DEF RunRemoval, TypeOK
<1>2. ASSUME NEW x \in Handle, DestroyTorrent(x) PROVE TypeOK'
  <2>1. [tor[x] EXCEPT !.life = "gone"] \in Torrent
    BY DEF TypeOK, Torrent
  <2> QED
    BY <1>2, <2>1 DEF DestroyTorrent, TypeOK
<1>3. ASSUME NEW x \in Handle, NEW t \in Torrent, NEW type \in {"update", "error"}, Event(x, t, type) PROVE TypeOK'
  BY <1>3, BoundsAssumption DEF Event, Post, Alert, TypeOK
<1>4. ASSUME NEW x \in Handle, TorrentFinishes(x) \/ TorrentReports(x) PROVE TypeOK'
  <2>1. tor[x] \in Torrent /\ [tor[x] EXCEPT !.complete = TRUE] \in Torrent
    BY DEF TypeOK, Torrent
  <2> QED
    BY <1>3, <1>4, <2>1 DEF TorrentFinishes, TorrentReports
<1>5. ASSUME NEW x \in Handle, AutoManage(x) PROVE TypeOK'
  <2> DEFINE f == IF "paused" \in tor[x].flags THEN tor[x].flags \ {"paused"} ELSE tor[x].flags \cup {"paused"}
  <2>1. f \in SUBSET Flags
    BY DEF TypeOK, Torrent, Flags
  <2>2. tor' = [tor EXCEPT ![x].flags = f]
    BY <1>5 DEF AutoManage
  <2>3. tor' \in [Handle -> Torrent]
    <3> HIDE DEF f
    <3> QED
      BY <2>1, <2>2, FlagsType DEF TypeOK
  <2> QED
    BY <1>5, <2>3, BoundsAssumption DEF AutoManage, TypeOK
<1> QED
  BY <1>1, <1>2, <1>4, <1>5 DEF Libtorrent

\* The end of a process leaves well-formed state.
LEMMA ProcessEndsType ==
    ASSUME TypeOK, ProcessEnds, dat' \in {"none", "intact", "torn"}, files' \in [Hash -> ResumeFile]
    PROVE  TypeOK'
<1>1. NoEntry \in Entry /\ Unused \in Torrent
  BY HashAssumption DEF NoEntry, Entry, State, Unused, Torrent
<1>2. /\ torrents' \in [Hash -> Entry] /\ pending' \in [Hash -> Handle \cup {NoHandle}]
      /\ tor' \in [Handle -> Torrent]
  BY <1>1 DEF ProcessEnds
<1>3. at' \in 1 .. Len(batch') + 1 /\ NoError \in Error
  BY BoundsAssumption DEF ProcessEnds, Error, NoError, AlertError
<1>4. worker' = "running" /\ phase' = "off" /\ ui' = "idle" /\ running' = FALSE /\ last_error' = NoError
  BY DEF ProcessEnds
<1>5. /\ commands' \in Seq(Command) /\ batch' \in Seq(Command)
      /\ popped' \in Seq(Alert) /\ alerts' \in Seq(Alert) /\ posted' \in Seq(Handle)
  BY DEF ProcessEnds
<1>6. saving' \subseteq Hash /\ sent' \in 0 .. MaxRequests /\ events' \in 0 .. MaxEvents /\ restarts' \in 0 .. MaxRestarts
  BY DEF ProcessEnds, TypeOK
<1> QED
  BY <1>2, <1>3, <1>4, <1>5, <1>6 DEF TypeOK

\* Saving, ending, crashing and starting keep the types.
LEMMA LifecycleType == TypeOK /\ Lifecycle => TypeOK'
<1> SUFFICES ASSUME TypeOK, Lifecycle PROVE TypeOK'
  OBVIOUS
<1> USE DEF uiVars, batchVars, engineVars, ltVars
<1>1. ASSUME NEW h \in Hash, SaveResume(h) PROVE TypeOK'
  <2> DEFINE t == tor[torrents[h].handle]
  <2>1. t \in Torrent
    BY <1>1 DEF SaveResume, Live, TypeOK
  <2>2. [kind |-> "whole", flags |-> t.flags, complete |-> t.complete, limited |-> t.limited] \in ResumeFile
    BY <2>1 DEF Torrent, ResumeFile
  <2> QED
    BY <1>1, <2>2 DEF SaveResume, TypeOK
<1>2. ASSUME NEW h \in Hash, SaveFails(h) PROVE TypeOK'
  BY <1>2 DEF SaveFails, TypeOK
<1>3. CASE FinishShutdown
  BY <1>3, ProcessEndsType DEF FinishShutdown, TypeOK
<1>4. CASE Crash
  <2>1. TornFile \in ResumeFile
    BY DEF TornFile, NoFile, ResumeFile
  <2>2. dat' \in {"none", "intact", "torn"} /\ files' \in [Hash -> ResumeFile]
    BY <1>4, <2>1 DEF Crash, TypeOK
  <2> QED
    BY <1>4, <2>2, ProcessEndsType DEF Crash
<1>5. CASE Start
  <2>1. PICK order \in {s \in [1 .. Cardinality(Restorable) -> Restorable] : Injective(s)},
             new \in {f \in [Restorable -> Handle] : Injective(f)} :
           /\ tor' = [x \in Handle |->
                IF \E h \in Restorable : new[h] = x
                THEN LET h == CHOOSE g \in Restorable : new[g] = x
                     IN  [life |-> "live", hash |-> h, flags |-> files[h].flags \cup {"auto_managed"},
                          complete |-> files[h].complete, limited |-> files[h].limited]
                ELSE Unused]
           /\ torrents' = [h \in Hash |->
                IF h \in Restorable THEN Refreshed(NoEntry, new[h], tor'[new[h]]) ELSE NoEntry]
           /\ alerts' = [i \in DOMAIN order |-> [type |-> "added", handle |-> new[order[i]]]]
    BY <1>5 DEF Start
  <2>2. Restorable \subseteq Hash /\ Cardinality(Restorable) \in Nat
    BY HashAssumption, FS_Subset, FS_CardinalityType DEF Restorable
  <2>3. /\ DOMAIN order = 1 .. Cardinality(Restorable)
        /\ \A i \in DOMAIN order : new[order[i]] \in Handle
        /\ \A h \in Restorable : new[h] \in Handle
    OBVIOUS
  <2>4. tor' \in [Handle -> Torrent]
    <3>1. Unused \in Torrent
      BY HashAssumption DEF Unused, Torrent
    <3>2. ASSUME NEW h \in Hash
          PROVE  [life |-> "live", hash |-> h, flags |-> files[h].flags \cup {"auto_managed"},
                  complete |-> files[h].complete, limited |-> files[h].limited] \in Torrent
      BY DEF TypeOK, ResumeFile, Torrent, Flags
    <3>3. ASSUME NEW x \in Handle, \E h \in Restorable : new[h] = x
          PROVE  (CHOOSE g \in Restorable : new[g] = x) \in Hash
      BY <2>2, <3>3
    <3> QED
      BY <2>1, <3>1, <3>2, <3>3
  <2>5. torrents' \in [Hash -> Entry]
    <3>1. NoEntry \in Entry
      BY DEF NoEntry, Entry, State
    <3>2. ASSUME NEW h \in Restorable PROVE Refreshed(NoEntry, new[h], tor'[new[h]]) \in Entry
      BY <2>3, <3>1 DEF Refreshed, SnapshotState, Entry, State
    <3> QED
      BY <2>1, <2>2, <3>1, <3>2
  <2>6. alerts' \in Seq(Alert)
    <3>1. ASSUME NEW i \in DOMAIN order PROVE [type |-> "added", handle |-> new[order[i]]] \in Alert
      BY <2>3 DEF Alert
    <3>2. alerts' \in [1 .. Cardinality(Restorable) -> Alert]
      BY <2>1, <2>3, <3>1
    <3> QED
      BY <2>2, <3>2
  <2>7. /\ phase' = "sleep" /\ running' = TRUE /\ restarts' \in 0 .. MaxRestarts
        /\ UNCHANGED <<ui, sent, commands, worker, batch, at, popped, pending, last_error, posted, events, files, dat, saving>>
    BY <1>5, BoundsAssumption DEF Start, TypeOK
  <2> QED
    BY <2>4, <2>5, <2>6, <2>7 DEF TypeOK
<1> QED
  BY <1>1, <1>2, <1>3, <1>4, <1>5 DEF Lifecycle

\* Every variable keeps its type in every run: in particular a pass never runs past the end of
\* its batch, whatever is enqueued meanwhile.
THEOREM TypeCorrect == Spec => []TypeOK
<1>1. TypeOK /\ [Next]_vars => TypeOK'
  <2>1. TypeOK /\ UNCHANGED vars => TypeOK'
    BY DEF TypeOK, vars, uiVars, batchVars, engineVars, ltVars, diskVars
  <2> QED
    BY <2>1, ClientType, FirstPassType, SecondPassType, PumpType, LibtorrentType, LifecycleType DEF Next, Worker
<1> QED
  BY <1>1, InitType, PTL DEF Spec

-----------------------------------------------------------------------------
(* Command lanes.  The lanes are sets, so the proof has to know that numbers grow along the batch and the
   queue, and from one to the other (LaneInv): then the command a pass has come to is the first of its
   lane, an operation is behind no staging command, and no number is at two places. *)

LaneInv ==
    /\ \A i, j \in DOMAIN commands : i < j => commands[i].id < commands[j].id
    /\ \A i, j \in DOMAIN batch : i < j => batch[i].id < batch[j].id
    /\ \A i \in DOMAIN batch : \A j \in DOMAIN commands : batch[i].id < commands[j].id
    /\ \A i \in DOMAIN commands : commands[i].id <= sent
    /\ \A i \in DOMAIN batch : batch[i].id <= sent
    /\ phase \notin {"staging", "operating"} => batch = <<>>

Staging == Lane(StagingLeft, StageTypes)
Operations == Lane(OperationsLeft, OpTypes)

\* The worker moves on by one command of the batch, in either pass.
RunsCurrent ==
    /\ phase \in {"staging", "operating"} /\ at <= Len(batch)
    /\ at' = at + 1
    /\ UNCHANGED <<sent, commands, phase, batch>>

\* What TypeOK says of the queue and the batch.
LEMMA QueueTypes ==
    ASSUME TypeOK
    PROVE  /\ Len(batch) \in Nat /\ DOMAIN batch = 1 .. Len(batch)
           /\ Len(commands) \in Nat /\ DOMAIN commands = 1 .. Len(commands)
           /\ \A i \in DOMAIN batch : batch[i].id \in Nat /\ batch[i].type \in StageTypes \cup OpTypes
           /\ \A i \in DOMAIN commands : commands[i].id \in Nat /\ commands[i].type \in StageTypes \cup OpTypes
           /\ at \in 1 .. Len(batch) + 1 /\ sent \in Nat
<1>1. commands \in Seq(Command) /\ batch \in Seq(Command) /\ at \in 1 .. Len(batch) + 1 /\ sent \in 0 .. MaxRequests
  BY DEF TypeOK
<1>2. \A c \in Command : c.id \in Nat /\ c.type \in StageTypes \cup OpTypes
  BY BoundsAssumption DEF Command
<1> QED
  BY <1>1, <1>2, BoundsAssumption

\* No command is both staging and an operation.
LEMMA LanesApart == StageTypes \cap OpTypes = {}
  BY DEF StageTypes, OpTypes

\* Between two batches the lanes hold what waits in the queue.
LEMMA EmptyBatchLanes ==
    ASSUME TypeOK, TypeOK', batch = <<>>, UNCHANGED <<sent, commands, batch>>
    PROVE  Staging' = Staging /\ Operations' = Operations
<1>1. at = 1 /\ at' = 1 /\ Len(batch) = 0
  BY DEF TypeOK
<1>2. StagingLeft = {} /\ OperationsLeft = {} /\ StagingLeft' = {} /\ OperationsLeft' = {}
  BY <1>1 DEF StagingLeft, OperationsLeft
<1> QED
  BY <1>2 DEF Staging, Operations, Lane

\* A step that leaves queue, batch and place alone leaves the lanes alone.
LEMMA StayLanes ==
    ASSUME LaneInv, UNCHANGED <<sent, commands, phase, batch, at>>
    PROVE  LaneInv' /\ Staging' = Staging /\ Operations' = Operations
  BY DEF LaneInv, Staging, Operations, Lane, StagingLeft, OperationsLeft

\* Passing one command: it leaves the lane of the pass, if it is of that lane, and it was the
\* first of the lane, with no staging command before it.
LEMMA RunsCurrentLanes ==
    ASSUME TypeOK, LaneInv, RunsCurrent
    PROVE  /\ LaneInv'
           /\ \/ Staging' = Staging /\ Operations' = Operations
              \/ \E n \in Staging : Lanes!RunStaging(n)
              \/ \E n \in Operations : Lanes!RunOperation(n)
<1>1. LaneInv'
  BY DEF LaneInv, RunsCurrent
<1> DEFINE n == batch[at].id
<1>2. at \in DOMAIN batch /\ n \in Nat /\ at \in Nat /\ Len(batch) \in Nat /\ batch[at].type \in StageTypes \cup OpTypes
  BY QueueTypes DEF RunsCurrent
<1>3. \A i \in DOMAIN batch : at < i => n < batch[i].id
  BY <1>2, QueueTypes DEF LaneInv
<1>4. \A i \in DOMAIN commands : n < commands[i].id
  BY <1>2, QueueTypes DEF LaneInv
<1>5. CASE phase = "staging" /\ batch[at].type \in StageTypes
  <2>1. StagingLeft' = StagingLeft \ {at} /\ at \in StagingLeft
    BY <1>2, <1>5 DEF StagingLeft, RunsCurrent
  <2>2. OperationsLeft' = OperationsLeft
    BY <1>5 DEF OperationsLeft, RunsCurrent
  <2>3. \A i \in StagingLeft \ {at} : n < batch[i].id
    BY <1>2, <1>3, QueueTypes DEF StagingLeft
  <2>4. Staging' = Staging \ {n} /\ n \in Staging
    BY <1>2, <1>4, <2>1, <2>3, QueueTypes DEF Staging, Lane, RunsCurrent
  <2>5. \A m \in Staging : n <= m
    BY <1>2, <1>4, <2>3, QueueTypes DEF Staging, Lane, StagingLeft
  <2>6. Operations' = Operations /\ sent' = sent
    BY <2>2 DEF Operations, Lane, RunsCurrent
  <2> QED
    BY <1>1, <2>4, <2>5, <2>6 DEF Lanes!RunStaging, Staging, Operations
<1>6. CASE phase = "operating" /\ batch[at].type \in OpTypes
  <2>1. OperationsLeft' = OperationsLeft \ {at} /\ at \in OperationsLeft
    BY <1>2, <1>6 DEF OperationsLeft, RunsCurrent
  <2>2. StagingLeft = {} /\ StagingLeft' = {}
    BY <1>6 DEF StagingLeft, RunsCurrent
  <2>3. \A i \in OperationsLeft \ {at} : n < batch[i].id
    BY <1>2, <1>3, <1>6, QueueTypes DEF OperationsLeft
  <2>4. Operations' = Operations \ {n} /\ n \in Operations
    BY <1>2, <1>4, <2>1, <2>3, QueueTypes DEF Operations, Lane, RunsCurrent
  <2>5. ASSUME NEW m \in Operations PROVE n <= m
    <3>1. CASE \E i \in OperationsLeft : m = batch[i].id
      BY <1>2, <2>3, <3>1, QueueTypes DEF OperationsLeft
    <3>2. CASE \E i \in DOMAIN commands : m = commands[i].id
      BY <1>2, <1>4, <3>2, QueueTypes
    <3> QED
      BY <3>1, <3>2 DEF Operations, Lane
  <2>6. Staging' = Staging /\ sent' = sent /\ \A m \in Staging : n < m
    BY <1>4, <2>2 DEF Staging, Lane, RunsCurrent
  <2> QED
    BY <1>1, <2>4, <2>5, <2>6 DEF Lanes!RunOperation, Staging, Operations
<1>7. CASE phase = "staging" /\ batch[at].type \in OpTypes
  <2>1. StagingLeft' = StagingLeft /\ OperationsLeft' = OperationsLeft
    BY <1>2, <1>7, LanesApart DEF StagingLeft, OperationsLeft, RunsCurrent
  <2> QED
    BY <1>1, <2>1 DEF Staging, Operations, Lane, RunsCurrent
<1>8. CASE phase = "operating" /\ batch[at].type \in StageTypes
  <2>1. StagingLeft' = StagingLeft /\ OperationsLeft' = OperationsLeft
    BY <1>2, <1>8, LanesApart DEF StagingLeft, OperationsLeft, RunsCurrent
  <2> QED
    BY <1>1, <2>1 DEF Staging, Operations, Lane, RunsCurrent
<1> QED
  BY <1>2, <1>5, <1>6, <1>7, <1>8 DEF RunsCurrent

\* A client step accepts one command, behind all others, or leaves the lanes alone.
LEMMA ClientLanes ==
    ASSUME TypeOK, LaneInv, Client
    PROVE  /\ LaneInv'
           /\ \/ Staging' = Staging /\ Operations' = Operations /\ sent' = sent
              \/ Lanes!AcceptStaging
              \/ Lanes!AcceptOperation
<1>1. CASE BeginClearsError \/ TakeLastError \/ PollFreezes \/ Shutdown
  <2>1. UNCHANGED <<sent, commands, phase, batch, at>>
    BY <1>1 DEF BeginClearsError, TakeLastError, PollFreezes, Shutdown, uiVars, batchVars
  <2> QED
    BY <2>1, StayLanes
<1>2. CASE \E t \in Requests, h \in Hash : Enqueue(t, h)
  <2>1. PICK t \in Requests, h \in Hash : Enqueue(t, h)
    BY <1>2
  <2> DEFINE c == [type |-> t, hash |-> h, id |-> sent + 1]
  <2>2. commands' = Append(commands, c) /\ sent' = sent + 1 /\ UNCHANGED <<phase, batch, at>>
    BY <2>1 DEF Enqueue, batchVars
  <2>3. c.id = sent + 1 /\ c.type = t /\ t \in StageTypes \cup OpTypes
    BY RequestsAssumption
  <2> HIDE DEF c
  <2>4. /\ DOMAIN commands' = DOMAIN commands \cup {Len(commands) + 1}
        /\ Len(commands) + 1 \notin DOMAIN commands
        /\ commands'[Len(commands) + 1] = c
        /\ \A i \in DOMAIN commands : commands'[i] = commands[i]
    BY <2>2, QueueTypes DEF TypeOK
  <2>5. LaneInv'
    BY <2>2, <2>3, <2>4, QueueTypes DEF LaneInv
  <2>6. StagingLeft' = StagingLeft /\ OperationsLeft' = OperationsLeft
    BY <2>2 DEF StagingLeft, OperationsLeft
  <2>7. CASE t \in StageTypes
    <3>1. Staging' = Staging \cup {sent + 1}
      BY <2>2, <2>3, <2>4, <2>6, <2>7 DEF Staging, Lane
    <3>2. Operations' = Operations
      BY <2>2, <2>3, <2>4, <2>6, <2>7, LanesApart DEF Operations, Lane
    <3> QED
      BY <2>2, <2>5, <3>1, <3>2 DEF Lanes!AcceptStaging, Staging, Operations
  <2>8. CASE t \in OpTypes
    <3>1. Operations' = Operations \cup {sent + 1}
      BY <2>2, <2>3, <2>4, <2>6, <2>8 DEF Operations, Lane
    <3>2. Staging' = Staging
      BY <2>2, <2>3, <2>4, <2>6, <2>8, LanesApart DEF Staging, Lane
    <3> QED
      BY <2>2, <2>5, <3>1, <3>2 DEF Lanes!AcceptOperation, Staging, Operations
  <2> QED
    BY <2>3, <2>7, <2>8
<1> QED
  BY <1>1, <1>2 DEF Client

\* Taking the batch moves the whole queue in front of the passes, and changes no lane.
LEMMA TakeBatchLanes ==
    ASSUME TypeOK, LaneInv, TakeBatch
    PROVE  LaneInv' /\ Staging' = Staging /\ Operations' = Operations /\ sent' = sent
<1>1. /\ phase = "sleep" /\ batch = <<>>
      /\ phase' = "staging" /\ batch' = commands /\ commands' = <<>> /\ at' = 1 /\ sent' = sent
  BY DEF TakeBatch, In, LaneInv
<1>2. LaneInv'
  BY <1>1, QueueTypes DEF LaneInv
<1>3. StagingLeft = {} /\ OperationsLeft = {}
  BY <1>1, QueueTypes DEF StagingLeft, OperationsLeft
<1>4. /\ StagingLeft' = {i \in DOMAIN commands : commands[i].type \in StageTypes}
      /\ OperationsLeft' = {i \in DOMAIN commands : commands[i].type \in OpTypes}
  BY <1>1, QueueTypes DEF StagingLeft, OperationsLeft
<1> QED
  BY <1>1, <1>2, <1>3, <1>4 DEF Staging, Operations, Lane

\* Each handler of the two passes moves on by one command; between them the second pass begins.
LEMMA PassesRun ==
    ASSUME FirstPass \/ SecondPass
    PROVE  RunsCurrent \/ SecondPassBegins
<1>1. CASE FirstPass
  BY <1>1 DEF FirstPass, PassBy, StageFails, BeginStagedAgain, BeginReusesListed, BeginAdds, Finalize, Cancel, Add,
              At, In, NextCommand, uiVars, RunsCurrent
<1>2. CASE SecondPass
  BY <1>2 DEF SecondPass, OpNotFound, Pause, ResumeTorrent, StopSeeding, ResumeSeeding, SeedingOpRefused, ForceRecheck,
              Adjust, AdjustRefused, Remove, OpFound, Operate, At, In, NextCommand, uiVars, RunsCurrent
<1> QED
  BY <1>1, <1>2

\* The second pass begins when no staging command of the batch is left.
LEMMA SecondPassLanes ==
    ASSUME TypeOK, LaneInv, SecondPassBegins
    PROVE  LaneInv' /\ Staging' = Staging /\ Operations' = Operations /\ sent' = sent
<1>1. /\ phase = "staging" /\ at > Len(batch) /\ phase' = "operating" /\ at' = 1
      /\ UNCHANGED <<sent, commands, batch>>
  BY DEF SecondPassBegins, In, uiVars
<1>2. LaneInv'
  BY <1>1 DEF LaneInv
<1>3. StagingLeft = {} /\ StagingLeft' = {} /\ OperationsLeft' = OperationsLeft
  BY <1>1, QueueTypes DEF StagingLeft, OperationsLeft
<1> QED
  BY <1>1, <1>2, <1>3 DEF Staging, Operations, Lane

\* Nothing of the batch is left when its alerts are popped.
LEMMA PopAlertsLanes ==
    ASSUME TypeOK, LaneInv, PopAlerts
    PROVE  LaneInv' /\ Staging' = Staging /\ Operations' = Operations /\ sent' = sent
<1>1. /\ phase = "operating" /\ at > Len(batch) /\ phase' = "alerts" /\ batch' = <<>> /\ at' = 1
      /\ UNCHANGED <<sent, commands>>
  BY DEF PopAlerts, In, uiVars
<1>2. LaneInv'
  BY <1>1 DEF LaneInv
<1>3. StagingLeft = {} /\ StagingLeft' = {} /\ OperationsLeft = {} /\ OperationsLeft' = {}
  BY <1>1, QueueTypes DEF StagingLeft, OperationsLeft
<1> QED
  BY <1>1, <1>2, <1>3 DEF Staging, Operations, Lane

\* The end of the process drops both lanes.
LEMMA ProcessEndsLanes ==
    ASSUME ProcessEnds
    PROVE  LaneInv' /\ Lanes!DropAll
<1>1. phase' = "off" /\ commands' = <<>> /\ batch' = <<>> /\ at' = 1 /\ sent' = sent
  BY DEF ProcessEnds
<1>2. LaneInv'
  BY <1>1 DEF LaneInv
<1>3. Staging' = {} /\ Operations' = {}
  <2>1. StagingLeft' = {} /\ OperationsLeft' = {}
    BY <1>1 DEF StagingLeft, OperationsLeft
  <2> QED
    BY <1>1, <2>1 DEF Staging, Operations, Lane
<1> QED
  BY <1>1, <1>2, <1>3 DEF Lanes!DropAll, Staging, Operations

\* Every step of the engine keeps the numbers in order, and is a step of the lanes or leaves
\* them alone.
LEMMA NextLanes ==
    ASSUME TypeOK, TypeOK', LaneInv, [Next]_vars
    PROVE  LaneInv' /\ [Lanes!Next]_(Lanes!vars)
<1> DEFINE Same == Staging' = Staging /\ Operations' = Operations /\ sent' = sent
<1>1. Same => UNCHANGED Lanes!vars
  BY DEF Lanes!vars, Staging, Operations
<1>2. CASE Client
  BY <1>1, <1>2, ClientLanes DEF Lanes!Next
<1>3. CASE TakeBatch
  BY <1>1, <1>3, TakeBatchLanes
<1>4. CASE FirstPass \/ SecondPass
  <2>1. CASE RunsCurrent
    <3>1. sent' = sent
      BY <2>1 DEF RunsCurrent
    <3> QED
      BY <1>1, <2>1, <3>1, RunsCurrentLanes DEF Lanes!Next, Staging, Operations
  <2>2. CASE SecondPassBegins
    BY <1>1, <2>2, SecondPassLanes
  <2> QED
    BY <1>4, <2>1, <2>2, PassesRun
<1>5. CASE PopAlerts
  BY <1>1, <1>5, PopAlertsLanes
<1>6. CASE RefreshAll \/ WorkerExits \/ Start
  <2>1. batch = <<>> /\ UNCHANGED <<sent, commands, batch>> /\ phase' \in {"sleep", "persisting"}
    BY <1>6 DEF RefreshAll, WorkerExits, Start, In, uiVars, LaneInv
  <2>2. LaneInv'
    BY <2>1 DEF LaneInv
  <2> QED
    BY <1>1, <2>1, <2>2, EmptyBatchLanes
<1>7. CASE \/ HandleRemoved \/ HandleUpdate \/ HandleThrows \/ Libtorrent
           \/ \E h \in Hash : SaveResume(h) \/ SaveFails(h)
           \/ UNCHANGED vars
  <2>1. UNCHANGED <<sent, commands, phase, batch, at>>
    BY <1>7 DEF HandleRemoved, HandleUpdate, HandleThrows, Libtorrent, RunRemoval, DestroyTorrent, TorrentFinishes,
                TorrentReports, Event, AutoManage, SaveResume, SaveFails, vars, uiVars, batchVars
  <2> QED
    BY <1>1, <2>1, StayLanes
<1>8. CASE FinishShutdown \/ Crash
  BY <1>8, ProcessEndsLanes DEF FinishShutdown, Crash, Lanes!Next
<1> QED
  BY <1>2, <1>3, <1>4, <1>5, <1>6, <1>7, <1>8 DEF Next, Worker, Pump, Lifecycle

\* The engine starts with empty lanes.
LEMMA InitLanes == Init => LaneInv /\ Lanes!Init
  BY DEF Init, LaneInv, Lanes!Init, Lane, StagingLeft, OperationsLeft

\* However enqueueing, the batch swap and the two passes interleave with crashes and restarts
\* (process_commands, lines 770-1101), the engine runs its commands as CommandLanes promises.
THEOREM LanesImplemented == Spec => ImplementsLanes
<1>1. Spec => []TypeOK
  BY TypeCorrect
<1> QED
  BY <1>1, InitLanes, NextLanes, PTL DEF Spec, ImplementsLanes, Lanes!Spec

\* No accepted command waits at two places, so none runs twice (lines 771-780).
THEOREM QueuedOnceHolds == Spec => []QueuedOnce
<1>1. TypeOK /\ LaneInv => QueuedOnce
  <2> SUFFICES ASSUME TypeOK, LaneInv PROVE QueuedOnce
    OBVIOUS
  <2>1. StagingLeft \cup OperationsLeft \subseteq DOMAIN batch
    BY QueueTypes DEF StagingLeft, OperationsLeft
  <2>2. \A i, j \in DOMAIN batch : batch[i].id = batch[j].id => i = j
    BY QueueTypes DEF LaneInv
  <2>3. \A i, j \in DOMAIN commands : commands[i].id = commands[j].id => i = j
    BY QueueTypes DEF LaneInv
  <2>4. \A i \in DOMAIN batch : \A j \in DOMAIN commands : batch[i].id # commands[j].id
    BY QueueTypes DEF LaneInv
  <2> QED
    BY <2>1, <2>2, <2>3, <2>4 DEF QueuedOnce
<1>2. Spec => []TypeOK
  BY TypeCorrect
<1> QED
  BY <1>1, <1>2, InitLanes, NextLanes, PTL DEF Spec

=============================================================================
