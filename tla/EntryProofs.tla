---------------------------- MODULE EntryProofs -----------------------------
(***************************************************************************)
(* What an entry of the library says is true of its torrent: a stopped flag*)
(* is on a limited torrent (StoppedIsLimited), no torrent gets throttled   *)
(* unseen (NeverThrottledUnseen), and a resume file has its torrent in     *)
(* the library (FilesMatchLibrary).                                        *)
(***************************************************************************)
EXTENDS LibraryProofs

-----------------------------------------------------------------------------
(* Stopped flags *)

\* A removed alert that will clear the key is on its way.
Clearing(h) == \E x \in Handle : tor[x].hash = h /\ RemovedInFlight(x)

StoppedInv ==
    \A h \in Hash : torrents[h].upload_stopped =>
        /\ Listed(h)
        /\ tor[torrents[h].handle].limited \/ Clearing(h)

\* Posting an alert keeps those that clear a key on their way.
LEMMA StillClearing ==
    ASSUME TypeOK, GhostInv,
           \A x \in Handle : Life(x) # "unused" => tor'[x].hash = tor[x].hash,
           popped' = popped,
           alerts' = alerts \/ \E a : alerts' = Append(alerts, a),
           NEW h \in Hash, Clearing(h)
    PROVE  Clearing(h)'
<1>1. alerts \in Seq(Alert)
  BY DEF TypeOK
<1>2. \A i \in DOMAIN alerts : i \in DOMAIN alerts' /\ alerts'[i] = alerts[i]
  BY <1>1
<1>3. PICK x \in Handle : tor[x].hash = h /\ RemovedInFlight(x)
  BY DEF Clearing
<1>4. Life(x) # "unused"
  BY <1>3 DEF RemovedInFlight, GhostInv, PoppedClosed, AlertsClosed
<1>5. RemovedInFlight(x)'
  BY <1>2, <1>3 DEF RemovedInFlight
<1> QED
  BY <1>3, <1>4, <1>5 DEF Clearing

\* Two torrents under one key, or one that left the session: the key is about to be cleared.
LEMMA HeldApart ==
    ASSUME GhostInv, OrphanInv, NEW h \in Hash, NEW x \in Handle, Held(h, x),
           Life(x) # "live" \/ \E y \in Handle : y # x /\ tor[y].hash = h /\ Life(y) = "live"
    PROVE  Clearing(h)
<1>1. tor[x].hash = h /\ Life(x) # "live"
  BY DEF GhostInv, KeysMatch, OrphanInv, UniqueLive
<1> QED
  BY <1>1 DEF GhostInv, NoGhost, Clearing

\* The invariant holds after a step that sets no flag, lifts no limit under a flag, and gives a flagged key
\* another torrent only if the key is about to be cleared.
LEMMA KeepsStopped ==
    ASSUME TypeOK, StoppedInv,
           \A h \in Hash : Clearing(h) => Clearing(h)',
           \A h \in Hash : torrents'[h].upload_stopped =>
               /\ torrents[h].upload_stopped
               /\ torrents'[h].handle # NoHandle
               /\ torrents'[h].handle = torrents[h].handle \/ Clearing(h)',
           \A h \in Hash : torrents'[h].upload_stopped /\ tor[torrents[h].handle].limited =>
               tor'[torrents[h].handle].limited
    PROVE  StoppedInv'
<1> SUFFICES ASSUME NEW h \in Hash, torrents'[h].upload_stopped
             PROVE  torrents'[h].handle # NoHandle /\ (tor'[torrents'[h].handle].limited \/ Clearing(h)')
  BY DEF StoppedInv, Listed
<1>1. tor[torrents[h].handle].limited \/ Clearing(h)
  BY DEF StoppedInv
<1> QED
  BY <1>1

\* Steps that leave the library alone and lift no limit.
LEMMA KeepsLibraryStopped ==
    ASSUME TypeOK, GhostInv, StoppedInv,
           torrents' = torrents, popped' = popped,
           alerts' = alerts \/ \E a : alerts' = Append(alerts, a),
           \A x \in Handle : Life(x) # "unused" => tor'[x].hash = tor[x].hash /\ (tor[x].limited => tor'[x].limited)
    PROVE  StoppedInv'
<1>1. ASSUME NEW h \in Hash, torrents[h].upload_stopped
      PROVE  torrents[h].handle \in Handle /\ Life(torrents[h].handle) # "unused"
  <2>1. torrents[h] \in Entry /\ torrents[h].handle # NoHandle
    BY <1>1 DEF TypeOK, StoppedInv, Listed
  <2>2. torrents[h].handle \in Handle
    BY <2>1 DEF Entry
  <2> QED
    BY <2>2 DEF GhostInv, KeysMatch, Held
<1>2. \A h \in Hash : Clearing(h) => Clearing(h)'
  BY StillClearing
<1>3. \A h \in Hash : torrents[h].upload_stopped => torrents[h].handle # NoHandle
  BY DEF StoppedInv, Listed
<1> QED
  BY <1>1, <1>2, <1>3, KeepsStopped

\* A flag found after update_entry was there before, on the same torrent or on the key of the one
\* refreshed.
LEMMA UpdateEntryFlag ==
    ASSUME NEW x \in Handle, NEW T \in [Handle -> Torrent],
           NEW lib \in [Hash -> Entry], NEW stg \in [Hash -> Handle \cup {NoHandle}],
           UpdateEntry(x, T, lib, stg),
           NEW h \in Hash, torrents'[h].upload_stopped
    PROVE  /\ lib[h].upload_stopped
           /\ torrents'[h].handle = lib[h].handle \/ (torrents'[h].handle = x /\ h = T[x].hash /\ stg[h] = NoHandle)
<1>1. T[x].hash \in Hash
  BY DEF Torrent
<1>2. ~NoEntry.upload_stopped
  BY DEF NoEntry
<1> QED
  BY <1>1, <1>2 DEF UpdateEntry, Refreshed

\* A refresh keeps the invariant when a key that gets another torrent is about to be cleared.
LEMMA RefreshingStopped ==
    ASSUME TypeOK, GhostInv, StoppedInv,
           NEW x \in Handle, NEW stg \in [Hash -> Handle \cup {NoHandle}],
           tor' \in [Handle -> Torrent],
           UpdateEntry(x, tor', torrents, stg),
           popped' = popped,
           alerts' = alerts \/ \E a : alerts' = Append(alerts, a),
           \A y \in Handle : Life(y) # "unused" => tor'[y].hash = tor[y].hash /\ (tor[y].limited => tor'[y].limited),
           \A h \in Hash : h = tor'[x].hash /\ Listed(h) /\ torrents[h].handle # x /\ stg[h] = NoHandle => Clearing(h)
    PROVE  StoppedInv'
<1>1. \A h \in Hash : Clearing(h) => Clearing(h)'
  BY StillClearing
<1>2. torrents \in [Hash -> Entry]
  BY DEF TypeOK
<1>3. ASSUME NEW h \in Hash, torrents'[h].upload_stopped
      PROVE  /\ torrents[h].upload_stopped
             /\ torrents'[h].handle # NoHandle
             /\ torrents'[h].handle = torrents[h].handle \/ Clearing(h)'
  <2>1. /\ torrents[h].upload_stopped
        /\ \/ torrents'[h].handle = torrents[h].handle
           \/ torrents'[h].handle = x /\ h = tor'[x].hash /\ stg[h] = NoHandle
    BY <1>2, <1>3, UpdateEntryFlag
  <2>2. Listed(h)
    BY <2>1 DEF StoppedInv
  <2> QED
    BY <1>1, <2>1, <2>2, NoHandleAssumption DEF Listed
<1>4. ASSUME NEW h \in Hash, torrents[h].upload_stopped, tor[torrents[h].handle].limited
      PROVE  tor'[torrents[h].handle].limited
  <2>1. torrents[h].handle \in Handle
    BY <1>2, <1>4 DEF StoppedInv, Listed, Entry
  <2> QED
    BY <1>4, <2>1 DEF GhostInv, KeysMatch, Held
<1> QED
  BY <1>1, <1>3, <1>4, KeepsStopped

\* An operation keeps the invariant when it flags no key but that of the torrent it limits.
LEMMA OperateStopped ==
    ASSUME TypeOK, GhostInv, OrphanInv, StoppedInv, NEW ty, At(ty),
           NEW h \in Hash, NEW x \in Handle, HandleOf(h) = x,
           NEW t \in Torrent, t.life = tor[x].life, t.hash = tor[x].hash,
           NEW lib \in [Hash -> Entry], \A g \in Hash : lib[g].handle = torrents[g].handle,
           \A g \in Hash : lib[g].upload_stopped => Listed(g) /\ (g = h \/ torrents[g].upload_stopped),
           lib[h].upload_stopped => t.limited \/ (torrents[h].upload_stopped /\ ~tor[x].limited),
           Operate(x, t, lib)
    PROVE  StoppedInv'
<1>1. tor' = [tor EXCEPT ![x] = t] /\ UNCHANGED <<alerts, popped>>
  BY DEF Operate, NextCommand
<1>13. UpdateEntry(x, tor', lib, pending)
  BY DEF Operate
<1>2. tor' \in [Handle -> Torrent] /\ pending \in [Hash -> Handle \cup {NoHandle}] /\ torrents \in [Hash -> Entry]
  BY <1>1 DEF TypeOK
<1>3. \A y \in Handle : tor'[y].hash = tor[y].hash /\ (y # x => tor'[y] = tor[y])
  BY <1>1 DEF TypeOK
<1>4. Held(h, x) /\ tor[x].hash = h
  BY FoundIsHeld
<1>5. \A g \in Hash : Clearing(g) => Clearing(g)'
  BY <1>1, <1>3, StillClearing
<1>6. tor'[x].limited = t.limited
  BY <1>1 DEF TypeOK
<1> SUFFICES ASSUME NEW g \in Hash, torrents'[g].upload_stopped
             PROVE  torrents'[g].handle # NoHandle /\ (tor'[torrents'[g].handle].limited \/ Clearing(g)')
  BY DEF StoppedInv, Listed
<1>7. /\ lib[g].upload_stopped
      /\ torrents'[g].handle = torrents[g].handle \/ (torrents'[g].handle = x /\ g = h)
  <2>1. lib[g].upload_stopped /\ (torrents'[g].handle = lib[g].handle \/ (torrents'[g].handle = x /\ g = tor'[x].hash))
    BY <1>2, <1>13, UpdateEntryFlag
  <2> QED
    BY <1>3, <1>4, <2>1
<1>8. torrents[g].handle \in Handle /\ torrents'[g].handle # NoHandle
  BY <1>2, <1>7, NoHandleAssumption DEF Listed, Entry
<1>9. tor[torrents[g].handle].hash = g
  BY <1>8 DEF GhostInv, KeysMatch, Held
<1>10. CASE g # h
  <2>1. torrents'[g].handle = torrents[g].handle /\ torrents[g].upload_stopped
    BY <1>7, <1>10
  <2>2. tor[torrents[g].handle].limited \/ Clearing(g)
    BY <2>1 DEF StoppedInv
  <2>3. torrents[g].handle # x
    BY <1>4, <1>9, <1>10
  <2>4. tor'[torrents[g].handle] = tor[torrents[g].handle]
    BY <1>3, <1>8, <2>3
  <2> QED
    BY <1>5, <1>8, <2>1, <2>2, <2>4
<1>11. CASE g = h /\ torrents[h].handle # x
  <2> DEFINE y == torrents[h].handle
  <2>1. y \in Handle /\ Held(h, y) /\ y # x /\ tor[y].hash = h
    BY <1>8, <1>9, <1>11 DEF Held
  <2>2. Clearing(h)
    <3> HIDE DEF y
    <3>1. CASE Life(x) = "live"
      BY <1>4, <2>1, <3>1, HeldApart
    <3>2. CASE Life(x) # "live"
      BY <1>4, <3>2, HeldApart
    <3> QED
      BY <3>1, <3>2
  <2> QED
    BY <1>5, <1>8, <1>11, <2>2
<1>12. CASE g = h /\ torrents[h].handle = x
  <2>1. torrents'[g].handle = x
    BY <1>7, <1>12
  <2>2. t.limited \/ Clearing(h)
    BY <1>7, <1>12 DEF StoppedInv
  <2> QED
    BY <1>5, <1>6, <1>8, <1>12, <2>1, <2>2
<1> QED
  BY <1>10, <1>11, <1>12

\* The client keeps the invariant.
LEMMA ClientStopped == TypeOK /\ GhostInv /\ StoppedInv /\ Client => StoppedInv'
<1> SUFFICES ASSUME TypeOK, GhostInv, StoppedInv, Client PROVE StoppedInv'
  OBVIOUS
<1>1. UNCHANGED <<tor, alerts, popped, torrents>>
  BY DEF Client, Enqueue, BeginClearsError, TakeLastError, PollFreezes, Shutdown, batchVars, engineVars, ltVars
<1> QED
  BY <1>1, KeepsLibraryStopped

\* Staging commands keep the invariant: a key that gets a new torrent had none, or one that has left.
LEMMA FirstPassStopped ==
    TypeOK /\ GhostInv /\ OrphanInv /\ StoppedInv /\ (TakeBatch \/ FirstPass) => StoppedInv'
<1> SUFFICES ASSUME TypeOK, GhostInv, OrphanInv, StoppedInv, TakeBatch \/ FirstPass PROVE StoppedInv'
  OBVIOUS
<1>1. CASE TakeBatch \/ SecondPassBegins \/ PassBy \/ StageFails \/ BeginReusesListed \/ Cancel
  <2>1. UNCHANGED <<tor, alerts, popped, torrents>>
    BY <1>1 DEF TakeBatch, SecondPassBegins, PassBy, StageFails, BeginReusesListed, Cancel, NextCommand, engineVars, ltVars
  <2> QED
    BY <2>1, KeepsLibraryStopped
<1>2. CASE BeginStagedAgain
  <2> DEFINE x == pending[Current.hash]
  <2>1. UNCHANGED <<alerts, popped, torrents>>
    BY <1>2 DEF BeginStagedAgain, engineVars
  <2>2. tor' = [tor EXCEPT ![x].flags = @ \ {"paused"}]
    BY <1>2 DEF BeginStagedAgain
  <2>3. \A y \in Handle : tor'[y].hash = tor[y].hash /\ tor'[y].limited = tor[y].limited
    BY <2>2 DEF TypeOK, Torrent
  <2> QED
    BY <2>1, <2>3, KeepsLibraryStopped
<1>3. CASE BeginAdds
  <2>1. PICK h \in Hash : h = Current.hash
    BY <1>3, CurrentType DEF BeginAdds
  <2>2. UNCHANGED <<popped, torrents>>
    BY <1>3 DEF BeginAdds, NextCommand
  <2>3. PICK x \in AddResult(h) :
          /\ tor' = [Added(h, x, {"upload_mode"}) EXCEPT ![x].flags = @ \ {"paused"}]
          /\ Post("added", x)
    BY <1>3, <2>1 DEF BeginAdds
  <2> DEFINE T == Added(h, x, {"upload_mode"})
  <2>4. T \in [Handle -> Torrent] /\ \A y \in Handle : Life(y) # "unused" => T[y] = tor[y]
    BY DEF AddResult, Added, TypeOK, Torrent, Flags, Life
  <2>5. \A y \in Handle : tor'[y].limited = T[y].limited /\ tor'[y].hash = T[y].hash
    <3> HIDE DEF T
    <3>1. tor' = [T EXCEPT ![x].flags = @ \ {"paused"}]
      BY <2>3 DEF T
    <3> QED
      BY <3>1, <2>4 DEF Torrent
  <2>6. \E a : alerts' = Append(alerts, a)
    BY <2>3 DEF Post
  <2> HIDE DEF T
  <2> QED
    BY <2>2, <2>4, <2>5, <2>6, KeepsLibraryStopped
<1>4. CASE Finalize
  <2>1. PICK h \in Hash : h = Current.hash
    BY <1>4, CurrentType DEF Finalize
  <2> DEFINE x == HandleOf(h)
  <2>2. UNCHANGED <<alerts, popped>>
    BY <1>4 DEF Finalize, NextCommand
  <2>3. CASE ~Valid(x)
    <3>1. UNCHANGED <<tor, torrents>>
      BY <1>4, <2>1, <2>3 DEF Finalize
    <3> QED
      BY <2>2, <3>1, KeepsLibraryStopped
  <2>4. CASE Valid(x)
    <3> DEFINE stg == [pending EXCEPT ![h] = NoHandle]
    <3>1. tor' = [tor EXCEPT ![x].flags = (@ \ {"upload_mode", "paused"}) \cup {"auto_managed"}] /\ x \in Handle
      BY <1>4, <2>1, <2>4 DEF Finalize, Valid
    <3>2. UpdateEntry(x, tor', torrents, stg) /\ x \in Handle
      BY <1>4, <2>1, <2>4 DEF Finalize, Valid
    <3>3. \A y \in Handle : tor'[y].hash = tor[y].hash /\ tor'[y].limited = tor[y].limited
      BY <3>1 DEF TypeOK, Torrent
    <3>4. tor' \in [Handle -> Torrent]
      <4>1. (tor[x].flags \ {"upload_mode", "paused"}) \cup {"auto_managed"} \in SUBSET Flags
        BY <3>1 DEF TypeOK, Torrent, Flags
      <4> QED
        BY <4>1, <3>1, FlagsType DEF TypeOK
    <3>5. stg \in [Hash -> Handle \cup {NoHandle}]
      BY DEF TypeOK
    <3>6. Held(h, x) /\ tor[x].hash = h
      BY <3>2, FoundIsHeld
    <3> HIDE DEF x, stg
    <3>7. ASSUME NEW g \in Hash, g = tor'[x].hash, Listed(g), torrents[g].handle # x PROVE Clearing(g)
      <4>1. g = h /\ torrents[h].handle \in Handle
        BY <3>2, <3>3, <3>6, <3>7 DEF Listed, TypeOK, Entry
      <4>2. Held(h, torrents[h].handle) /\ tor[torrents[h].handle].hash = h
        BY <4>1 DEF Held, GhostInv, KeysMatch
      <4> QED
        BY <3>2, <3>6, <3>7, <4>1, <4>2, HeldApart
    <3> QED
      BY <2>2, <3>2, <3>3, <3>4, <3>5, <3>7, RefreshingStopped
  <2> QED
    BY <2>3, <2>4
<1>5. CASE Add
  <2>1. PICK h \in Hash : h = Current.hash
    BY <1>5, CurrentType DEF Add
  <2>2. popped' = popped
    BY <1>5 DEF Add, NextCommand
  <2>3. pending \in [Hash -> Handle \cup {NoHandle}] /\ tor \in [Handle -> Torrent]
    BY DEF TypeOK
  <2>4. CASE Valid(HandleOf(h))
    <3> DEFINE x == HandleOf(h)
    <3>1. UpdateEntry(x, tor, torrents, pending) /\ UNCHANGED <<tor, alerts>> /\ x \in Handle
      BY <1>5, <2>1, <2>4 DEF Add, Valid
    <3>2. tor[x].hash = h
      BY <3>1, FoundIsHeld
    <3>3. \A g \in Hash : g = tor'[x].hash /\ pending[g] = NoHandle => torrents[g].handle = x
      BY <3>1, <3>2 DEF HandleOf, Staged
    <3>4. UpdateEntry(x, tor', torrents, pending)
      BY <3>1
    <3> HIDE DEF x
    <3> QED
      BY <2>2, <2>3, <3>1, <3>3, <3>4, RefreshingStopped
  <2>5. CASE ~Valid(HandleOf(h))
    <3>1. PICK x \in AddResult(h) :
            /\ tor' = Added(h, x, {"paused", "auto_managed"})
            /\ Post("added", x)
            /\ UpdateEntry(x, tor', torrents, pending)
      BY <1>5, <2>1, <2>5 DEF Add
    <3>2. x \in Handle /\ tor'[x].hash = h
      BY <3>1, AddedIsLive
    <3>3. tor' \in [Handle -> Torrent] /\ \A y \in Handle : Life(y) # "unused" => tor'[y] = tor[y]
      BY <3>1 DEF AddResult, Added, TypeOK, Torrent, Flags, Life
    <3>4. \E a : alerts' = Append(alerts, a)
      BY <3>1 DEF Post
    <3>5. ASSUME NEW g \in Hash, g = tor'[x].hash, Listed(g), pending[g] = NoHandle PROVE Clearing(g)
      <4>1. g = h /\ torrents[h].handle \in Handle /\ HandleOf(h) = torrents[h].handle
        BY <3>2, <3>5 DEF Listed, TypeOK, Entry, HandleOf, Staged
      <4>2. Held(h, torrents[h].handle) /\ Life(torrents[h].handle) # "live"
        BY <2>5, <4>1 DEF Held, Valid, Life
      <4> QED
        BY <4>1, <4>2, HeldApart
    <3>6. UpdateEntry(x, tor', torrents, pending)
      BY <3>1
    <3> QED
      BY <2>2, <2>3, <3>2, <3>3, <3>4, <3>5, <3>6, RefreshingStopped
  <2> QED
    BY <2>4, <2>5
<1> QED
  BY <1>1, <1>2, <1>3, <1>4, <1>5 DEF FirstPass

\* What setting the flags of an entry flags.
LEMMA WithStoppedFlags ==
    ASSUME TypeOK, StoppedInv, NEW h \in Hash, NEW b \in BOOLEAN
    PROVE  /\ \A g \in Hash : WithStopped(h, b)[g].upload_stopped => Listed(g) /\ (g = h \/ torrents[g].upload_stopped)
           /\ WithStopped(h, b)[h].upload_stopped => b
<1>1. CASE Listed(h)
  <2> DEFINE e == [torrents[h] EXCEPT !.upload_stopped = b, !.shown_stopped = b]
  <2>1. WithStopped(h, b) = [torrents EXCEPT ![h] = e]
    BY <1>1 DEF WithStopped, TypeOK
  <2>2. e.upload_stopped = b
    BY DEF TypeOK, Entry
  <2> HIDE DEF e
  <2> QED
    BY <1>1, <2>1, <2>2 DEF TypeOK, StoppedInv
<1>2. CASE ~Listed(h)
  <2>1. WithStopped(h, b) = torrents /\ ~torrents[h].upload_stopped
    BY <1>2 DEF WithStopped, StoppedInv
  <2> QED
    BY <2>1 DEF StoppedInv
<1> QED
  BY <1>1, <1>2

\* Torrent operations keep the invariant: only StopSeeding flags, and it limits the torrent; those
\* that lift the limit drop the flag.
LEMMA SecondPassStopped ==
    TypeOK /\ GhostInv /\ OrphanInv /\ StoppedInv /\ SecondPass => StoppedInv'
<1> SUFFICES ASSUME TypeOK, GhostInv, OrphanInv, StoppedInv, SecondPass PROVE StoppedInv'
  OBVIOUS
<1>1. PICK h : h = Current.hash
  OBVIOUS
<1>2. PICK x : x = HandleOf(h)
  OBVIOUS
<1>3. ASSUME NEW ty, OpFound(ty)
      PROVE  /\ At(ty) /\ h \in Hash /\ x \in Handle
             /\ tor[x] \in Torrent /\ torrents \in [Hash -> Entry]
  BY <1>1, <1>2, <1>3, CurrentType DEF OpFound, Valid, TypeOK
<1>4. CASE OpNotFound \/ AdjustRefused \/ SeedingOpRefused
  <2>1. UNCHANGED <<tor, alerts, popped, torrents>>
    BY <1>4 DEF OpNotFound, AdjustRefused, SeedingOpRefused, NextCommand, ltVars
  <2> QED
    BY <2>1, KeepsLibraryStopped
<1>5. ASSUME NEW ty, At(ty), h \in Hash, x \in Handle, NEW b \in BOOLEAN,
             NEW t \in Torrent, t.life = tor[x].life, t.hash = tor[x].hash,
             Operate(x, t, WithStopped(h, b)), b => t.limited
      PROVE  StoppedInv'
  <2>1. WithStopped(h, b) \in [Hash -> Entry] /\ \A g \in Hash : WithStopped(h, b)[g].handle = torrents[g].handle
    BY <1>5, WithStoppedType, WithStoppedHandles
  <2>2. /\ \A g \in Hash : WithStopped(h, b)[g].upload_stopped => Listed(g) /\ (g = h \/ torrents[g].upload_stopped)
        /\ WithStopped(h, b)[h].upload_stopped => b
    BY <1>5, WithStoppedFlags
  <2> QED
    BY <1>2, <1>5, <2>1, <2>2, OperateStopped
<1>6. ASSUME NEW ty, At(ty), h \in Hash, x \in Handle, torrents \in [Hash -> Entry],
             NEW t \in Torrent, t.life = tor[x].life, t.hash = tor[x].hash, t.limited = tor[x].limited,
             Operate(x, t, torrents)
      PROVE  StoppedInv'
  <2>1. \A g \in Hash : torrents[g].upload_stopped => Listed(g)
    BY DEF StoppedInv
  <2>2. t.limited \/ ~tor[x].limited
    BY <1>6
  <2> QED
    BY <1>2, <1>6, <2>1, <2>2, OperateStopped
<1>7. CASE Pause
  <2> DEFINE t == [tor[x] EXCEPT !.flags = (@ \ {"auto_managed"}) \cup {"paused"}]
  <2>1. OpFound("Pause") /\ Operate(x, t, WithStopped(h, FALSE))
    BY <1>7, <1>1, <1>2 DEF Pause
  <2>2. t \in Torrent /\ t.life = tor[x].life /\ t.hash = tor[x].hash
    BY <2>1, <1>3 DEF Torrent, Flags
  <2> HIDE DEF t
  <2> QED
    BY <2>1, <2>2, <1>3, <1>5
<1>8. CASE ResumeTorrent
  <2> DEFINE t == [tor[x] EXCEPT !.flags = (@ \ {"paused"}) \cup {"auto_managed"}, !.limited = @ /\ ~Listed(h)]
  <2>1. OpFound("Resume") /\ Operate(x, t, WithStopped(h, FALSE))
    BY <1>8, <1>1, <1>2 DEF ResumeTorrent
  <2>2. t \in Torrent /\ t.life = tor[x].life /\ t.hash = tor[x].hash
    BY <2>1, <1>3 DEF Torrent, Flags
  <2> HIDE DEF t
  <2> QED
    BY <2>1, <2>2, <1>3, <1>5
<1>9. CASE StopSeeding
  <2> DEFINE t == [tor[x] EXCEPT !.limited = TRUE]
  <2>1. OpFound("StopSeeding") /\ Operate(x, t, WithStopped(h, TRUE))
    BY <1>9, <1>1, <1>2 DEF StopSeeding
  <2>2. t \in Torrent /\ t.life = tor[x].life /\ t.hash = tor[x].hash /\ t.limited
    BY <2>1, <1>3 DEF Torrent
  <2> HIDE DEF t
  <2> QED
    BY <2>1, <2>2, <1>3, <1>5
<1>10. CASE ResumeSeeding
  <2> DEFINE t == [tor[x] EXCEPT !.limited = FALSE]
  <2>1. OpFound("ResumeSeeding") /\ Operate(x, t, WithStopped(h, FALSE))
    BY <1>10, <1>1, <1>2 DEF ResumeSeeding
  <2>2. t \in Torrent /\ t.life = tor[x].life /\ t.hash = tor[x].hash
    BY <2>1, <1>3 DEF Torrent
  <2> HIDE DEF t
  <2> QED
    BY <2>1, <2>2, <1>3, <1>5
<1>11. CASE ForceRecheck
  <2> DEFINE t == [tor[x] EXCEPT !.complete = FALSE]
  <2>1. OpFound("ForceRecheck") /\ Operate(x, t, torrents)
    BY <1>11, <1>1, <1>2 DEF ForceRecheck
  <2>2. t \in Torrent /\ t.life = tor[x].life /\ t.hash = tor[x].hash /\ t.limited = tor[x].limited
    BY <2>1, <1>3 DEF Torrent
  <2> HIDE DEF t
  <2> QED
    BY <2>1, <2>2, <1>3, <1>6
<1>12. CASE Adjust
  <2>1. OpFound("Adjust") /\ Operate(x, tor[x], torrents)
    BY <1>12, <1>1, <1>2 DEF Adjust
  <2> QED
    BY <2>1, <1>3, <1>6
<1>13. CASE Remove
  <2>1. UNCHANGED <<tor, alerts, popped>> /\ torrents' = [torrents EXCEPT ![h] = NoEntry]
    BY <1>13, <1>1 DEF Remove, NextCommand
  <2>2. \A g \in Hash : Clearing(g) => Clearing(g)'
    BY <2>1, StillClearing
  <2>3. \A g \in Hash : torrents'[g].upload_stopped => torrents[g].upload_stopped /\ torrents'[g].handle = torrents[g].handle
    BY <2>1 DEF TypeOK, NoEntry
  <2> QED
    BY <2>1, <2>2, <2>3, KeepsStopped DEF StoppedInv, Listed
<1> QED
  BY <1>4, <1>7, <1>8, <1>9, <1>10, <1>11, <1>12, <1>13 DEF SecondPass

\* Popping and handling alerts, the refresh of all snapshots, the failures of the worker and its exit
\* keep the invariant: a removed alert clears the key it was to clear.
LEMMA PumpStopped ==
    TypeOK /\ GhostInv /\ OrphanInv /\ StoppedInv /\ (Pump \/ HandleThrows \/ WorkerExits) => StoppedInv'
<1> SUFFICES ASSUME TypeOK, GhostInv, OrphanInv, StoppedInv, Pump \/ HandleThrows \/ WorkerExits PROVE StoppedInv'
  OBVIOUS
<1>1. CASE PopAlerts
  <2>1. popped = <<>> /\ popped' = alerts /\ alerts' = <<>> /\ UNCHANGED <<tor, torrents>>
    BY <1>1 DEF PopAlerts, In, engineVars, GhostInv, PumpOnlyInAlerts
  <2>2. \A h \in Hash : Clearing(h) => Clearing(h)'
    BY <2>1 DEF Clearing, RemovedInFlight
  <2> QED
    BY <2>1, <2>2, KeepsStopped DEF StoppedInv, Listed
<1>2. CASE HandleRemoved
  <2> DEFINE z == popped[1].handle
  <2> DEFINE k == tor[z].hash
  <2>1. HandlingAlert /\ popped' = Tail(popped) /\ UNCHANGED <<tor, alerts, phase>> /\ z \in Handle
    BY <1>2, TailAlerts DEF HandleRemoved, ltVars
  <2>2. torrents' = [torrents EXCEPT ![k] = NoEntry]
    BY <1>2, <2>1, TailAlerts DEF HandleRemoved, Forget
  <2>3. \A x \in Handle : RemovedInFlight(x) => RemovedInFlight(x)' \/ x = z
    BY <2>1, HandledGhost
  <2>4. ASSUME NEW h \in Hash, torrents'[h].upload_stopped
        PROVE  h # k /\ torrents[h].upload_stopped /\ torrents'[h].handle = torrents[h].handle
    BY <2>2, <2>4 DEF TypeOK, NoEntry
  <2>5. ASSUME NEW h \in Hash, h # k, Clearing(h) PROVE Clearing(h)'
    <3>1. PICK x \in Handle : tor[x].hash = h /\ RemovedInFlight(x)
      BY <2>5 DEF Clearing
    <3>2. RemovedInFlight(x)'
      BY <2>3, <2>5, <3>1
    <3> QED
      BY <2>1, <3>1, <3>2 DEF Clearing
  <2> QED
    BY <2>1, <2>4, <2>5 DEF StoppedInv, Listed
<1>3. CASE HandleUpdate
  <2> DEFINE z == popped[1].handle
  <2>1. /\ HandlingAlert /\ popped' = Tail(popped) /\ UNCHANGED <<tor, alerts, phase>> /\ popped[1].type # "removed"
        /\ z \in Handle /\ 1 \in DOMAIN popped
    BY <1>3, TailAlerts DEF HandleUpdate, ltVars
  <2>2. UpdateEntry(z, tor, torrents, pending)
    BY <1>3, <2>1, TailAlerts DEF HandleUpdate
  <2>3. ASSUME NEW x \in Handle
        PROVE  /\ RemovedInFlight(x) => RemovedInFlight(x)'
               /\ x = z /\ Life(x) # "live" => RemovedInFlight(x)'
    BY <2>1, HandledGhost
  <2>4. \A h \in Hash : Clearing(h) => Clearing(h)'
    BY <2>1, <2>3 DEF Clearing
  <2>5. tor \in [Handle -> Torrent] /\ torrents \in [Hash -> Entry] /\ pending \in [Hash -> Handle \cup {NoHandle}]
    BY DEF TypeOK
  <2> HIDE DEF z
  <2>6. ASSUME NEW h \in Hash, torrents'[h].upload_stopped
        PROVE  /\ torrents[h].upload_stopped
               /\ torrents'[h].handle # NoHandle
               /\ torrents'[h].handle = torrents[h].handle \/ Clearing(h)'
    <3>1. /\ torrents[h].upload_stopped
          /\ torrents'[h].handle = torrents[h].handle \/ (torrents'[h].handle = z /\ h = tor[z].hash)
      BY <2>1, <2>2, <2>5, <2>6, UpdateEntryFlag
    <3>2. torrents[h].handle \in Handle /\ Held(h, torrents[h].handle) /\ tor[torrents[h].handle].hash = h
      BY <2>5, <3>1 DEF StoppedInv, Listed, Entry, Held, GhostInv, KeysMatch
    <3>3. CASE torrents'[h].handle = torrents[h].handle
      BY <3>1, <3>2, <3>3, NoHandleAssumption
    <3>4. CASE torrents'[h].handle = z /\ h = tor[z].hash /\ torrents[h].handle # z
      <4>1. CASE Life(z) = "live"
        BY <2>1, <2>4, <3>1, <3>2, <3>4, <4>1, HeldApart, NoHandleAssumption
      <4>2. CASE Life(z) # "live"
        <5>1. PICK x \in Handle : x = z
          BY <2>1
        <5>2. RemovedInFlight(x)' /\ tor'[x].hash = h
          BY <2>1, <2>3, <3>4, <4>2, <5>1
        <5>3. Clearing(h)'
          BY <5>2 DEF Clearing
        <5> QED
          BY <2>1, <3>1, <3>4, <5>3, NoHandleAssumption
      <4> QED
        BY <4>1, <4>2
    <3> QED
      BY <3>1, <3>3, <3>4
  <2> QED
    BY <2>1, <2>4, <2>6, KeepsStopped
<1>4. CASE RefreshAll
  <2>1. torrents' = [h \in Hash |->
              IF Valid(torrents[h].handle)
              THEN [torrents[h] EXCEPT !.state = SnapshotState(tor[torrents[h].handle]), !.shown_stopped = FALSE]
              ELSE torrents[h]]
    BY <1>4 DEF RefreshAll
  <2>2. UNCHANGED <<tor, alerts, popped>>
    BY <1>4 DEF RefreshAll, ltVars
  <2>3. \A h \in Hash : torrents'[h].handle = torrents[h].handle /\ torrents'[h].upload_stopped = torrents[h].upload_stopped
    BY <2>1 DEF TypeOK, Entry
  <2>4. \A h \in Hash : Clearing(h) => Clearing(h)'
    BY <2>2, StillClearing
  <2> QED
    BY <2>2, <2>3, <2>4, KeepsStopped DEF StoppedInv, Listed
<1>5. CASE HandleThrows \/ WorkerExits
  <2>1. UNCHANGED <<tor, alerts, popped, torrents>>
    BY <1>5 DEF HandleThrows, WorkerExits, engineVars, ltVars
  <2> QED
    BY <2>1, KeepsLibraryStopped
<1> QED
  BY <1>1, <1>2, <1>3, <1>4, <1>5 DEF Pump

\* libtorrent lifts no limit and flags nothing.
LEMMA LibtorrentStopped == TypeOK /\ GhostInv /\ StoppedInv /\ Libtorrent => StoppedInv'
<1> SUFFICES ASSUME TypeOK, GhostInv, StoppedInv, Libtorrent PROVE StoppedInv'
  OBVIOUS
<1>1. UNCHANGED <<popped, torrents>>
  BY DEF Libtorrent, RunRemoval, DestroyTorrent, TorrentFinishes, TorrentReports, Event, AutoManage, batchVars, engineVars
<1>2. alerts' = alerts \/ \E a : alerts' = Append(alerts, a)
  BY DEF Libtorrent, RunRemoval, DestroyTorrent, TorrentFinishes, TorrentReports, Event, AutoManage, Post
<1>3. ASSUME NEW x \in Handle, NEW t \in Torrent, t.hash = tor[x].hash, t.limited = tor[x].limited,
             tor' = [tor EXCEPT ![x] = t]
      PROVE  StoppedInv'
  <2>1. \A y \in Handle : tor'[y].hash = tor[y].hash /\ tor'[y].limited = tor[y].limited
    BY <1>3 DEF TypeOK
  <2> QED
    BY <1>1, <1>2, <2>1, KeepsLibraryStopped
<1>4. CASE UNCHANGED tor
  BY <1>1, <1>2, <1>4, KeepsLibraryStopped
<1>5. CASE RunRemoval
  <2>1. CASE Valid(Head(posted))
    <3> DEFINE x == Head(posted)
    <3> DEFINE t == [tor[x] EXCEPT !.life = "dying"]
    <3>1. tor' = [tor EXCEPT ![x] = t]
      BY <1>5, <2>1 DEF RunRemoval
    <3>2. x \in Handle
      BY <2>1 DEF Valid
    <3>3. t \in Torrent /\ t.hash = tor[x].hash /\ t.limited = tor[x].limited
      BY <3>2 DEF TypeOK, Torrent
    <3> HIDE DEF x, t
    <3> QED
      BY <3>1, <3>2, <3>3, <1>3
  <2>2. CASE ~Valid(Head(posted))
    BY <1>4, <1>5, <2>2 DEF RunRemoval
  <2> QED
    BY <2>1, <2>2
<1>6. ASSUME NEW x \in Handle, DestroyTorrent(x) PROVE StoppedInv'
  <2> DEFINE t == [tor[x] EXCEPT !.life = "gone"]
  <2>1. tor' = [tor EXCEPT ![x] = t] /\ t \in Torrent /\ t.hash = tor[x].hash /\ t.limited = tor[x].limited
    BY <1>6 DEF DestroyTorrent, TypeOK, Torrent
  <2> HIDE DEF t
  <2> QED
    BY <2>1, <1>3
<1>7. ASSUME NEW x \in Handle, TorrentFinishes(x) PROVE StoppedInv'
  <2> DEFINE t == [tor[x] EXCEPT !.complete = TRUE]
  <2>1. tor' = [tor EXCEPT ![x] = t] /\ t \in Torrent /\ t.hash = tor[x].hash /\ t.limited = tor[x].limited
    BY <1>7 DEF TorrentFinishes, Event, TypeOK, Torrent
  <2> HIDE DEF t
  <2> QED
    BY <2>1, <1>3
<1>8. ASSUME NEW x \in Handle, TorrentReports(x) PROVE StoppedInv'
  <2>1. tor' = [tor EXCEPT ![x] = tor[x]] /\ tor[x] \in Torrent
    BY <1>8 DEF TorrentReports, Event, TypeOK
  <2> QED
    BY <2>1, <1>3
<1>9. ASSUME NEW x \in Handle, AutoManage(x) PROVE StoppedInv'
  <2> DEFINE f == IF "paused" \in tor[x].flags THEN tor[x].flags \ {"paused"} ELSE tor[x].flags \cup {"paused"}
  <2>1. tor' = [tor EXCEPT ![x].flags = f]
    BY <1>9 DEF AutoManage
  <2>2. f \in SUBSET Flags
    BY DEF TypeOK, Torrent, Flags
  <2> DEFINE t == [tor[x] EXCEPT !.flags = f]
  <2> HIDE DEF f
  <2>3. t \in Torrent /\ t.hash = tor[x].hash /\ t.limited = tor[x].limited
    BY <2>2 DEF TypeOK, Torrent
  <2>4. tor' = [tor EXCEPT ![x] = t]
    BY <2>1
  <2> HIDE DEF t
  <2> QED
    BY <2>3, <2>4, <1>3
<1> QED
  BY <1>5, <1>6, <1>7, <1>8, <1>9 DEF Libtorrent

\* Nothing is flagged when a process ends or starts.
LEMMA LifecycleStopped == TypeOK /\ GhostInv /\ StoppedInv /\ Lifecycle => StoppedInv'
<1> SUFFICES ASSUME TypeOK, GhostInv, StoppedInv, Lifecycle PROVE StoppedInv'
  OBVIOUS
<1>1. ASSUME NEW h \in Hash, SaveResume(h) \/ SaveFails(h) PROVE StoppedInv'
  <2>1. UNCHANGED <<tor, alerts, popped, torrents>>
    BY <1>1 DEF SaveResume, SaveFails, batchVars, engineVars, ltVars
  <2> QED
    BY <2>1, KeepsLibraryStopped
<1>2. CASE FinishShutdown \/ Crash \/ Start
  <2>1. \A h \in Hash : torrents'[h].upload_stopped = FALSE
    <3>1. CASE FinishShutdown \/ Crash
      BY <3>1 DEF FinishShutdown, Crash, ProcessEnds, NoEntry
    <3>2. CASE Start
      BY <3>2 DEF Start, Refreshed, NoEntry
    <3> QED
      BY <1>2, <3>1, <3>2
  <2> QED
    BY <2>1 DEF StoppedInv
<1> QED
  BY <1>1, <1>2 DEF Lifecycle

\* The engine's stopped flag is never a promise libtorrent does not keep: the torrent of a flagged
\* entry is limited, or a removed alert that clears its key is on its way (lines 588-597 and 1019-1068).
THEOREM StoppedIsLimitedHolds == Spec => []StoppedIsLimited
<1>1. Init => StoppedInv
  BY DEF Init, StoppedInv, NoEntry
<1>2. TypeOK /\ GhostInv /\ OrphanInv /\ StoppedInv /\ [Next]_vars => StoppedInv'
  <2>1. ASSUME TypeOK, GhostInv, StoppedInv, UNCHANGED vars PROVE StoppedInv'
    <3>1. UNCHANGED <<tor, alerts, popped, torrents>>
      BY <2>1 DEF vars, batchVars, engineVars, ltVars
    <3> QED
      BY <2>1, <3>1, KeepsLibraryStopped
  <2> QED
    BY <2>1, ClientStopped, FirstPassStopped, SecondPassStopped, PumpStopped, LibtorrentStopped, LifecycleStopped
       DEF Next, Worker
<1>3. StoppedInv => StoppedIsLimited
  BY DEF StoppedInv, StoppedIsLimited, Clearing
<1> QED
  BY <1>1, <1>2, <1>3, TypeCorrect, GhostInvariant, OrphanInvariant, PTL DEF Spec

-----------------------------------------------------------------------------
(* Resume files *)

\* Commands find the torrent of a settled key, whatever is staged.
LEMMA SettledIsFound ==
    ASSUME TypeOK, GhostInv, OrphanInv, NEW t, At(t), NEW h \in Hash, Settled(h)
    PROVE  /\ torrents[h].handle \in Handle
           /\ tor[torrents[h].handle].hash = h
           /\ HandleOf(h) = torrents[h].handle
<1> DEFINE x == torrents[h].handle
<1>1. x \in Handle /\ Life(x) = "live"
  BY DEF Settled, Live, Life
<1>2. tor[x].hash = h
  BY <1>1 DEF GhostInv, KeysMatch, Held
<1>3. Staying(x)
  BY <1>1, <1>2 DEF Staying, RemovalPosted, Settled
<1> QED
  BY <1>1, <1>2, <1>3, StayingIsFound

\* The invariant holds after a step that writes no file, and takes from no settled key with a file its
\* torrent, its entry or its quiet.
LEMMA KeepsFiles ==
    ASSUME TypeOK, GhostInv, FileInv, phase \notin {"off", "persisting"},
           \A x \in Handle : Life(x) # "unused" => tor'[x].hash = tor[x].hash,
           \A x \in Handle : Life(x) = "live" => Life(x)' = "live" \/ RemovalPosted(x),
           \A x \in Handle : RemovedInFlight(x)' =>
               RemovedInFlight(x) \/ (RemovalPosted(x) /\ tor'[x].hash = tor[x].hash),
           \A h \in Hash : files'[h].kind = "whole" => files[h].kind = "whole",
           \A h \in Hash : files'[h].kind = "whole" /\ Settled(h) =>
               /\ torrents'[h].handle = torrents[h].handle
               /\ \A i \in DOMAIN posted' : tor'[posted'[i]].hash # h
    PROVE  FileInv'
<1> SUFFICES ASSUME NEW h \in Hash, files'[h].kind = "whole"
             PROVE  Settled(h)'
  BY DEF FileInv
<1>1. Settled(h)
  BY DEF FileInv
<1>2. torrents'[h].handle = torrents[h].handle /\ \A i \in DOMAIN posted' : tor'[posted'[i]].hash # h
  BY <1>1
<1>3. PICK y \in Handle : y = torrents[h].handle /\ Life(y) = "live"
  BY <1>1 DEF Settled, Live, Life
<1>4. tor[y].hash = h
  BY <1>3 DEF GhostInv, KeysMatch, Held
<1>5. ~RemovalPosted(y)
  BY <1>1, <1>4 DEF Settled, RemovalPosted
<1>6. Life(y)' = "live"
  BY <1>3, <1>5
<1>7. ASSUME NEW x \in Handle, RemovedInFlight(x)' PROVE tor'[x].hash # h
  <2>1. CASE RemovedInFlight(x)
    <3>1. Life(x) # "unused"
      BY <2>1 DEF RemovedInFlight, GhostInv, PoppedClosed, AlertsClosed
    <3> QED
      BY <1>1, <2>1, <3>1 DEF Settled
  <2>2. CASE RemovalPosted(x) /\ tor'[x].hash = tor[x].hash
    BY <1>1, <2>2 DEF Settled, RemovalPosted
  <2> QED
    BY <1>7, <2>1, <2>2
<1> QED
  BY <1>2, <1>3, <1>6, <1>7 DEF Settled, Live, Life

\* Steps that leave libtorrent, the entries' handles and the files alone.
LEMMA QuietFiles ==
    ASSUME TypeOK, GhostInv, FileInv, phase \notin {"off", "persisting"},
           \A x \in Handle : tor'[x].hash = tor[x].hash /\ tor'[x].life = tor[x].life,
           UNCHANGED <<popped, alerts, posted, files>>,
           \A h \in Hash : Settled(h) => torrents'[h].handle = torrents[h].handle
    PROVE  FileInv'
<1>1. \A i \in DOMAIN posted : posted[i] \in Handle
  BY DEF TypeOK
<1>2. \A h \in Hash : Settled(h) => \A i \in DOMAIN posted' : tor'[posted'[i]].hash # h
  BY <1>1 DEF Settled
<1>3. \A x \in Handle : RemovedInFlight(x)' => RemovedInFlight(x)
  BY DEF RemovedInFlight
<1> QED
  BY <1>2, <1>3, KeepsFiles DEF Life

\* Refreshing the torrent a key finds changes the handle of no settled key.
LEMMA RefreshingSettled ==
    ASSUME TypeOK, GhostInv, OrphanInv, NEW t, At(t),
           NEW h \in Hash, NEW x \in Handle, HandleOf(h) = x,
           NEW T \in [Handle -> Torrent], T[x].hash = tor[x].hash, T[x].life = tor[x].life,
           NEW lib \in [Hash -> Entry], NEW stg \in [Hash -> Handle \cup {NoHandle}],
           \A g \in Hash : lib[g].handle = torrents[g].handle,
           UpdateEntry(x, T, lib, stg),
           NEW g \in Hash, Settled(g)
    PROVE  torrents'[g].handle = torrents[g].handle
<1>1. T[x].hash = h
  BY FoundIsHeld
<1>2. CASE g # h
  BY <1>1, <1>2, UpdateEntryFinds
<1>3. CASE g = h
  <2>1. torrents[h].handle = x /\ T[x].life = "live"
    BY <1>3, SettledIsFound DEF Settled, Live
  <2> QED
    BY <1>1, <1>3, <2>1 DEF UpdateEntry, Refreshed
<1> QED
  BY <1>2, <1>3

\* The client keeps the invariant.
LEMMA ClientFiles == TypeOK /\ GhostInv /\ FileInv /\ Client => FileInv'
<1> SUFFICES ASSUME TypeOK, GhostInv, FileInv, Client PROVE FileInv'
  OBVIOUS
<1>1. UNCHANGED <<tor, alerts, popped, posted, files, phase, torrents>>
  BY DEF Client, Enqueue, BeginClearsError, TakeLastError, PollFreezes, Shutdown, batchVars, engineVars, ltVars, diskVars
<1>2. CASE phase \notin {"off", "persisting"}
  BY <1>1, <1>2, QuietFiles
<1> QED
  BY <1>1, <1>2 DEF FileInv

\* Adding a torrent: the key it was not found for is not settled.
LEMMA AddingFiles ==
    ASSUME TypeOK, GhostInv, OrphanInv, FileInv, NEW t, At(t), Drained,
           NEW h \in Hash, NEW f, NEW x \in AddResult(h), ~Valid(HandleOf(h)),
           \A y \in Handle : tor'[y].life = Added(h, x, f)[y].life /\ tor'[y].hash = Added(h, x, f)[y].hash,
           Post("added", x),
           UNCHANGED <<popped, posted, files>>,
           \A g \in Hash : g # h => torrents'[g].handle = torrents[g].handle
    PROVE  FileInv'
<1> DEFINE a == [type |-> "added", handle |-> x]
<1>1. phase \notin {"off", "persisting"}
  BY DEF At, In
<1>2. \A y \in Handle : Life(y) # "unused" => tor'[y].hash = tor[y].hash /\ tor'[y].life = tor[y].life
  BY AddedIsLive
<1>3. ASSUME NEW y \in Handle, RemovedInFlight(y)' PROVE RemovedInFlight(y)
  <2>1. alerts' = Append(alerts, a) /\ alerts \in Seq(Alert) /\ a.type # "removed"
    BY DEF Post, TypeOK
  <2> HIDE DEF a
  <2>2. \A i \in DOMAIN alerts' : (i \in DOMAIN alerts /\ alerts'[i] = alerts[i]) \/ alerts'[i] = a
    BY <2>1
  <2> QED
    BY <1>3, <2>1, <2>2 DEF RemovedInFlight
<1>4. ASSUME NEW g \in Hash, Settled(g)
      PROVE  torrents'[g].handle = torrents[g].handle /\ \A i \in DOMAIN posted' : tor'[posted'[i]].hash # g
  <2>1. g # h
    BY <1>4, SettledIsFound DEF Settled, Live, Valid
  <2> QED
    BY <2>1 DEF Drained
<1> QED
  BY <1>1, <1>2, <1>3, <1>4, KeepsFiles DEF Life

\* Posting a removal for a key that has no file left, or is not settled.
LEMMA PostingFiles ==
    ASSUME TypeOK, GhostInv, OrphanInv, FileInv, NEW t, At(t),
           NEW h \in Hash, NEW x \in Handle, Held(h, x),
           posted' = Append(posted, x),
           UNCHANGED <<tor, alerts, popped>>,
           \A g \in Hash : g # h => files'[g] = files[g] /\ torrents'[g] = torrents[g],
           files'[h].kind = "whole" => files[h].kind = "whole" /\ ~Settled(h)
    PROVE  FileInv'
<1>1. phase \notin {"off", "persisting"}
  BY DEF At, In
<1>2. tor[x].hash = h
  BY DEF GhostInv, KeysMatch
<1>3. \A i \in DOMAIN posted' : (i \in DOMAIN posted /\ posted'[i] = posted[i]) \/ posted'[i] = x
  BY DEF TypeOK
<1>4. \A g \in Hash : files'[g].kind = "whole" /\ Settled(g) =>
          g # h /\ \A i \in DOMAIN posted' : tor'[posted'[i]].hash # g
  BY <1>2, <1>3 DEF Settled
<1>5. \A y \in Handle : RemovedInFlight(y)' => RemovedInFlight(y)
  BY DEF RemovedInFlight
<1> QED
  BY <1>1, <1>4, <1>5, KeepsFiles DEF Life

\* Staging commands keep the invariant, if none cancels a preview of a torrent of the library.
LEMMA FirstPassFiles ==
    TypeOK /\ GhostInv /\ OrphanInv /\ FileInv /\ (TakeBatch \/ SparingFirstPass) => FileInv'
<1> SUFFICES ASSUME TypeOK, GhostInv, OrphanInv, FileInv, TakeBatch \/ SparingFirstPass PROVE FileInv'
  OBVIOUS
<1>1. PICK h : h = Current.hash
  OBVIOUS
<1>2. ASSUME NEW t, At(t) PROVE h \in Hash /\ phase \notin {"off", "persisting"}
  BY <1>1, <1>2, CurrentType DEF At, In
<1>3. CASE TakeBatch \/ SecondPassBegins \/ PassBy \/ StageFails \/ BeginReusesListed
  <2>1. UNCHANGED <<tor, alerts, popped, posted, files, torrents>> /\ phase \notin {"off", "persisting"}
    BY <1>3 DEF TakeBatch, SecondPassBegins, PassBy, StageFails, BeginReusesListed, NextCommand,
                At, In, engineVars, ltVars, diskVars
  <2> QED
    BY <2>1, QuietFiles
<1>4. CASE BeginStagedAgain
  <2>1. UNCHANGED <<alerts, popped, posted, files, torrents>> /\ phase \notin {"off", "persisting"}
    BY <1>4, <1>2 DEF BeginStagedAgain, engineVars, diskVars
  <2>2. tor' = [tor EXCEPT ![pending[h]].flags = @ \ {"paused"}]
    BY <1>1, <1>4 DEF BeginStagedAgain
  <2>3. \A y \in Handle : tor'[y].hash = tor[y].hash /\ tor'[y].life = tor[y].life
    BY <2>2 DEF TypeOK, Torrent
  <2> QED
    BY <2>1, <2>3, QuietFiles
<1>5. CASE BeginAdds
  <2>1. At("BeginMagnetPreview") /\ Drained /\ ~Valid(HandleOf(h)) /\ h \in Hash
    BY <1>1, <1>2, <1>5 DEF BeginAdds
  <2>2. UNCHANGED <<popped, posted, torrents, files>>
    BY <1>5 DEF BeginAdds, NextCommand, diskVars
  <2>3. PICK x \in AddResult(h) :
          /\ tor' = [Added(h, x, {"upload_mode"}) EXCEPT ![x].flags = @ \ {"paused"}]
          /\ Post("added", x)
    BY <1>1, <1>5 DEF BeginAdds
  <2> DEFINE T == Added(h, x, {"upload_mode"})
  <2>4. T \in [Handle -> Torrent]
    BY <2>1 DEF AddResult, Added, TypeOK, Torrent, Flags
  <2>5. \A y \in Handle : tor'[y].life = T[y].life /\ tor'[y].hash = T[y].hash
    <3> HIDE DEF T
    <3>1. tor' = [T EXCEPT ![x].flags = @ \ {"paused"}]
      BY <2>3 DEF T
    <3> QED
      BY <3>1, <2>4 DEF Torrent
  <2> QED
    BY <2>1, <2>2, <2>3, <2>5, AddingFiles
<1>6. CASE Finalize
  <2>1. At("FinalizeMagnetPreview") /\ h \in Hash /\ phase \notin {"off", "persisting"}
    BY <1>2, <1>6 DEF Finalize
  <2>2. UNCHANGED <<alerts, popped, posted, files>>
    BY <1>6 DEF Finalize, NextCommand, diskVars
  <2>3. CASE ~Valid(HandleOf(h))
    <3>1. UNCHANGED <<tor, torrents>>
      BY <1>1, <1>6, <2>3 DEF Finalize
    <3> QED
      BY <2>1, <2>2, <3>1, QuietFiles
  <2>4. CASE Valid(HandleOf(h))
    <3>1. PICK x \in Handle : x = HandleOf(h)
      BY <2>4 DEF Valid
    <3>2. PICK stg : stg = [pending EXCEPT ![h] = NoHandle]
      OBVIOUS
    <3>3. /\ tor' = [tor EXCEPT ![x].flags = (@ \ {"upload_mode", "paused"}) \cup {"auto_managed"}]
          /\ UpdateEntry(x, tor', torrents, stg)
      BY <1>1, <1>6, <2>4, <3>1, <3>2 DEF Finalize
    <3>4. \A y \in Handle : tor'[y].hash = tor[y].hash /\ tor'[y].life = tor[y].life
      BY <3>3 DEF TypeOK, Torrent
    <3>5. tor \in [Handle -> Torrent] /\ torrents \in [Hash -> Entry] /\ stg \in [Hash -> Handle \cup {NoHandle}]
      BY <3>2 DEF TypeOK
    <3>6. tor' \in [Handle -> Torrent]
      BY <3>3, <3>5 DEF Torrent, Flags
    <3>7. \A g \in Hash : Settled(g) => torrents'[g].handle = torrents[g].handle
      BY <2>1, <3>1, <3>3, <3>4, <3>5, <3>6, RefreshingSettled
    <3> QED
      BY <2>1, <2>2, <3>4, <3>7, QuietFiles
  <2> QED
    BY <2>3, <2>4
<1>7. CASE SparingCancel
  <2>1. At("CancelMagnetPreview") /\ h \in Hash /\ phase \notin {"off", "persisting"}
    BY <1>2, <1>7 DEF SparingCancel, Cancel
  <2>2. UNCHANGED <<tor, alerts, popped, files, torrents>>
    BY <1>7 DEF SparingCancel, Cancel, NextCommand, diskVars
  <2>3. CASE ~Valid(pending[h])
    <3>1. posted' = posted
      BY <1>1, <1>7, <2>3 DEF SparingCancel, Cancel
    <3> QED
      BY <2>1, <2>2, <3>1, QuietFiles
  <2>4. CASE Valid(pending[h])
    <3>1. PICK x \in Handle : x = pending[h]
      BY <2>4 DEF Valid
    <3>2. posted' = Append(posted, x) /\ Held(h, x)
      BY <1>1, <1>7, <2>4, <3>1 DEF SparingCancel, Cancel, Held
    <3>3. ~Listed(h)
      BY <1>1, <1>7, <3>1, NoHandleAssumption DEF SparingCancel, Staged
    <3>4. ~Settled(h)
      BY <3>3, NoHandleAssumption DEF Settled, Live, Listed
    <3> QED
      BY <2>1, <2>2, <3>1, <3>2, <3>4, PostingFiles
  <2> QED
    BY <2>3, <2>4
<1>8. CASE Add
  <2>1. At("Add") /\ Drained /\ h \in Hash /\ phase \notin {"off", "persisting"}
    BY <1>2, <1>8 DEF Add
  <2>2. UNCHANGED <<popped, posted, files>>
    BY <1>8 DEF Add, NextCommand, diskVars
  <2>3. CASE Valid(HandleOf(h))
    <3>1. PICK x \in Handle : x = HandleOf(h)
      BY <2>3 DEF Valid
    <3>2. UpdateEntry(x, tor, torrents, pending) /\ UNCHANGED <<tor, alerts>>
      BY <1>1, <1>8, <2>3, <3>1 DEF Add
    <3>3. tor \in [Handle -> Torrent] /\ torrents \in [Hash -> Entry] /\ pending \in [Hash -> Handle \cup {NoHandle}]
      BY DEF TypeOK
    <3>4. \A g \in Hash : Settled(g) => torrents'[g].handle = torrents[g].handle
      BY <2>1, <3>1, <3>2, <3>3, RefreshingSettled
    <3> QED
      BY <2>1, <2>2, <3>2, <3>4, QuietFiles
  <2>4. CASE ~Valid(HandleOf(h))
    <3>1. PICK f : f = {"paused", "auto_managed"}
      OBVIOUS
    <3>2. PICK x \in AddResult(h) :
            tor' = Added(h, x, f) /\ Post("added", x) /\ UpdateEntry(x, tor', torrents, pending)
      BY <1>1, <1>8, <2>4, <3>1 DEF Add
    <3>3. x \in Handle /\ tor'[x].hash = h
      BY <2>1, <3>2, AddedIsLive
    <3>4. tor' \in [Handle -> Torrent] /\ torrents \in [Hash -> Entry] /\ pending \in [Hash -> Handle \cup {NoHandle}]
      BY <2>1, <3>1, <3>2 DEF AddResult, Added, TypeOK, Torrent, Flags
    <3>5. \A g \in Hash : g # h => torrents'[g] = torrents[g]
      BY <3>2, <3>3, <3>4, UpdateEntryFinds
    <3> QED
      BY <2>1, <2>2, <2>4, <3>2, <3>5, AddingFiles
  <2> QED
    BY <2>3, <2>4
<1> QED
  BY <1>3, <1>4, <1>5, <1>6, <1>7, <1>8 DEF SparingFirstPass

\* An operation on a found torrent keeps the invariant.
LEMMA OperateFiles ==
    ASSUME TypeOK, GhostInv, OrphanInv, FileInv, NEW ty, At(ty),
           NEW h \in Hash, NEW x \in Handle, HandleOf(h) = x,
           NEW t \in Torrent, t.life = tor[x].life, t.hash = tor[x].hash,
           NEW lib \in [Hash -> Entry], \A g \in Hash : lib[g].handle = torrents[g].handle,
           Operate(x, t, lib)
    PROVE  FileInv'
<1>1. tor' = [tor EXCEPT ![x] = t] /\ UpdateEntry(x, tor', lib, pending) /\ UNCHANGED <<alerts, popped, posted, files>>
  BY DEF Operate, NextCommand, diskVars
<1>2. tor' \in [Handle -> Torrent] /\ pending \in [Hash -> Handle \cup {NoHandle}]
  BY <1>1 DEF TypeOK
<1>3. \A y \in Handle : tor'[y].hash = tor[y].hash /\ tor'[y].life = tor[y].life
  BY <1>1 DEF TypeOK
<1>4. \A g \in Hash : Settled(g) => torrents'[g].handle = torrents[g].handle
  BY <1>1, <1>2, <1>3, RefreshingSettled
<1> QED
  BY <1>1, <1>3, <1>4, QuietFiles DEF At, In

\* Torrent operations keep the invariant: a removal deletes the file before the torrent leaves.
LEMMA SecondPassFiles == TypeOK /\ GhostInv /\ OrphanInv /\ FileInv /\ SecondPass => FileInv'
<1> SUFFICES ASSUME TypeOK, GhostInv, OrphanInv, FileInv, SecondPass PROVE FileInv'
  OBVIOUS
<1>1. PICK h : h = Current.hash
  OBVIOUS
<1>2. PICK x : x = HandleOf(h)
  OBVIOUS
<1>3. CASE OpNotFound \/ AdjustRefused \/ SeedingOpRefused
  <2>1. UNCHANGED <<tor, alerts, popped, posted, files, torrents>> /\ phase \notin {"off", "persisting"}
    BY <1>3 DEF OpNotFound, AdjustRefused, SeedingOpRefused, NextCommand, At, In, ltVars, diskVars
  <2> QED
    BY <2>1, QuietFiles
<1>4. ASSUME NEW ty, OpFound(ty)
      PROVE  At(ty) /\ h \in Hash /\ x \in Handle /\ tor[x] \in Torrent /\ torrents \in [Hash -> Entry]
  BY <1>1, <1>2, <1>4, CurrentType DEF OpFound, Valid, TypeOK
<1>5. ASSUME NEW ty, OpFound(ty), NEW b \in BOOLEAN,
             NEW t \in Torrent, t.life = tor[x].life, t.hash = tor[x].hash,
             Operate(x, t, WithStopped(h, b)) \/ Operate(x, t, torrents)
      PROVE  FileInv'
  <2>1. WithStopped(h, b) \in [Hash -> Entry] /\ \A g \in Hash : WithStopped(h, b)[g].handle = torrents[g].handle
    BY <1>4, <1>5, WithStoppedType, WithStoppedHandles
  <2> QED
    BY <1>2, <1>4, <1>5, <2>1, OperateFiles
<1>6. CASE Pause
  <2> DEFINE t == [tor[x] EXCEPT !.flags = (@ \ {"auto_managed"}) \cup {"paused"}]
  <2>1. OpFound("Pause") /\ Operate(x, t, WithStopped(h, FALSE))
    BY <1>6, <1>1, <1>2 DEF Pause
  <2>2. t \in Torrent /\ t.life = tor[x].life /\ t.hash = tor[x].hash
    BY <2>1, <1>4 DEF Torrent, Flags
  <2> HIDE DEF t
  <2> QED
    BY <2>1, <2>2, <1>5
<1>7. CASE ResumeTorrent
  <2> DEFINE t == [tor[x] EXCEPT !.flags = (@ \ {"paused"}) \cup {"auto_managed"}, !.limited = @ /\ ~Listed(h)]
  <2>1. OpFound("Resume") /\ Operate(x, t, WithStopped(h, FALSE))
    BY <1>7, <1>1, <1>2 DEF ResumeTorrent
  <2>2. t \in Torrent /\ t.life = tor[x].life /\ t.hash = tor[x].hash
    BY <2>1, <1>4 DEF Torrent, Flags
  <2> HIDE DEF t
  <2> QED
    BY <2>1, <2>2, <1>5
<1>8. CASE StopSeeding
  <2> DEFINE t == [tor[x] EXCEPT !.limited = TRUE]
  <2>1. OpFound("StopSeeding") /\ Operate(x, t, WithStopped(h, TRUE))
    BY <1>8, <1>1, <1>2 DEF StopSeeding
  <2>2. t \in Torrent /\ t.life = tor[x].life /\ t.hash = tor[x].hash
    BY <2>1, <1>4 DEF Torrent
  <2> HIDE DEF t
  <2> QED
    BY <2>1, <2>2, <1>5
<1>9. CASE ResumeSeeding
  <2> DEFINE t == [tor[x] EXCEPT !.limited = FALSE]
  <2>1. OpFound("ResumeSeeding") /\ Operate(x, t, WithStopped(h, FALSE))
    BY <1>9, <1>1, <1>2 DEF ResumeSeeding
  <2>2. t \in Torrent /\ t.life = tor[x].life /\ t.hash = tor[x].hash
    BY <2>1, <1>4 DEF Torrent
  <2> HIDE DEF t
  <2> QED
    BY <2>1, <2>2, <1>5
<1>10. CASE ForceRecheck
  <2> DEFINE t == [tor[x] EXCEPT !.complete = FALSE]
  <2>1. OpFound("ForceRecheck") /\ Operate(x, t, torrents)
    BY <1>10, <1>1, <1>2 DEF ForceRecheck
  <2>2. t \in Torrent /\ t.life = tor[x].life /\ t.hash = tor[x].hash
    BY <2>1, <1>4 DEF Torrent
  <2> HIDE DEF t
  <2> QED
    BY <2>1, <2>2, <1>5
<1>11. CASE Adjust
  <2>1. OpFound("Adjust") /\ Operate(x, tor[x], torrents)
    BY <1>11, <1>1, <1>2 DEF Adjust
  <2> QED
    BY <2>1, <1>4, <1>5
<1>12. CASE Remove
  <2>1. At("Remove") /\ h \in Hash /\ x \in Handle
    BY <1>12, <1>1, <1>2, CurrentType DEF Remove, Valid
  <2>2. /\ posted' = Append(posted, x) /\ UNCHANGED <<tor, alerts, popped>>
        /\ torrents' = [torrents EXCEPT ![h] = NoEntry] /\ files' = [files EXCEPT ![h] = NoFile]
    BY <1>12, <1>1, <1>2 DEF Remove, DeleteResumeFile, NextCommand
  <2>3. files'[h].kind # "whole" /\ \A g \in Hash : g # h => files'[g] = files[g] /\ torrents'[g] = torrents[g]
    BY <2>1, <2>2 DEF TypeOK, NoFile
  <2>4. Held(h, x)
    BY <1>2, <2>1, FoundIsHeld
  <2> QED
    BY <2>1, <2>2, <2>3, <2>4, PostingFiles
<1> QED
  BY <1>3, <1>6, <1>7, <1>8, <1>9, <1>10, <1>11, <1>12 DEF SecondPass

\* The pump keeps the invariant: no removed alert is about a settled key, so that every other alert
\* about it is about its torrent.
LEMMA PumpFiles ==
    TypeOK /\ GhostInv /\ OrphanInv /\ FileInv /\ (Pump \/ HandleThrows \/ WorkerExits) => FileInv'
<1> SUFFICES ASSUME TypeOK, GhostInv, OrphanInv, FileInv, Pump \/ HandleThrows \/ WorkerExits PROVE FileInv'
  OBVIOUS
<1>1. CASE PopAlerts
  <2>1. /\ popped = <<>> /\ popped' = alerts /\ alerts' = <<>> /\ UNCHANGED <<tor, torrents, posted, files>>
        /\ phase \notin {"off", "persisting"}
    BY <1>1 DEF PopAlerts, In, engineVars, diskVars, GhostInv, PumpOnlyInAlerts
  <2>2. \A x \in Handle : RemovedInFlight(x)' => RemovedInFlight(x)
    BY <2>1 DEF RemovedInFlight
  <2> QED
    BY <2>1, <2>2, KeepsFiles DEF Life, Settled
<1>2. CASE HandleRemoved
  <2> DEFINE z == popped[1].handle
  <2>1. /\ HandlingAlert /\ popped' = Tail(popped) /\ UNCHANGED <<tor, alerts, posted, files>>
        /\ z \in Handle /\ 1 \in DOMAIN popped /\ popped[1].type = "removed" /\ phase \notin {"off", "persisting"}
    BY <1>2, TailAlerts DEF HandleRemoved, ltVars, diskVars, HandlingAlert, In
  <2>2. torrents' = [torrents EXCEPT ![tor[z].hash] = NoEntry]
    BY <1>2, <2>1, TailAlerts DEF HandleRemoved, Forget
  <2>3. RemovedInFlight(z)
    BY <2>1 DEF RemovedInFlight
  <2>4. \A x \in Handle : RemovedInFlight(x)' => RemovedInFlight(x)
    BY <2>1, TailAlerts DEF RemovedInFlight
  <2>5. \A h \in Hash : Settled(h) => torrents'[h].handle = torrents[h].handle
    BY <2>1, <2>2, <2>3 DEF Settled, TypeOK
  <2> QED
    BY <2>1, <2>4, <2>5, KeepsFiles DEF Life, Settled
<1>3. CASE HandleUpdate
  <2> DEFINE z == popped[1].handle
  <2>1. /\ HandlingAlert /\ popped' = Tail(popped) /\ UNCHANGED <<tor, alerts, posted, files>>
        /\ z \in Handle /\ 1 \in DOMAIN popped /\ popped[1].type # "removed" /\ phase \notin {"off", "persisting"}
    BY <1>3, TailAlerts DEF HandleUpdate, ltVars, diskVars, HandlingAlert, In
  <2>2. UpdateEntry(z, tor, torrents, pending)
    BY <1>3, <2>1, TailAlerts DEF HandleUpdate
  <2>3. \A x \in Handle : RemovedInFlight(x)' => RemovedInFlight(x)
    BY <2>1, TailAlerts DEF RemovedInFlight
  <2>4. Life(z) # "live" => RemovedInFlight(z)
    BY <2>1 DEF GhostInv, PoppedClosed, ClosedByRemoved, RemovedInFlight
  <2>5. tor \in [Handle -> Torrent] /\ torrents \in [Hash -> Entry] /\ pending \in [Hash -> Handle \cup {NoHandle}]
    BY DEF TypeOK
  <2> HIDE DEF z
  <2>6. ASSUME NEW h \in Hash, Settled(h) PROVE torrents'[h].handle = torrents[h].handle
    <3>1. CASE tor[z].hash # h
      BY <2>1, <2>2, <2>5, <3>1, UpdateEntryFinds
    <3>2. CASE tor[z].hash = h
      <4>1. Life(z) = "live"
        BY <2>1, <2>4, <2>6, <3>2 DEF Settled
      <4>2. PICK y \in Handle : y = torrents[h].handle /\ Life(y) = "live"
        BY <2>6 DEF Settled, Live, Life
      <4>3. tor[y].hash = h
        BY <4>2 DEF GhostInv, KeysMatch, Held
      <4>4. y = z
        BY <2>1, <3>2, <4>1, <4>2, <4>3 DEF OrphanInv, UniqueLive
      <4> QED
        <5>1. Refreshed(torrents[h], z, tor[z]).handle = z
          BY DEF Refreshed
        <5>2. torrents' = torrents \/ torrents' = [torrents EXCEPT ![h] = Refreshed(torrents[h], z, tor[z])]
          BY <2>2, <3>2, <4>1 DEF UpdateEntry, Life
        <5> QED
          BY <2>5, <4>2, <4>4, <5>1, <5>2
    <3> QED
      BY <3>1, <3>2
  <2> QED
    BY <2>1, <2>3, <2>6, KeepsFiles DEF Life, Settled
<1>4. CASE RefreshAll
  <2>1. torrents' = [h \in Hash |->
              IF Valid(torrents[h].handle)
              THEN [torrents[h] EXCEPT !.state = SnapshotState(tor[torrents[h].handle]), !.shown_stopped = FALSE]
              ELSE torrents[h]]
    BY <1>4 DEF RefreshAll
  <2>2. UNCHANGED <<tor, alerts, popped, posted, files>> /\ phase \notin {"off", "persisting"}
    BY <1>4 DEF RefreshAll, ltVars, diskVars, In
  <2>3. \A h \in Hash : torrents'[h].handle = torrents[h].handle
    BY <2>1 DEF TypeOK, Entry
  <2> QED
    BY <2>2, <2>3, QuietFiles
<1>5. CASE HandleThrows
  <2>1. UNCHANGED <<tor, alerts, popped, posted, files, torrents, phase>>
    BY <1>5 DEF HandleThrows, engineVars, ltVars, diskVars
  <2>2. CASE phase \notin {"off", "persisting"}
    BY <2>1, <2>2, QuietFiles
  <2> QED
    BY <2>1, <2>2 DEF FileInv
<1>6. CASE WorkerExits
  BY <1>6 DEF WorkerExits, FileInv
<1> QED
  BY <1>1, <1>2, <1>3, <1>4, <1>5, <1>6 DEF Pump

\* libtorrent keeps the invariant: what it removes is not settled.
LEMMA LibtorrentFiles == TypeOK /\ GhostInv /\ FileInv /\ Libtorrent => FileInv'
<1> SUFFICES ASSUME TypeOK, GhostInv, FileInv, Libtorrent PROVE FileInv'
  OBVIOUS
<1>1. UNCHANGED <<popped, torrents, files, phase>>
  BY DEF Libtorrent, RunRemoval, DestroyTorrent, TorrentFinishes, TorrentReports, Event, AutoManage,
         batchVars, engineVars, diskVars
<1> SUFFICES ASSUME phase \notin {"off", "persisting"} PROVE FileInv'
  BY <1>1 DEF FileInv
<1>2. \A i \in DOMAIN posted : posted[i] \in Handle
  BY DEF TypeOK
<1>3. \A x \in Handle : tor'[x].hash = tor[x].hash
  <2>1. CASE UNCHANGED tor
    BY <2>1
  <2>2. ASSUME NEW x \in Handle, NEW t \in Torrent, t.hash = tor[x].hash, tor' = [tor EXCEPT ![x] = t]
        PROVE  \A y \in Handle : tor'[y].hash = tor[y].hash
    BY <2>2 DEF TypeOK
  <2>3. ASSUME NEW x \in Handle, NEW l, tor' = [tor EXCEPT ![x].life = l]
        PROVE  \A y \in Handle : tor'[y].hash = tor[y].hash
    BY <2>3 DEF TypeOK, Torrent
  <2>4. ASSUME NEW x \in Handle, NEW f, tor' = [tor EXCEPT ![x].flags = f]
        PROVE  \A y \in Handle : tor'[y].hash = tor[y].hash
    BY <2>4 DEF TypeOK, Torrent
  <2>5. CASE RunRemoval
    BY <2>1, <2>3, <2>5 DEF RunRemoval, Valid
  <2>6. ASSUME NEW x \in Handle, DestroyTorrent(x) PROVE \A y \in Handle : tor'[y].hash = tor[y].hash
    BY <2>3, <2>6 DEF DestroyTorrent
  <2>7. ASSUME NEW x \in Handle, TorrentFinishes(x) PROVE \A y \in Handle : tor'[y].hash = tor[y].hash
    <3> DEFINE t == [tor[x] EXCEPT !.complete = TRUE]
    <3>1. tor' = [tor EXCEPT ![x] = t] /\ t \in Torrent /\ t.hash = tor[x].hash
      BY <2>7 DEF TorrentFinishes, Event, TypeOK, Torrent
    <3> HIDE DEF t
    <3> QED
      BY <3>1, <2>2
  <2>8. ASSUME NEW x \in Handle, TorrentReports(x) PROVE \A y \in Handle : tor'[y].hash = tor[y].hash
    BY <2>2, <2>8 DEF TorrentReports, Event, TypeOK
  <2>9. ASSUME NEW x \in Handle, AutoManage(x) PROVE \A y \in Handle : tor'[y].hash = tor[y].hash
    BY <2>9 DEF AutoManage, TypeOK, Torrent
  <2> QED
    BY <2>5, <2>6, <2>7, <2>8, <2>9 DEF Libtorrent
<1>4. CASE RunRemoval
  <2> DEFINE x == Head(posted)
  <2>1. /\ posted \in Seq(Handle) /\ posted # <<>> /\ posted' = Tail(posted)
        /\ \/ tor' = [tor EXCEPT ![x].life = "dying"] /\ Post("removed", x) /\ x \in Handle
           \/ UNCHANGED <<tor, alerts>>
    BY <1>4 DEF RunRemoval, Valid, TypeOK
  <2>2. RemovalPosted(x)
    BY <2>1 DEF RemovalPosted
  <2>3. \A i \in DOMAIN posted' : \E j \in DOMAIN posted : posted'[i] = posted[j]
    <3>1. \A i \in DOMAIN posted' : i + 1 \in DOMAIN posted /\ posted'[i] = posted[i + 1]
      BY <2>1
    <3> QED
      BY <3>1
  <2>4. ASSUME NEW y \in Handle, Life(y) = "live" PROVE Life(y)' = "live" \/ RemovalPosted(y)
    BY <2>1, <2>2, <2>4 DEF Life, TypeOK
  <2>5. ASSUME NEW y \in Handle, RemovedInFlight(y)' PROVE RemovedInFlight(y) \/ RemovalPosted(y)
    <3> DEFINE a == [type |-> "removed", handle |-> x]
    <3>1. alerts \in Seq(Alert) /\ (alerts' = alerts \/ alerts' = Append(alerts, a)) /\ a.handle = x
      BY <2>1 DEF Post, TypeOK
    <3> HIDE DEF a
    <3>2. \A i \in DOMAIN alerts' : (i \in DOMAIN alerts /\ alerts'[i] = alerts[i]) \/ alerts'[i] = a
      BY <3>1
    <3> QED
      BY <1>1, <2>2, <2>5, <3>1, <3>2 DEF RemovedInFlight
  <2>6. \A h \in Hash : Settled(h) => \A i \in DOMAIN posted' : tor'[posted'[i]].hash # h
    BY <1>2, <1>3, <2>3 DEF Settled
  <2> HIDE DEF x
  <2> QED
    BY <1>1, <1>3, <2>4, <2>5, <2>6, KeepsFiles
<1>5. CASE \E x \in Handle : DestroyTorrent(x) \/ TorrentFinishes(x) \/ TorrentReports(x) \/ AutoManage(x)
  <2>1. posted' = posted
    BY <1>5 DEF DestroyTorrent, TorrentFinishes, TorrentReports, Event, AutoManage
  <2>2. ASSUME NEW y \in Handle, Life(y) = "live" PROVE Life(y)' = "live"
    <3>1. PICK x \in Handle : DestroyTorrent(x) \/ TorrentFinishes(x) \/ TorrentReports(x) \/ AutoManage(x)
      BY <1>5
    <3>2. tor \in [Handle -> Torrent]
      BY DEF TypeOK
    <3>3. CASE DestroyTorrent(x)
      BY <2>2, <3>2, <3>3 DEF DestroyTorrent, Life
    <3>4. CASE TorrentFinishes(x)
      BY <2>2, <3>2, <3>4 DEF TorrentFinishes, Event, Life, Torrent
    <3>5. CASE TorrentReports(x)
      BY <2>2, <3>2, <3>5 DEF TorrentReports, Event, Life
    <3>6. CASE AutoManage(x)
      BY <2>2, <3>2, <3>6 DEF AutoManage, Life, Torrent
    <3> QED
      BY <3>1, <3>3, <3>4, <3>5, <3>6
  <2>3. alerts' = alerts \/ \E a \in Alert : a.type # "removed" /\ alerts' = Append(alerts, a)
    BY <1>5 DEF DestroyTorrent, TorrentFinishes, TorrentReports, Event, AutoManage, Post, Alert
  <2>4. ASSUME NEW y \in Handle, RemovedInFlight(y)' PROVE RemovedInFlight(y)
    <3>1. CASE alerts' = alerts
      BY <1>1, <2>4, <3>1 DEF RemovedInFlight
    <3>2. ASSUME NEW a \in Alert, a.type # "removed", alerts' = Append(alerts, a) PROVE RemovedInFlight(y)
      <4>1. \A i \in DOMAIN alerts' : (i \in DOMAIN alerts /\ alerts'[i] = alerts[i]) \/ alerts'[i] = a
        BY <3>2 DEF TypeOK
      <4> QED
        BY <1>1, <2>4, <3>2, <4>1 DEF RemovedInFlight
    <3> QED
      BY <2>3, <3>1, <3>2
  <2>5. \A h \in Hash : Settled(h) => \A i \in DOMAIN posted' : tor'[posted'[i]].hash # h
    BY <1>2, <1>3, <2>1 DEF Settled
  <2> QED
    BY <1>1, <1>3, <2>2, <2>4, <2>5, KeepsFiles
<1> QED
  BY <1>4, <1>5 DEF Libtorrent

\* Files are written while no engine runs; the next start restores, lists and settles their torrents.
LEMMA LifecycleFiles == TypeOK /\ GhostInv /\ OrphanInv /\ FileInv /\ Lifecycle => FileInv'
<1> SUFFICES ASSUME TypeOK, GhostInv, OrphanInv, FileInv, Lifecycle PROVE FileInv'
  OBVIOUS
<1>1. ASSUME NEW h \in Hash, SaveResume(h) PROVE FileInv'
  BY <1>1 DEF SaveResume, batchVars, FileInv
<1>2. ASSUME NEW h \in Hash, SaveFails(h) PROVE FileInv'
  BY <1>2 DEF SaveFails, batchVars, FileInv
<1>3. CASE FinishShutdown \/ Crash
  BY <1>3 DEF FinishShutdown, Crash, ProcessEnds, FileInv
<1>4. CASE Start
  <2>1. PICK order \in {s \in [1 .. Cardinality(Restorable) -> Restorable] : Injective(s)},
             new \in {f \in [Restorable -> Handle] : Injective(f)} :
           /\ tor' = [x \in Handle |->
                IF \E h \in Restorable : new[h] = x
                THEN LET h == CHOOSE g \in Restorable : new[g] = x
                     IN  [life |-> "live", hash |-> h, flags |-> files[h].flags \cup {"auto_managed"},
                          complete |-> files[h].complete, limited |-> files[h].limited]
                ELSE Unused]
           /\ torrents' = [h \in Hash |->
                IF h \in Restorable THEN Refreshed(NoEntry, new[h], tor'[new[h]]) ELSE NoEntry]
           /\ alerts' = [i \in DOMAIN order |-> [type |-> "added", handle |-> new[order[i]]]]
    BY <1>4 DEF Start
  <2>2. popped' = <<>> /\ posted' = <<>> /\ files' = files
    BY <1>4 DEF Start, GhostInv, PumpOnlyInAlerts, OrphanInv
  <2>3. \A x \in Handle : ~RemovedInFlight(x)'
    <3>1. \A i \in DOMAIN alerts' : alerts'[i].type = "added"
      BY <2>1
    <3> QED
      BY <2>2, <3>1 DEF RemovedInFlight
  <2>4. ASSUME NEW h \in Hash, files[h].kind = "whole" PROVE Settled(h)'
    <3>1. h \in Restorable /\ new[h] \in Handle
      BY <2>4 DEF Restorable
    <3>2. torrents'[h].handle = new[h] /\ tor'[new[h]].life = "live"
      BY <2>1, <3>1 DEF Refreshed
    <3> QED
      BY <2>2, <2>3, <3>1, <3>2 DEF Settled, Live
  <2> QED
    BY <2>2, <2>4 DEF FileInv
<1> QED
  BY <1>1, <1>2, <1>3, <1>4 DEF Lifecycle

\* In every run that cancels no preview of a torrent of the library, a torrent with a resume file is
\* settled while the engine runs: it is listed and alive, and nothing posted or in flight removes it.
THEOREM FileInvariant == SparingSpec => []FileInv
<1>1. Init => FileInv
  BY DEF Init, FileInv, NoFile
<1>2. TypeOK /\ GhostInv /\ OrphanInv /\ FileInv /\ [SparingNext]_vars => FileInv'
  <2>1. ASSUME TypeOK, GhostInv, FileInv, UNCHANGED vars PROVE FileInv'
    <3>1. UNCHANGED <<tor, alerts, popped, posted, files, torrents, phase>>
      BY <2>1 DEF vars, batchVars, engineVars, ltVars, diskVars
    <3>2. CASE phase \notin {"off", "persisting"}
      BY <2>1, <3>1, <3>2, QuietFiles
    <3> QED
      BY <3>1, <3>2 DEF FileInv
  <2> QED
    BY <2>1, ClientFiles, FirstPassFiles, SecondPassFiles, PumpFiles, LibtorrentFiles, LifecycleFiles
       DEF SparingNext
<1>3. SparingSpec => Spec
  <2>1. [SparingNext]_vars => [Next]_vars
    BY DEF SparingNext, SparingFirstPass, SparingCancel, Next, Worker, FirstPass
  <2> QED
    BY <2>1, PTL DEF SparingSpec, Spec
<1> QED
  BY <1>1, <1>2, <1>3, TypeCorrect, GhostInvariant, OrphanInvariant, PTL DEF SparingSpec

\* What was removed stays removed: at rest, what the next start will restore is in the library, in every
\* run that cancels no preview of a torrent of the library (lines 897-921 and 1095).
THEOREM FilesMatchLibraryHolds == SparingSpec => []FilesMatchLibrary
<1>1. FileInv => FilesMatchLibrary
  <2> SUFFICES ASSUME FileInv, AtRest, NEW h \in Hash, files[h].kind = "whole"
               PROVE  torrents[h].handle # NoHandle
    BY DEF FilesMatchLibrary, Listed
  <2>1. Settled(h)
    BY DEF FileInv, AtRest
  <2> QED
    BY <2>1, NoHandleAssumption DEF Settled, Live
<1> QED
  BY <1>1, FileInvariant, PTL

-----------------------------------------------------------------------------
(* Throttled torrents *)

\* The torrent runs, or the queueing logic may run it.
MayRun(t) == "paused" \notin t.flags \/ "auto_managed" \in t.flags

\* What NeverThrottledUnseen asks of a step.
SeenStep ==
    \A h \in Hash : ThrottledUnseen(h)' /\ torrents'[h].handle = torrents[h].handle =>
        ThrottledUnseen(h) \/ StartsPreview(h)

\* The steps to look at: those that lose a flag, limit a torrent or let it run.
LEMMA KeepsSeen ==
    ASSUME NEW h \in Hash, NEW x \in Handle, x = torrents[h].handle, torrents'[h].handle = x,
           tor'[x].life = "live" => tor[x].life = "live",
           tor'[x].limited => tor[x].limited,
           MayRun(tor'[x]) => MayRun(tor[x]),
           torrents[h].upload_stopped => torrents'[h].upload_stopped,
           ThrottledUnseen(h)'
    PROVE  ThrottledUnseen(h)
  BY DEF ThrottledUnseen, Live, MayRun

\* Steps under which no torrent comes to life, is limited or may run that might not, and no flag of a key
\* that keeps its torrent is lost.
LEMMA QuietSeen ==
    ASSUME \A x \in Handle :
              /\ tor'[x].life = "live" => tor[x].life = "live"
              /\ tor'[x].limited => tor[x].limited
              /\ MayRun(tor'[x]) => MayRun(tor[x]),
           \A h \in Hash : torrents'[h].handle = torrents[h].handle /\ torrents[h].handle # NoHandle
              /\ torrents[h].upload_stopped => torrents'[h].upload_stopped
    PROVE  SeenStep
<1> SUFFICES ASSUME NEW h \in Hash, ThrottledUnseen(h)', torrents'[h].handle = torrents[h].handle
             PROVE  ThrottledUnseen(h)
  BY DEF SeenStep
<1>1. PICK x \in Handle : x = torrents[h].handle
  BY DEF ThrottledUnseen, Live
<1> QED
  BY <1>1, KeepsSeen, NoHandleAssumption

\* update_entry carries the flag over.
LEMMA UpdateEntryCarries ==
    ASSUME NEW x \in Handle, NEW T \in [Handle -> Torrent],
           NEW lib \in [Hash -> Entry], NEW stg, UpdateEntry(x, T, lib, stg),
           NEW h \in Hash, torrents'[h].handle # NoHandle
    PROVE  torrents'[h].upload_stopped = lib[h].upload_stopped
<1>1. T[x].hash \in Hash
  BY DEF Torrent
<1> QED
  BY <1>1 DEF UpdateEntry, Refreshed, NoEntry

\* A live torrent of the library is the one its key finds, once no removal is posted.
LEMMA LiveIsFound ==
    ASSUME TypeOK, GhostInv, OrphanInv, NEW t, At(t), Drained,
           NEW h \in Hash, Live(torrents[h].handle)
    PROVE  HandleOf(h) = torrents[h].handle /\ tor[torrents[h].handle].hash = h
<1>1. PICK x \in Handle : x = torrents[h].handle /\ Life(x) = "live"
  BY DEF Live, Life
<1>2. tor[x].hash = h
  BY <1>1 DEF GhostInv, KeysMatch, Held
<1>3. Staying(x)
  BY <1>1 DEF Staying, RemovalPosted, Drained
<1> QED
  BY <1>1, <1>2, <1>3, StayingIsFound

\* An operation on a found torrent: it loses the flag of no other key, and lets no limited torrent run
\* without it.
LEMMA OperateSeen ==
    ASSUME TypeOK, GhostInv, OrphanInv, NEW ty, OpFound(ty),
           NEW h \in Hash, NEW x \in Handle, HandleOf(h) = x,
           NEW t \in Torrent, t.life = tor[x].life, t.hash = tor[x].hash,
           NEW lib \in [Hash -> Entry], \A g \in Hash : g # h => lib[g] = torrents[g],
           Listed(h) /\ t.limited /\ MayRun(t) /\ ~lib[h].upload_stopped =>
               tor[x].limited /\ MayRun(tor[x]) /\ ~torrents[h].upload_stopped,
           Operate(x, t, lib)
    PROVE  SeenStep
<1>1. tor' = [tor EXCEPT ![x] = t] /\ UpdateEntry(x, tor', lib, pending)
  BY DEF Operate
<1>2. tor' \in [Handle -> Torrent] /\ pending \in [Hash -> Handle \cup {NoHandle}]
  BY <1>1 DEF TypeOK
<1>3. tor'[x] = t /\ \A y \in Handle : y # x => tor'[y] = tor[y]
  BY <1>1 DEF TypeOK
<1>4. tor[x].hash = h
  BY FoundIsHeld
<1> SUFFICES ASSUME NEW g \in Hash, ThrottledUnseen(g)', torrents'[g].handle = torrents[g].handle
             PROVE  ThrottledUnseen(g)
  BY DEF SeenStep
<1>5. PICK y \in Handle : y = torrents[g].handle /\ tor'[y].life = "live"
  BY DEF ThrottledUnseen, Live
<1>6. Live(torrents[g].handle) /\ tor[y].life = "live"
  BY <1>3, <1>5 DEF Live
<1>7. HandleOf(g) = y /\ tor[y].hash = g
  BY <1>5, <1>6, LiveIsFound DEF OpFound
<1>8. torrents'[g].upload_stopped = lib[g].upload_stopped
  BY <1>1, <1>2, <1>5, UpdateEntryCarries, NoHandleAssumption
<1>9. CASE g # h
  <2>1. y # x
    BY <1>4, <1>7, <1>9
  <2> QED
    BY <1>3, <1>5, <1>8, <1>9, <2>1, KeepsSeen
<1>10. CASE g = h
  <2>1. y = x /\ Listed(h)
    BY <1>5, <1>7, <1>10, NoHandleAssumption DEF Listed
  <2>2. t.limited /\ MayRun(t) /\ ~lib[h].upload_stopped
    BY <1>3, <1>5, <1>8, <1>10, <2>1 DEF ThrottledUnseen, MayRun
  <2>3. tor[x].limited /\ MayRun(tor[x]) /\ ~torrents[h].upload_stopped
    BY <2>1, <2>2
  <2> QED
    BY <1>5, <1>6, <1>10, <2>1, <2>3 DEF ThrottledUnseen, MayRun
<1> QED
  BY <1>9, <1>10

\* Staging commands: only those that start a preview let a torrent of the library run, and a torrent that
\* is added is none of it.
LEMMA FirstPassSeen == TypeOK /\ GhostInv /\ OrphanInv /\ (TakeBatch \/ FirstPass) => SeenStep
<1> SUFFICES ASSUME TypeOK, GhostInv, OrphanInv, TakeBatch \/ FirstPass PROVE SeenStep
  OBVIOUS
<1>1. PICK h : h = Current.hash
  OBVIOUS
<1>2. ASSUME NEW t, At(t) PROVE h \in Hash
  BY <1>1, <1>2, CurrentType
<1>3. tor \in [Handle -> Torrent] /\ torrents \in [Hash -> Entry] /\ pending \in [Hash -> Handle \cup {NoHandle}]
  BY DEF TypeOK
<1>4. CASE TakeBatch \/ SecondPassBegins \/ PassBy \/ StageFails \/ BeginReusesListed \/ Cancel
  <2>1. UNCHANGED <<tor, torrents>>
    BY <1>4 DEF TakeBatch, SecondPassBegins, PassBy, StageFails, BeginReusesListed, Cancel, NextCommand, engineVars, ltVars
  <2> QED
    BY <2>1, QuietSeen
<1>5. ASSUME NEW x \in Handle, h \in Hash, StartsPreview(h), tor[x].hash = h,
             \A y \in Handle : y # x => tor'[y] = tor[y],
             \A g \in Hash : g # h => torrents'[g] = torrents[g]
      PROVE  SeenStep
  <2> SUFFICES ASSUME NEW g \in Hash, g # h, ThrottledUnseen(g)', torrents'[g].handle = torrents[g].handle
               PROVE  ThrottledUnseen(g)
    BY <1>5 DEF SeenStep
  <2>1. PICK y \in Handle : y = torrents[g].handle
    BY DEF ThrottledUnseen, Live
  <2>2. tor[y].hash = g
    BY <2>1 DEF GhostInv, KeysMatch, Held
  <2> QED
    BY <1>5, <2>1, <2>2, KeepsSeen
<1>6. CASE BeginStagedAgain
  <2>1. h \in Hash /\ Staged(h) /\ StartsPreview(h)
    BY <1>1, <1>2, <1>6 DEF BeginStagedAgain, StartsPreview
  <2>2. PICK x \in Handle : x = pending[h]
    BY <1>1, <1>6 DEF BeginStagedAgain, Valid
  <2>3. tor' = [tor EXCEPT ![x].flags = @ \ {"paused"}] /\ torrents' = torrents
    BY <1>1, <1>6, <2>2 DEF BeginStagedAgain, engineVars
  <2>4. tor[x].hash = h
    BY <2>1, <2>2 DEF GhostInv, KeysMatch, Held
  <2> QED
    BY <1>3, <1>5, <2>1, <2>3, <2>4
<1>7. CASE Finalize
  <2>1. h \in Hash /\ StartsPreview(h)
    BY <1>1, <1>2, <1>7 DEF Finalize, StartsPreview
  <2>2. CASE ~Valid(HandleOf(h))
    <3>1. UNCHANGED <<tor, torrents>>
      BY <1>1, <1>7, <2>2 DEF Finalize
    <3> QED
      BY <3>1, QuietSeen
  <2>3. CASE Valid(HandleOf(h))
    <3>1. PICK x \in Handle : x = HandleOf(h)
      BY <2>3 DEF Valid
    <3>2. PICK stg : stg = [pending EXCEPT ![h] = NoHandle]
      OBVIOUS
    <3>3. /\ tor' = [tor EXCEPT ![x].flags = (@ \ {"upload_mode", "paused"}) \cup {"auto_managed"}]
          /\ UpdateEntry(x, tor', torrents, stg)
      BY <1>1, <1>7, <2>3, <3>1, <3>2 DEF Finalize
    <3>4. stg \in [Hash -> Handle \cup {NoHandle}]
      BY <1>3, <3>2
    <3>5. tor' \in [Handle -> Torrent] /\ tor'[x].hash = tor[x].hash /\ \A y \in Handle : y # x => tor'[y] = tor[y]
      BY <1>3, <3>3 DEF Torrent, Flags
    <3>6. tor[x].hash = h
      BY <2>1, <3>1, FoundIsHeld
    <3>7. \A g \in Hash : g # h => torrents'[g] = torrents[g]
      <4>1. UpdateEntry(x, tor', torrents, stg) /\ tor'[x].hash = h
        BY <3>3, <3>5, <3>6
      <4> QED
        BY <1>3, <3>4, <3>5, <4>1, UpdateEntryFinds
    <3> QED
      BY <1>5, <2>1, <3>5, <3>6, <3>7
  <2> QED
    BY <2>2, <2>3
<1>8. ASSUME NEW t, At(t), Drained, ~Valid(HandleOf(h)), NEW x \in AddResult(h), NEW f \in SUBSET Flags,
             \A y \in Handle : y # x => tor'[y] = tor[y],
             \A g \in Hash : g # h => torrents'[g] = torrents[g],
             tor[x].life = "live" => tor[x].hash = h
      PROVE  SeenStep
  <2>1. ASSUME NEW g \in Hash, NEW y \in Handle, y = torrents[g].handle, tor'[y].life = "live",
               torrents'[g].handle = y
        PROVE  ThrottledUnseen(g)' => ThrottledUnseen(g)
    <3>1. tor[y].hash = g /\ Life(y) # "unused"
      BY <2>1 DEF GhostInv, KeysMatch, Held
    <3>2. CASE y = x
      <4>1. Life(y) = "live" /\ g = h
        BY <1>8, <3>1, <3>2 DEF AddResult, Life
      <4>2. HandleOf(h) = y /\ Live(y)
        BY <1>8, <2>1, <4>1, LiveIsFound DEF Live, Life
      <4> QED
        BY <1>8, <4>2 DEF Valid, Live
    <3>3. CASE y # x
      <4>1. tor'[y] = tor[y]
        BY <1>8, <3>3
      <4>2. g # h
        <5>1. g = h => HandleOf(h) = y /\ Live(y)
          BY <1>8, <2>1, <4>1, LiveIsFound DEF Live
        <5> QED
          BY <1>8, <5>1 DEF Valid, Live
      <4> QED
        BY <1>8, <2>1, <4>1, <4>2, KeepsSeen
    <3> QED
      BY <3>2, <3>3
  <2> QED
    BY <2>1 DEF SeenStep, ThrottledUnseen, Live
<1>9. CASE BeginAdds
  <2>1. At("BeginMagnetPreview") /\ Drained /\ ~Valid(HandleOf(h)) /\ torrents' = torrents
    BY <1>1, <1>9 DEF BeginAdds, NextCommand
  <2>2. PICK x \in AddResult(h) : tor' = [Added(h, x, {"upload_mode"}) EXCEPT ![x].flags = @ \ {"paused"}]
    BY <1>1, <1>9 DEF BeginAdds
  <2>3. \A y \in Handle : y # x => tor'[y] = tor[y]
    BY <1>3, <2>2 DEF Added
  <2>4. tor[x].life = "live" => tor[x].hash = h
    BY DEF AddResult
  <2> QED
    BY <1>8, <2>1, <2>3, <2>4 DEF Flags
<1>10. CASE Add
  <2>1. At("Add") /\ Drained /\ h \in Hash
    BY <1>1, <1>2, <1>10 DEF Add
  <2>2. CASE Valid(HandleOf(h))
    <3>1. PICK x \in Handle : x = HandleOf(h)
      BY <2>2 DEF Valid
    <3>2. UpdateEntry(x, tor, torrents, pending) /\ tor' = tor
      BY <1>1, <1>10, <2>2, <3>1 DEF Add
    <3>3. \A g \in Hash : torrents'[g].handle # NoHandle => torrents'[g].upload_stopped = torrents[g].upload_stopped
      BY <1>3, <3>2, UpdateEntryCarries
    <3> QED
      BY <3>2, <3>3, QuietSeen
  <2>3. CASE ~Valid(HandleOf(h))
    <3>1. PICK x \in AddResult(h) :
            tor' = Added(h, x, {"paused", "auto_managed"}) /\ UpdateEntry(x, tor', torrents, pending)
      BY <1>1, <1>10, <2>3 DEF Add
    <3>2. PICK f \in SUBSET Flags : f = {"paused", "auto_managed"}
      BY DEF Flags
    <3>3. x \in Handle /\ tor'[x].hash = h
      BY <2>1, <3>1, AddedIsLive
    <3>4. tor' \in [Handle -> Torrent]
      BY <1>3, <2>1, <3>1 DEF AddResult, Added, Torrent, Flags
    <3>5. \A g \in Hash : g # h => torrents'[g] = torrents[g]
      BY <1>3, <3>1, <3>3, <3>4, UpdateEntryFinds
    <3>6. \A y \in Handle : y # x => tor'[y] = tor[y]
      BY <1>3, <3>1 DEF Added
    <3>7. tor[x].life = "live" => tor[x].hash = h
      BY DEF AddResult
    <3> QED
      BY <1>8, <2>1, <2>3, <3>2, <3>5, <3>6, <3>7
  <2> QED
    BY <2>2, <2>3
<1> QED
  BY <1>4, <1>6, <1>7, <1>9, <1>10 DEF FirstPass

\* Torrent operations: Pause leaves the limit but stops the torrent, Resume lets it run and lifts the limit,
\* StopSeeding limits and flags, ResumeSeeding does neither.
LEMMA SecondPassSeen == TypeOK /\ GhostInv /\ OrphanInv /\ SecondPass => SeenStep
<1> SUFFICES ASSUME TypeOK, GhostInv, OrphanInv, SecondPass PROVE SeenStep
  OBVIOUS
<1>1. PICK h : h = Current.hash
  OBVIOUS
<1>2. PICK x : x = HandleOf(h)
  OBVIOUS
<1>3. CASE OpNotFound \/ AdjustRefused \/ SeedingOpRefused
  <2>1. UNCHANGED <<tor, torrents>>
    BY <1>3 DEF OpNotFound, AdjustRefused, SeedingOpRefused, NextCommand, ltVars
  <2> QED
    BY <2>1, QuietSeen
<1>4. ASSUME NEW ty, OpFound(ty)
      PROVE  h \in Hash /\ x \in Handle /\ tor[x] \in Torrent /\ torrents \in [Hash -> Entry]
  BY <1>1, <1>2, <1>4, CurrentType DEF OpFound, Valid, TypeOK
<1>5. ASSUME NEW ty, OpFound(ty), NEW b \in BOOLEAN,
             NEW t \in Torrent, t.life = tor[x].life, t.hash = tor[x].hash,
             Operate(x, t, WithStopped(h, b)),
             Listed(h) => ~t.limited \/ ~MayRun(t) \/ b
      PROVE  SeenStep
  <2>1. At(ty) /\ WithStopped(h, b) \in [Hash -> Entry]
    BY <1>4, <1>5, WithStoppedType DEF OpFound
  <2>2. /\ \A g \in Hash : g # h => WithStopped(h, b)[g] = torrents[g]
        /\ Listed(h) => WithStopped(h, b)[h].upload_stopped = b
    BY <1>4, <1>5 DEF WithStopped, Entry
  <2>3. ~(Listed(h) /\ t.limited /\ MayRun(t) /\ ~WithStopped(h, b)[h].upload_stopped)
    BY <1>5, <2>2
  <2> QED
    BY <1>2, <1>4, <1>5, <2>1, <2>2, <2>3, OperateSeen
<1>6. ASSUME NEW ty, OpFound(ty),
             NEW t \in Torrent, t.life = tor[x].life, t.hash = tor[x].hash,
             t.limited = tor[x].limited, t.flags = tor[x].flags,
             Operate(x, t, torrents)
      PROVE  SeenStep
  <2>1. MayRun(t) => MayRun(tor[x])
    BY <1>6 DEF MayRun
  <2> QED
    BY <1>2, <1>4, <1>6, <2>1, OperateSeen
<1>7. CASE Pause
  <2> DEFINE t == [tor[x] EXCEPT !.flags = (@ \ {"auto_managed"}) \cup {"paused"}]
  <2>1. OpFound("Pause") /\ Operate(x, t, WithStopped(h, FALSE))
    BY <1>7, <1>1, <1>2 DEF Pause
  <2>2. t \in Torrent /\ t.life = tor[x].life /\ t.hash = tor[x].hash /\ ~MayRun(t)
    BY <2>1, <1>4 DEF Torrent, Flags, MayRun
  <2> HIDE DEF t
  <2> QED
    BY <2>1, <2>2, <1>5
<1>8. CASE ResumeTorrent
  <2> DEFINE t == [tor[x] EXCEPT !.flags = (@ \ {"paused"}) \cup {"auto_managed"}, !.limited = @ /\ ~Listed(h)]
  <2>1. OpFound("Resume") /\ Operate(x, t, WithStopped(h, FALSE))
    BY <1>8, <1>1, <1>2 DEF ResumeTorrent
  <2>2. t \in Torrent /\ t.life = tor[x].life /\ t.hash = tor[x].hash
    BY <2>1, <1>4 DEF Torrent, Flags
  <2>3. Listed(h) => ~t.limited
    BY <2>1, <1>4 DEF Torrent
  <2> HIDE DEF t
  <2> QED
    BY <2>1, <2>2, <2>3, <1>5
<1>9. CASE StopSeeding
  <2> DEFINE t == [tor[x] EXCEPT !.limited = TRUE]
  <2>1. OpFound("StopSeeding") /\ Operate(x, t, WithStopped(h, TRUE))
    BY <1>9, <1>1, <1>2 DEF StopSeeding
  <2>2. t \in Torrent /\ t.life = tor[x].life /\ t.hash = tor[x].hash
    BY <2>1, <1>4 DEF Torrent
  <2> HIDE DEF t
  <2> QED
    BY <2>1, <2>2, <1>5
<1>10. CASE ResumeSeeding
  <2> DEFINE t == [tor[x] EXCEPT !.limited = FALSE]
  <2>1. OpFound("ResumeSeeding") /\ Operate(x, t, WithStopped(h, FALSE))
    BY <1>10, <1>1, <1>2 DEF ResumeSeeding
  <2>2. t \in Torrent /\ t.life = tor[x].life /\ t.hash = tor[x].hash /\ ~t.limited
    BY <2>1, <1>4 DEF Torrent
  <2> HIDE DEF t
  <2> QED
    BY <2>1, <2>2, <1>5
<1>11. CASE ForceRecheck
  <2> DEFINE t == [tor[x] EXCEPT !.complete = FALSE]
  <2>1. OpFound("ForceRecheck") /\ Operate(x, t, torrents)
    BY <1>11, <1>1, <1>2 DEF ForceRecheck
  <2>2. /\ t \in Torrent /\ t.life = tor[x].life /\ t.hash = tor[x].hash
        /\ t.limited = tor[x].limited /\ t.flags = tor[x].flags
    BY <2>1, <1>4 DEF Torrent
  <2> HIDE DEF t
  <2> QED
    BY <2>1, <2>2, <1>6
<1>12. CASE Adjust
  <2>1. OpFound("Adjust") /\ Operate(x, tor[x], torrents)
    BY <1>12, <1>1, <1>2 DEF Adjust
  <2> QED
    BY <2>1, <1>4, <1>6
<1>13. CASE Remove
  <2>1. tor' = tor /\ torrents' = [torrents EXCEPT ![h] = NoEntry]
    BY <1>13, <1>1 DEF Remove, NextCommand
  <2>2. \A g \in Hash : torrents'[g].handle # NoHandle => torrents'[g] = torrents[g]
    BY <2>1 DEF TypeOK, NoEntry
  <2> QED
    BY <2>1, <2>2, QuietSeen
<1> QED
  BY <1>3, <1>7, <1>8, <1>9, <1>10, <1>11, <1>12, <1>13 DEF SecondPass

\* The pump carries the flags over or clears the whole entry.
LEMMA PumpSeen == TypeOK /\ (Pump \/ HandleThrows \/ WorkerExits) => SeenStep
<1> SUFFICES ASSUME TypeOK, Pump \/ HandleThrows \/ WorkerExits PROVE SeenStep
  OBVIOUS
<1>1. tor' = tor
  BY DEF Pump, PopAlerts, HandleRemoved, HandleUpdate, RefreshAll, HandleThrows, WorkerExits, ltVars
<1>2. CASE PopAlerts \/ HandleThrows \/ WorkerExits
  <2>1. torrents' = torrents
    BY <1>2 DEF PopAlerts, HandleThrows, WorkerExits, engineVars
  <2> QED
    BY <1>1, <2>1, QuietSeen
<1>3. CASE HandleRemoved
  <2>1. PICK k : torrents' = [torrents EXCEPT ![k] = NoEntry]
    BY <1>3 DEF HandleRemoved, Forget
  <2>2. \A g \in Hash : torrents'[g].handle # NoHandle => torrents'[g] = torrents[g]
    BY <2>1 DEF TypeOK, NoEntry
  <2> QED
    BY <1>1, <2>2, QuietSeen
<1>4. CASE HandleUpdate
  <2> DEFINE z == popped[1].handle
  <2>1. UpdateEntry(z, tor, torrents, pending) /\ z \in Handle
    BY <1>4, TailAlerts DEF HandleUpdate
  <2>2. \A g \in Hash : torrents'[g].handle # NoHandle => torrents'[g].upload_stopped = torrents[g].upload_stopped
    BY <2>1, UpdateEntryCarries DEF TypeOK
  <2> QED
    BY <1>1, <2>2, QuietSeen
<1>5. CASE RefreshAll
  <2>1. torrents' = [h \in Hash |->
              IF Valid(torrents[h].handle)
              THEN [torrents[h] EXCEPT !.state = SnapshotState(tor[torrents[h].handle]), !.shown_stopped = FALSE]
              ELSE torrents[h]]
    BY <1>5 DEF RefreshAll
  <2>2. \A h \in Hash : torrents'[h].upload_stopped = torrents[h].upload_stopped
    BY <2>1 DEF TypeOK, Entry
  <2> QED
    BY <1>1, <2>2, QuietSeen
<1> QED
  BY <1>2, <1>3, <1>4, <1>5 DEF Pump

\* libtorrent limits nothing; its queueing logic runs and stops only what it may run.
LEMMA LibtorrentSeen == TypeOK /\ Libtorrent => SeenStep
<1> SUFFICES ASSUME TypeOK, Libtorrent PROVE SeenStep
  OBVIOUS
<1>1. torrents' = torrents
  BY DEF Libtorrent, RunRemoval, DestroyTorrent, TorrentFinishes, TorrentReports, Event, AutoManage, batchVars, engineVars
<1>2. tor \in [Handle -> Torrent]
  BY DEF TypeOK
<1>3. ASSUME NEW x \in Handle, NEW t,
             tor' = [tor EXCEPT ![x] = t],
             t.life = "live" => tor[x].life = "live",
             t.limited => tor[x].limited,
             MayRun(t) => MayRun(tor[x])
      PROVE  SeenStep
  <2>1. tor'[x] = t /\ \A y \in Handle : y # x => tor'[y] = tor[y]
    BY <1>2, <1>3
  <2>2. \A y \in Handle :
          /\ tor'[y].life = "live" => tor[y].life = "live"
          /\ tor'[y].limited => tor[y].limited
          /\ MayRun(tor'[y]) => MayRun(tor[y])
    BY <1>3, <2>1
  <2> QED
    BY <1>1, <2>2, QuietSeen
<1>4. CASE RunRemoval
  <2>1. CASE Valid(Head(posted))
    <3> DEFINE t == [tor[Head(posted)] EXCEPT !.life = "dying"]
    <3>1. PICK x \in Handle : x = Head(posted)
      BY <2>1 DEF Valid
    <3>2. tor' = [tor EXCEPT ![x] = t]
      BY <1>4, <2>1, <3>1 DEF RunRemoval
    <3>3. t.life # "live" /\ t.limited = tor[x].limited /\ t.flags = tor[x].flags
      BY <1>2, <3>1 DEF Torrent
    <3>4. MayRun(t) => MayRun(tor[x])
      BY <3>3 DEF MayRun
    <3> HIDE DEF t
    <3> QED
      BY <1>3, <3>2, <3>3, <3>4
  <2>2. CASE ~Valid(Head(posted))
    <3>1. tor' = tor
      BY <1>4, <2>2 DEF RunRemoval
    <3> QED
      BY <1>1, <3>1, QuietSeen
  <2> QED
    BY <2>1, <2>2
<1>5. ASSUME NEW x \in Handle, DestroyTorrent(x) PROVE SeenStep
  <2> DEFINE t == [tor[x] EXCEPT !.life = "gone"]
  <2>1. tor' = [tor EXCEPT ![x] = t]
    BY <1>5 DEF DestroyTorrent
  <2>2. t.life # "live" /\ t.limited = tor[x].limited /\ t.flags = tor[x].flags
    BY <1>2 DEF Torrent
  <2>3. MayRun(t) => MayRun(tor[x])
    BY <2>2 DEF MayRun
  <2> HIDE DEF t
  <2> QED
    BY <1>3, <2>1, <2>2, <2>3
<1>6. ASSUME NEW x \in Handle, TorrentFinishes(x) PROVE SeenStep
  <2> DEFINE t == [tor[x] EXCEPT !.complete = TRUE]
  <2>1. tor' = [tor EXCEPT ![x] = t] /\ tor[x].life = "live"
    BY <1>6 DEF TorrentFinishes, Event
  <2>2. t.limited = tor[x].limited /\ t.flags = tor[x].flags
    BY <1>2 DEF Torrent
  <2>3. MayRun(t) => MayRun(tor[x])
    BY <2>2 DEF MayRun
  <2> HIDE DEF t
  <2> QED
    BY <1>3, <2>1, <2>2, <2>3
<1>7. ASSUME NEW x \in Handle, TorrentReports(x) PROVE SeenStep
  <2>1. tor' = [tor EXCEPT ![x] = tor[x]]
    BY <1>7 DEF TorrentReports, Event
  <2> QED
    BY <1>3, <2>1
<1>8. ASSUME NEW x \in Handle, AutoManage(x) PROVE SeenStep
  <2> DEFINE f == IF "paused" \in tor[x].flags THEN tor[x].flags \ {"paused"} ELSE tor[x].flags \cup {"paused"}
  <2> DEFINE t == [tor[x] EXCEPT !.flags = f]
  <2>1. tor' = [tor EXCEPT ![x] = t] /\ tor[x].life = "live" /\ MayRun(tor[x])
    BY <1>8 DEF AutoManage, MayRun
  <2>2. t.limited = tor[x].limited
    BY <1>2 DEF Torrent
  <2> HIDE DEF t
  <2> QED
    BY <1>3, <2>1, <2>2
<1> QED
  BY <1>4, <1>5, <1>6, <1>7, <1>8 DEF Libtorrent

\* The library is empty while no engine runs.
EmptyWhenOff == phase = "off" => \A h \in Hash : torrents[h].handle = NoHandle

LEMMA EmptyWhenOffHolds == Spec => []EmptyWhenOff
<1>1. Init => EmptyWhenOff
  BY DEF Init, EmptyWhenOff
<1>2. EmptyWhenOff /\ [Next]_vars => EmptyWhenOff'
  <2> SUFFICES ASSUME EmptyWhenOff, [Next]_vars, phase' = "off"
               PROVE  \A h \in Hash : torrents'[h].handle = NoHandle
    BY DEF EmptyWhenOff
  <2>1. CASE UNCHANGED vars \/ Client
    <3>1. UNCHANGED <<phase, torrents>>
      BY <2>1 DEF vars, Client, Enqueue, BeginClearsError, TakeLastError, PollFreezes, Shutdown, batchVars, engineVars
    <3> QED
      BY <3>1 DEF EmptyWhenOff
  <2>2. ~TakeBatch /\ ~WorkerExits /\ ~Pump
    BY DEF TakeBatch, WorkerExits, Pump, PopAlerts, HandleRemoved, HandleUpdate, RefreshAll, HandlingAlert, In
  <2>3. ~FirstPass
    <3>1. ASSUME NEW t, At(t) PROVE phase # "off"
      BY <3>1 DEF At, In
    <3> QED
      BY <3>1 DEF FirstPass, PassBy, SecondPassBegins, StageFails, BeginStagedAgain, BeginReusesListed, BeginAdds,
                  Finalize, Cancel, Add, NextCommand, In
  <2>4. ~SecondPass
    <3>1. ASSUME NEW t, At(t) PROVE phase # "off"
      BY <3>1 DEF At, In
    <3> QED
      BY <3>1 DEF SecondPass, OpNotFound, OpFound, Pause, ResumeTorrent, StopSeeding, ResumeSeeding, SeedingOpRefused,
                  ForceRecheck, Adjust, AdjustRefused, Remove, Operate, NextCommand
  <2>5. CASE HandleThrows
    <3>1. UNCHANGED <<phase, torrents>>
      BY <2>5 DEF HandleThrows, engineVars
    <3> QED
      BY <3>1 DEF EmptyWhenOff
  <2>6. CASE Libtorrent
    <3>1. UNCHANGED <<phase, torrents>>
      BY <2>6 DEF Libtorrent, RunRemoval, DestroyTorrent, TorrentFinishes, TorrentReports, Event, AutoManage, batchVars, engineVars
    <3> QED
      BY <3>1 DEF EmptyWhenOff
  <2>7. CASE Lifecycle
    <3>1. CASE \E h \in Hash : SaveResume(h) \/ SaveFails(h)
      <4>1. UNCHANGED <<phase, torrents>>
        BY <3>1 DEF SaveResume, SaveFails, batchVars, engineVars
      <4> QED
        BY <4>1 DEF EmptyWhenOff
    <3>2. CASE FinishShutdown \/ Crash
      BY <3>2 DEF FinishShutdown, Crash, ProcessEnds, NoEntry
    <3>3. CASE Start
      BY <3>3 DEF Start
    <3> QED
      BY <2>7, <3>1, <3>2, <3>3 DEF Lifecycle
  <2> QED
    BY <2>1, <2>2, <2>3, <2>4, <2>5, <2>6, <2>7 DEF Next, Worker
<1> QED
  BY <1>1, <1>2, PTL DEF Spec

\* While it stays listed, no torrent becomes throttled without the flag, whatever the client, the alerts of
\* its predecessors and libtorrent's queueing logic do, unless a preview command starts it as it is (lines
\* 588-597, 998-1019 and 1019-1068).
THEOREM NeverThrottledUnseenHolds == Spec => NeverThrottledUnseen
<1>1. TypeOK /\ GhostInv /\ OrphanInv /\ EmptyWhenOff /\ [Next]_vars => SeenStep
  <2> SUFFICES ASSUME TypeOK, GhostInv, OrphanInv, EmptyWhenOff, [Next]_vars PROVE SeenStep
    OBVIOUS
  <2>1. CASE UNCHANGED vars \/ Client
    <3>1. UNCHANGED <<tor, torrents>>
      BY <2>1 DEF vars, Client, Enqueue, BeginClearsError, TakeLastError, PollFreezes, Shutdown, engineVars, ltVars
    <3> QED
      BY <3>1, QuietSeen
  <2>2. CASE Lifecycle
    <3>1. CASE \E h \in Hash : SaveResume(h) \/ SaveFails(h)
      <4>1. UNCHANGED <<tor, torrents>>
        BY <3>1 DEF SaveResume, SaveFails, engineVars, ltVars
      <4> QED
        BY <4>1, QuietSeen
    <3>2. CASE FinishShutdown \/ Crash
      <4>1. \A h \in Hash : torrents'[h].handle = NoHandle
        BY <3>2 DEF FinishShutdown, Crash, ProcessEnds, NoEntry
      <4> QED
        BY <4>1, NoHandleAssumption DEF SeenStep, ThrottledUnseen, Live
    <3>3. CASE Start
      <4>1. \A h \in Hash : torrents[h].handle = NoHandle
        BY <3>3 DEF Start, EmptyWhenOff
      <4> QED
        BY <4>1, NoHandleAssumption DEF SeenStep, ThrottledUnseen, Live
    <3> QED
      BY <2>2, <3>1, <3>2, <3>3 DEF Lifecycle
  <2> QED
    BY <2>1, <2>2, FirstPassSeen, SecondPassSeen, PumpSeen, LibtorrentSeen DEF Next, Worker
<1>2. SeenStep => [\A h \in Hash : ThrottledUnseen(h)' /\ torrents'[h].handle = torrents[h].handle =>
                      ThrottledUnseen(h) \/ StartsPreview(h)]_vars
  BY DEF SeenStep
<1> QED
  BY <1>1, <1>2, TypeCorrect, GhostInvariant, OrphanInvariant, EmptyWhenOffHolds, PTL DEF Spec, NeverThrottledUnseen

=============================================================================
