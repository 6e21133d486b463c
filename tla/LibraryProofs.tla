--------------------------- MODULE LibraryProofs ----------------------------
(***************************************************************************)
(* The library and the session agree: no removed torrent stays listed or   *)
(* staged (NoGhost), and no torrent of the session is lost to the client   *)
(* (NoOrphan).                                                             *)
(***************************************************************************)
EXTENDS SessionManagerProofs

-----------------------------------------------------------------------------
(* No ghosts: GhostInv is inductive, and NoGhost is part of it.  Most actions change neither the life of a
   torrent object nor the alerts still to be handled, and give a key only a handle it has already or that
   of a live torrent: KeepsGhostInv covers them.  What is left is popping and handling alerts, the removal
   itself, and the end and the start of a process. *)

\* The handles a key has after update_entry are those it had, or the one it was given.
LEMMA UpdateEntryHeld ==
    ASSUME NEW x \in Handle, NEW T \in [Handle -> Torrent],
           NEW lib \in [Hash -> Entry], NEW stg \in [Hash -> Handle \cup {NoHandle}],
           UpdateEntry(x, T, lib, stg),
           NEW h \in Hash, NEW y \in Handle, Held(h, y)'
    PROVE  y = lib[h].handle \/ y = stg[h] \/ (y = x /\ h = T[x].hash)
<1>1. T[x].hash \in Hash
  BY DEF Torrent
<1>2. y # NoEntry.handle
  BY NoHandleAssumption DEF NoEntry
<1> QED
  BY <1>1, <1>2 DEF UpdateEntry, Held, Refreshed

\* Nothing in the invariant is lost when torrent objects keep their hash and stay alive or dead,
\* new alerts are about live torrents, and a key gets a handle it had or that of a live torrent.
LEMMA KeepsGhostInv ==
    ASSUME TypeOK, GhostInv,
           \A h \in Hash, x \in Handle : Held(h, x)' => Held(h, x) \/ (Life(x)' = "live" /\ tor'[x].hash = h),
           \A x \in Handle : Life(x) # "unused" =>
               /\ tor'[x].hash = tor[x].hash
               /\ Life(x)' # "unused"
               /\ Life(x) = "live" <=> Life(x)' = "live",
           popped' = popped,
           \/ alerts' = alerts
           \/ \E a \in Alert : alerts' = Append(alerts, a) /\ Life(a.handle)' = "live",
           phase' # "alerts" => popped' = <<>>,
           phase' = "off" => phase = "off" /\ pending' = pending
    PROVE  GhostInv'
<1>1. ASSUME NEW i \in DOMAIN alerts
      PROVE  i \in DOMAIN alerts' /\ alerts'[i] = alerts[i] /\ alerts[i].handle \in Handle
  <2>1. alerts \in Seq(Alert) /\ i \in 1 .. Len(alerts) /\ alerts[i] \in Alert
    BY DEF TypeOK
  <2>2. i \in DOMAIN alerts' /\ alerts'[i] = alerts[i]
    BY <2>1
  <2> QED
    BY <2>1, <2>2 DEF Alert
<1>2. ASSUME NEW i \in DOMAIN alerts', i \notin DOMAIN alerts
      PROVE  alerts'[i].handle \in Handle /\ tor'[alerts'[i].handle].life = "live"
  <2>1. PICK a \in Alert : alerts' = Append(alerts, a) /\ Life(a.handle)' = "live"
    BY <1>2
  <2>2. alerts \in Seq(Alert)
    BY DEF TypeOK
  <2>3. alerts'[i] = a
    BY <1>2, <2>1, <2>2
  <2> QED
    BY <2>1, <2>3 DEF Alert, Life
<1>3. ASSUME NEW i \in DOMAIN popped
      PROVE  popped[i].handle \in Handle
  <2>1. popped[i] \in Alert
    BY DEF TypeOK
  <2> QED
    BY <2>1 DEF Alert
<1>4. ASSUME NEW x \in Handle, RemovedInFlight(x) PROVE RemovedInFlight(x)'
  BY <1>1, <1>4 DEF RemovedInFlight
<1>5. NoGhost'
  <2> SUFFICES ASSUME NEW h \in Hash, NEW x \in Handle, Held(h, x)', Held(h, x)
               PROVE  Life(x)' = "live" \/ RemovedInFlight(x)'
    BY DEF NoGhost
  <2>1. Life(x) # "unused" /\ (Life(x) = "live" \/ RemovedInFlight(x))
    BY DEF GhostInv, KeysMatch, NoGhost
  <2> QED
    BY <2>1, <1>4
<1>6. PoppedClosed'
  <2> SUFFICES ASSUME NEW i \in DOMAIN popped
               PROVE  /\ Life(popped[i].handle)' # "unused"
                      /\ popped[i].type # "removed" /\ Life(popped[i].handle)' # "live"
                            => ClosedByRemoved(i, popped[i].handle)'
    BY DEF PoppedClosed
  <2> DEFINE x == popped[i].handle
  <2>1. /\ Life(x) # "unused"
        /\ popped[i].type # "removed" /\ Life(x) # "live" => ClosedByRemoved(i, x)
    BY DEF GhostInv, PoppedClosed
  <2>2. ClosedByRemoved(i, x) => ClosedByRemoved(i, x)'
    BY <1>1 DEF ClosedByRemoved
  <2> QED
    BY <2>1, <2>2, <1>3
<1>7. AlertsClosed'
  <2> SUFFICES ASSUME NEW i \in DOMAIN alerts'
               PROVE  /\ tor'[alerts'[i].handle].life # "unused"
                      /\ alerts'[i].type # "removed" /\ tor'[alerts'[i].handle].life # "live" =>
                            \E j \in DOMAIN alerts' :
                                j > i /\ alerts'[j].type = "removed" /\ alerts'[j].handle = alerts'[i].handle
    BY DEF AlertsClosed, Life
  <2>1. CASE i \in DOMAIN alerts
    <3> DEFINE x == alerts[i].handle
    <3>1. /\ Life(x) # "unused"
          /\ alerts[i].type # "removed" /\ Life(x) # "live" =>
                \E j \in DOMAIN alerts : j > i /\ alerts[j].type = "removed" /\ alerts[j].handle = x
      BY <2>1 DEF GhostInv, AlertsClosed
    <3>2. x \in Handle /\ alerts'[i] = alerts[i]
      BY <1>1, <2>1
    <3>3. Life(x)' # "unused" /\ (Life(x)' # "live" => Life(x) # "live")
      BY <3>1, <3>2
    <3> QED
      BY <3>1, <3>2, <3>3, <1>1 DEF Life
  <2>2. CASE i \notin DOMAIN alerts
    BY <1>2, <2>2 DEF Life
  <2> QED
    BY <2>1, <2>2
<1>8. KeysMatch'
  <2> SUFFICES ASSUME NEW h \in Hash, NEW x \in Handle, Held(h, x)'
               PROVE  tor'[x].hash = h /\ Life(x)' # "unused"
    BY DEF KeysMatch, Life
  <2> QED
    BY DEF GhostInv, KeysMatch
<1>9. PumpOnlyInAlerts'
  BY DEF GhostInv, PumpOnlyInAlerts
<1> QED
  BY <1>5, <1>6, <1>7, <1>8, <1>9 DEF GhostInv

\* Whatever the worker does between two alerts, it does outside the pump.
LEMMA BetweenAlerts ==
    ASSUME GhostInv, NEW t, At(t)
    PROVE  popped = <<>> /\ phase # "alerts" /\ phase # "off"
  BY DEF At, In, GhostInv, PumpOnlyInAlerts

\* The client touches no torrent, no alert and no entry.
LEMMA ClientGhost == TypeOK /\ GhostInv /\ Client => GhostInv'
<1> SUFFICES ASSUME TypeOK, GhostInv, Client PROVE GhostInv'
  OBVIOUS
<1>1. UNCHANGED <<tor, alerts, popped, phase, torrents, pending>>
  BY DEF Client, Enqueue, BeginClearsError, TakeLastError, PollFreezes, Shutdown, batchVars, engineVars, ltVars
<1>2. phase' # "alerts" => popped' = <<>>
  BY <1>1 DEF GhostInv, PumpOnlyInAlerts
<1> QED
  BY <1>1, <1>2, KeepsGhostInv DEF Held, Life

\* What lt::session::add_torrent returns is alive, has the hash asked for, and was no dead torrent.
LEMMA AddedIsLive ==
    ASSUME TypeOK, NEW h \in Hash, NEW x \in AddResult(h), NEW f
    PROVE  /\ x \in Handle
           /\ Added(h, x, f)[x].life = "live" /\ Added(h, x, f)[x].hash = h
           /\ \A y \in Handle : Life(y) # "unused" =>
                 Added(h, x, f)[y].life = tor[y].life /\ Added(h, x, f)[y].hash = tor[y].hash
  BY DEF AddResult, Added, Life, TypeOK, Torrent

\* A handle found for a key belongs to it.
LEMMA FoundIsHeld ==
    ASSUME TypeOK, GhostInv, NEW h \in Hash, HandleOf(h) \in Handle
    PROVE  Held(h, HandleOf(h)) /\ tor[HandleOf(h)].hash = h
  BY DEF HandleOf, Held, GhostInv, KeysMatch

\* Commands that change no torrent object, no alert, and only let keys forget handles or stage the
\* handle they have.
LEMMA ForgettingGhost ==
    ASSUME TypeOK, GhostInv, NEW t, At(t),
           \A h \in Hash, x \in Handle : Held(h, x)' => Held(h, x),
           UNCHANGED <<tor, alerts, popped>>,
           phase' = phase \/ phase' = "operating"
    PROVE  GhostInv'
  BY BetweenAlerts, KeepsGhostInv DEF Life

\* Staging commands keep the invariant.
LEMMA FirstPassGhost == TypeOK /\ GhostInv /\ (TakeBatch \/ FirstPass) => GhostInv'
<1> SUFFICES ASSUME TypeOK, GhostInv, TakeBatch \/ FirstPass PROVE GhostInv'
  OBVIOUS
<1> USE NoHandleAssumption
<1>1. CASE TakeBatch \/ SecondPassBegins
  <2>1. UNCHANGED <<tor, alerts, popped, torrents, pending>> /\ phase' # "off" /\ phase # "alerts" /\ phase # "off"
    BY <1>1 DEF TakeBatch, SecondPassBegins, In, engineVars, ltVars
  <2>2. popped' = <<>>
    BY <2>1 DEF GhostInv, PumpOnlyInAlerts
  <2> QED
    BY <2>1, <2>2, KeepsGhostInv DEF Held, Life
<1>2. CASE PassBy
  <2>1. UNCHANGED <<tor, alerts, popped, phase, torrents, pending>> /\ phase # "alerts" /\ phase # "off"
    BY <1>2 DEF PassBy, NextCommand, In, engineVars, ltVars
  <2>2. popped' = <<>>
    BY <2>1 DEF GhostInv, PumpOnlyInAlerts
  <2> QED
    BY <2>1, <2>2, KeepsGhostInv DEF Held, Life
<1>3. CASE StageFails
  <2>1. UNCHANGED <<tor, alerts, popped, phase, torrents, pending>> /\ \E t : At(t)
    BY <1>3 DEF StageFails, NextCommand, ltVars
  <2> QED
    BY <2>1, ForgettingGhost DEF Held
<1>4. CASE BeginStagedAgain
  <2> DEFINE x == pending[Current.hash]
  <2>1. At("BeginMagnetPreview") /\ UNCHANGED <<alerts, popped, phase, torrents, pending>>
    BY <1>4 DEF BeginStagedAgain, engineVars
  <2>2. tor' = [tor EXCEPT ![x].flags = @ \ {"paused"}]
    BY <1>4 DEF BeginStagedAgain
  <2>3. \A y \in Handle : tor'[y].life = tor[y].life /\ tor'[y].hash = tor[y].hash
    BY <2>2 DEF TypeOK, Torrent
  <2> QED
    BY <2>1, <2>3, BetweenAlerts, KeepsGhostInv DEF Held, Life
<1>5. CASE BeginReusesListed
  <2> DEFINE h == Current.hash
  <2>1. /\ At("BeginMagnetPreview") /\ UNCHANGED <<tor, alerts, popped, phase, torrents>>
        /\ pending' = [pending EXCEPT ![h] = torrents[h].handle]
    BY <1>5 DEF BeginReusesListed, NextCommand, ltVars
  <2>2. \A g \in Hash, x \in Handle : Held(g, x)' => Held(g, x)
    BY <2>1 DEF Held, TypeOK
  <2> QED
    BY <2>1, <2>2, ForgettingGhost
<1>6. CASE BeginAdds
  <2> DEFINE h == Current.hash
  <2>1. At("BeginMagnetPreview") /\ h \in Hash /\ UNCHANGED <<popped, phase, torrents>>
    BY <1>6, CurrentType DEF BeginAdds, NextCommand
  <2>2. PICK x \in AddResult(h) :
          /\ tor' = [Added(h, x, {"upload_mode"}) EXCEPT ![x].flags = @ \ {"paused"}]
          /\ Post("added", x)
          /\ pending' = [pending EXCEPT ![h] = x]
    BY <1>6 DEF BeginAdds
  <2> DEFINE T == Added(h, x, {"upload_mode"})
  <2>3. T \in [Handle -> Torrent] /\ x \in Handle
    BY <2>1 DEF AddResult, Added, TypeOK, Torrent, Flags
  <2>4. \A y \in Handle : tor'[y].life = T[y].life /\ tor'[y].hash = T[y].hash
    <3> HIDE DEF T
    <3>1. tor' = [T EXCEPT ![x].flags = @ \ {"paused"}]
      BY <2>2 DEF T
    <3> QED
      BY <3>1, <2>3 DEF Torrent
  <2>5. /\ Life(x)' = "live" /\ tor'[x].hash = h
        /\ \A y \in Handle : Life(y) # "unused" => Life(y)' = Life(y) /\ tor'[y].hash = tor[y].hash
    BY <2>1, <2>3, <2>4, AddedIsLive DEF Life
  <2>6. \A g \in Hash, y \in Handle : Held(g, y)' => Held(g, y) \/ (Life(y)' = "live" /\ tor'[y].hash = g)
    BY <2>1, <2>2, <2>5 DEF Held, TypeOK
  <2>7. \E a \in Alert : alerts' = Append(alerts, a) /\ Life(a.handle)' = "live"
    BY <2>2, <2>3, <2>5 DEF Post, Alert
  <2> QED
    BY <2>1, <2>5, <2>6, <2>7, BetweenAlerts, KeepsGhostInv
<1>7. CASE Finalize
  <2> DEFINE h == Current.hash
  <2> DEFINE x == HandleOf(h)
  <2>1. At("FinalizeMagnetPreview") /\ h \in Hash /\ UNCHANGED <<alerts, popped, phase>>
    BY <1>7, CurrentType DEF Finalize, NextCommand
  <2>2. CASE ~Valid(x)
    BY <1>7, <2>1, <2>2, ForgettingGhost DEF Finalize, Held
  <2>3. CASE Valid(x)
    <3> DEFINE stg == [pending EXCEPT ![h] = NoHandle]
    <3>1. x \in Handle /\ Held(h, x) /\ tor[x].hash = h
      BY <2>1, <2>3, FoundIsHeld DEF Valid
    <3>2. tor' = [tor EXCEPT ![x].flags = (@ \ {"upload_mode", "paused"}) \cup {"auto_managed"}]
      BY <1>7, <2>3 DEF Finalize
    <3>6. UpdateEntry(x, tor', torrents, stg)
      BY <1>7, <2>3 DEF Finalize
    <3>3. \A y \in Handle : tor'[y].life = tor[y].life /\ tor'[y].hash = tor[y].hash
      BY <3>1, <3>2 DEF TypeOK, Torrent
    <3>4. tor' \in [Handle -> Torrent] /\ torrents \in [Hash -> Entry] /\ stg \in [Hash -> Handle \cup {NoHandle}]
      <4>1. (tor[x].flags \ {"upload_mode", "paused"}) \cup {"auto_managed"} \in SUBSET Flags
        BY <3>1 DEF TypeOK, Torrent, Flags
      <4>2. tor' \in [Handle -> Torrent]
        BY <4>1, <3>1, <3>2, FlagsType DEF TypeOK
      <4> QED
        BY <4>2 DEF TypeOK
    <3>5. ASSUME NEW g \in Hash, NEW y \in Handle, Held(g, y)' PROVE Held(g, y)
      <4>1. y = torrents[g].handle \/ y = stg[g] \/ (y = x /\ g = tor'[x].hash)
        <5> HIDE DEF x, stg
        <5> QED
          BY <3>1, <3>4, <3>5, <3>6, UpdateEntryHeld
      <4>2. y = stg[g] => y = pending[g]
        BY <2>1 DEF TypeOK
      <4> QED
        BY <4>1, <4>2, <3>1, <3>3 DEF Held
    <3> QED
      BY <2>1, <3>3, <3>5, BetweenAlerts, KeepsGhostInv DEF Life
  <2> QED
    BY <2>2, <2>3
<1>8. CASE Cancel
  <2>1. /\ At("CancelMagnetPreview") /\ UNCHANGED <<tor, alerts, popped, phase, torrents>>
        /\ pending' = [pending EXCEPT ![Current.hash] = NoHandle]
    BY <1>8 DEF Cancel, NextCommand
  <2>2. \A g \in Hash, x \in Handle : Held(g, x)' => Held(g, x)
    BY <2>1 DEF Held, TypeOK
  <2> QED
    BY <2>1, <2>2, ForgettingGhost
<1>9. CASE Add
  <2> DEFINE h == Current.hash
  <2>1. At("Add") /\ h \in Hash /\ UNCHANGED <<popped, phase>>
    BY <1>9, CurrentType DEF Add, NextCommand
  <2>2. torrents \in [Hash -> Entry] /\ pending \in [Hash -> Handle \cup {NoHandle}]
    BY DEF TypeOK
  <2>3. CASE Valid(HandleOf(h))
    <3> DEFINE x == HandleOf(h)
    <3>1. UpdateEntry(x, tor, torrents, pending) /\ UNCHANGED <<tor, alerts>>
      BY <1>9, <2>3 DEF Add
    <3>2. x \in Handle /\ Held(h, x) /\ tor[x].hash = h /\ tor \in [Handle -> Torrent]
      BY <2>1, <2>3, FoundIsHeld DEF Valid, TypeOK
    <3>3. ASSUME NEW g \in Hash, NEW y \in Handle, Held(g, y)' PROVE Held(g, y)
      <4>1. y = torrents[g].handle \/ y = pending[g] \/ (y = x /\ g = tor[x].hash)
        <5> HIDE DEF x
        <5> QED
          BY <3>1, <3>2, <3>3, <2>2, UpdateEntryHeld
      <4> QED
        BY <4>1, <3>2 DEF Held
    <3> QED
      BY <2>1, <3>1, <3>3, ForgettingGhost
  <2>4. CASE ~Valid(HandleOf(h))
    <3>1. PICK x \in AddResult(h) :
            /\ tor' = Added(h, x, {"paused", "auto_managed"})
            /\ Post("added", x)
            /\ UpdateEntry(x, tor', torrents, pending)
      BY <1>9, <2>4 DEF Add
    <3>2. /\ x \in Handle /\ Life(x)' = "live" /\ tor'[x].hash = h
          /\ \A y \in Handle : Life(y) # "unused" => Life(y)' = Life(y) /\ tor'[y].hash = tor[y].hash
      BY <2>1, <3>1, AddedIsLive DEF Life
    <3>3. tor' \in [Handle -> Torrent]
      BY <2>1, <3>1 DEF AddResult, Added, TypeOK, Torrent, Flags
    <3>4. \A g \in Hash, y \in Handle : Held(g, y)' => Held(g, y) \/ (Life(y)' = "live" /\ tor'[y].hash = g)
      BY <2>2, <3>1, <3>2, <3>3, UpdateEntryHeld DEF Held
    <3>5. \E a \in Alert : alerts' = Append(alerts, a) /\ Life(a.handle)' = "live"
      BY <3>1, <3>2 DEF Post, Alert
    <3> QED
      BY <2>1, <3>2, <3>4, <3>5, BetweenAlerts, KeepsGhostInv
  <2> QED
    BY <2>3, <2>4
<1> QED
  BY <1>1, <1>2, <1>3, <1>4, <1>5, <1>6, <1>7, <1>8, <1>9 DEF FirstPass

\* An operation on the handle of a key keeps the invariant, whatever it does to the torrent's flags
\* or to the flags of the entries.
LEMMA OperateGhost ==
    ASSUME TypeOK, GhostInv, NEW ty, At(ty), NEW h \in Hash, NEW x \in Handle, Held(h, x),
           NEW t \in Torrent, t.life = tor[x].life, t.hash = tor[x].hash,
           NEW lib \in [Hash -> Entry], \A g \in Hash : lib[g].handle = torrents[g].handle,
           Operate(x, t, lib)
    PROVE  GhostInv'
<1>1. tor' = [tor EXCEPT ![x] = t] /\ UNCHANGED <<alerts, popped, phase>>
  BY DEF Operate, NextCommand
<1>2. UpdateEntry(x, tor', lib, pending)
  BY DEF Operate
<1>3. tor' \in [Handle -> Torrent] /\ pending \in [Hash -> Handle \cup {NoHandle}]
  BY <1>1 DEF TypeOK
<1>4. \A y \in Handle : tor'[y].life = tor[y].life /\ tor'[y].hash = tor[y].hash
  BY <1>1 DEF TypeOK
<1>5. tor[x].hash = h
  BY DEF GhostInv, KeysMatch
<1>6. ASSUME NEW g \in Hash, NEW y \in Handle, Held(g, y)' PROVE Held(g, y)
  <2>1. y = lib[g].handle \/ y = pending[g] \/ (y = x /\ g = tor'[x].hash)
    BY <1>2, <1>3, <1>6, UpdateEntryHeld
  <2> QED
    BY <2>1, <1>4, <1>5 DEF Held
<1> QED
  BY <1>1, <1>4, <1>6, BetweenAlerts, KeepsGhostInv DEF Life

\* Setting the flags of an entry changes no handle.
LEMMA WithStoppedHandles ==
    ASSUME TypeOK, NEW h \in Hash, NEW b
    PROVE  \A g \in Hash : WithStopped(h, b)[g].handle = torrents[g].handle
<1>1. CASE Listed(h)
  <2> DEFINE e == [torrents[h] EXCEPT !.upload_stopped = b, !.shown_stopped = b]
  <2>1. WithStopped(h, b) = [torrents EXCEPT ![h] = e]
    BY <1>1 DEF WithStopped, TypeOK
  <2>2. e.handle = torrents[h].handle
    BY DEF TypeOK, Entry
  <2> HIDE DEF e
  <2> QED
    BY <2>1, <2>2 DEF TypeOK
<1> QED
  BY <1>1 DEF WithStopped

\* Torrent operations keep the invariant.
LEMMA SecondPassGhost == TypeOK /\ GhostInv /\ SecondPass => GhostInv'
<1> SUFFICES ASSUME TypeOK, GhostInv, SecondPass PROVE GhostInv'
  OBVIOUS
<1> DEFINE h == Current.hash
<1> DEFINE x == HandleOf(h)
<1>1. ASSUME NEW ty, OpFound(ty)
      PROVE  /\ At(ty) /\ h \in Hash /\ x \in Handle /\ Held(h, x)
             /\ tor[x] \in Torrent /\ torrents \in [Hash -> Entry]
  BY <1>1, CurrentType, FoundIsHeld DEF OpFound, Valid, TypeOK
<1>2. CASE OpNotFound \/ AdjustRefused \/ SeedingOpRefused
  <2>1. UNCHANGED <<tor, alerts, popped, phase, torrents, pending>> /\ \E t : At(t)
    BY <1>2 DEF OpNotFound, AdjustRefused, SeedingOpRefused, NextCommand, ltVars
  <2> QED
    BY <2>1, ForgettingGhost DEF Held
<1>3. CASE Pause
  <2> DEFINE t == [tor[x] EXCEPT !.flags = (@ \ {"auto_managed"}) \cup {"paused"}]
  <2>1. OpFound("Pause") /\ Operate(x, t, WithStopped(h, FALSE))
    BY <1>3 DEF Pause
  <2>2. t \in Torrent /\ t.life = tor[x].life /\ t.hash = tor[x].hash
    BY <2>1, <1>1 DEF Torrent, Flags
  <2> QED
    BY <2>1, <2>2, <1>1, WithStoppedType, WithStoppedHandles, OperateGhost
<1>4. CASE ResumeTorrent
  <2> DEFINE t == [tor[x] EXCEPT !.flags = (@ \ {"paused"}) \cup {"auto_managed"}, !.limited = @ /\ ~Listed(h)]
  <2>1. OpFound("Resume") /\ Operate(x, t, WithStopped(h, FALSE))
    BY <1>4 DEF ResumeTorrent
  <2>2. t \in Torrent /\ t.life = tor[x].life /\ t.hash = tor[x].hash
    BY <2>1, <1>1 DEF Torrent, Flags
  <2> QED
    BY <2>1, <2>2, <1>1, WithStoppedType, WithStoppedHandles, OperateGhost
<1>5. CASE StopSeeding
  <2> DEFINE t == [tor[x] EXCEPT !.limited = TRUE]
  <2>1. OpFound("StopSeeding") /\ Operate(x, t, WithStopped(h, TRUE))
    BY <1>5 DEF StopSeeding
  <2>2. t \in Torrent /\ t.life = tor[x].life /\ t.hash = tor[x].hash
    BY <2>1, <1>1 DEF Torrent
  <2> QED
    BY <2>1, <2>2, <1>1, WithStoppedType, WithStoppedHandles, OperateGhost
<1>6. CASE ResumeSeeding
  <2> DEFINE t == [tor[x] EXCEPT !.limited = FALSE]
  <2>1. OpFound("ResumeSeeding") /\ Operate(x, t, WithStopped(h, FALSE))
    BY <1>6 DEF ResumeSeeding
  <2>2. t \in Torrent /\ t.life = tor[x].life /\ t.hash = tor[x].hash
    BY <2>1, <1>1 DEF Torrent
  <2> QED
    BY <2>1, <2>2, <1>1, WithStoppedType, WithStoppedHandles, OperateGhost
<1>7. CASE ForceRecheck
  <2> DEFINE t == [tor[x] EXCEPT !.complete = FALSE]
  <2>1. OpFound("ForceRecheck") /\ Operate(x, t, torrents)
    BY <1>7 DEF ForceRecheck
  <2>2. t \in Torrent /\ t.life = tor[x].life /\ t.hash = tor[x].hash
    BY <2>1, <1>1 DEF Torrent
  <2> QED
    BY <2>1, <2>2, <1>1, OperateGhost
<1>8. CASE Adjust
  <2>1. OpFound("Adjust") /\ Operate(x, tor[x], torrents)
    BY <1>8 DEF Adjust
  <2> QED
    BY <2>1, <1>1, OperateGhost
<1>9. CASE Remove
  <2>1. /\ At("Remove") /\ UNCHANGED <<tor, alerts, popped, phase, pending>>
        /\ torrents' = [torrents EXCEPT ![h] = NoEntry]
    BY <1>9 DEF Remove, NextCommand
  <2>2. \A g \in Hash, y \in Handle : Held(g, y)' => Held(g, y)
    BY <2>1, NoHandleAssumption DEF Held, TypeOK, NoEntry
  <2> QED
    BY <2>1, <2>2, ForgettingGhost
<1> QED
  BY <1>2, <1>3, <1>4, <1>5, <1>6, <1>7, <1>8, <1>9 DEF SecondPass

\* The i-th alert left after the first is the next of the alerts before.
LEMMA TailAlerts ==
    ASSUME TypeOK, HandlingAlert, popped' = Tail(popped)
    PROVE  /\ Head(popped) = popped[1] /\ 1 \in DOMAIN popped /\ popped[1].handle \in Handle
           /\ \A i \in DOMAIN popped' : i \in Nat /\ i + 1 \in DOMAIN popped /\ popped'[i] = popped[i + 1]
           /\ \A i \in DOMAIN popped : i # 1 => i - 1 \in DOMAIN popped' /\ popped'[i - 1] = popped[i]
<1>1. popped \in Seq(Alert) /\ popped # <<>>
  BY DEF TypeOK, HandlingAlert
<1>2. Head(popped) = popped[1] /\ 1 \in DOMAIN popped /\ popped[1] \in Alert
  BY <1>1
<1>3. /\ \A i \in DOMAIN popped' : i \in Nat /\ i + 1 \in DOMAIN popped /\ popped'[i] = popped[i + 1]
      /\ \A i \in DOMAIN popped : i # 1 => i - 1 \in DOMAIN popped' /\ popped'[i - 1] = popped[i]
  BY <1>1
<1> QED
  BY <1>2, <1>3 DEF Alert

\* Once an alert is handled, the alerts that follow it still close each other, and every removed
\* alert but the one handled is still in flight.
LEMMA HandledGhost ==
    ASSUME TypeOK, GhostInv, HandlingAlert, popped' = Tail(popped), UNCHANGED <<tor, alerts, phase>>
    PROVE  /\ PoppedClosed' /\ AlertsClosed' /\ (phase' # "alerts" => popped' = <<>>) /\ phase' # "off"
           /\ \A x \in Handle :
                RemovedInFlight(x) => RemovedInFlight(x)' \/ (popped[1].type = "removed" /\ x = popped[1].handle)
           /\ \A x \in Handle :
                x = popped[1].handle /\ popped[1].type # "removed" /\ Life(x) # "live" => RemovedInFlight(x)'
<1>1. PoppedClosed'
  <2> SUFFICES ASSUME NEW i \in DOMAIN popped'
               PROVE  /\ tor[popped'[i].handle].life # "unused"
                      /\ popped'[i].type # "removed" /\ tor[popped'[i].handle].life # "live" =>
                            \/ \E j \in DOMAIN popped' : j > i /\ popped'[j].type = "removed" /\ popped'[j].handle = popped'[i].handle
                            \/ \E j \in DOMAIN alerts : alerts[j].type = "removed" /\ alerts[j].handle = popped'[i].handle
    BY DEF PoppedClosed, ClosedByRemoved, Life
  <2>1. i \in Nat /\ i + 1 \in DOMAIN popped /\ popped'[i] = popped[i + 1]
    BY TailAlerts
  <2> DEFINE x == popped[i + 1].handle
  <2>2. /\ tor[x].life # "unused"
        /\ popped[i + 1].type # "removed" /\ tor[x].life # "live" => ClosedByRemoved(i + 1, x)
    BY <2>1 DEF GhostInv, PoppedClosed, Life
  <2>3. ASSUME NEW j \in DOMAIN popped, j > i + 1
        PROVE  j - 1 \in DOMAIN popped' /\ j - 1 > i /\ popped'[j - 1] = popped[j]
    <3>1. j \in Nat /\ j # 1
      BY <2>1, <2>3 DEF TypeOK
    <3> QED
      BY <2>1, <2>3, <3>1, TailAlerts
  <2> QED
    BY <2>1, <2>2, <2>3 DEF ClosedByRemoved
<1>2. AlertsClosed'
  BY DEF GhostInv, AlertsClosed, Life
<1>3. (phase' # "alerts" => popped' = <<>>) /\ phase' # "off"
  BY DEF HandlingAlert, In
<1>4. ASSUME NEW x \in Handle, RemovedInFlight(x), ~(popped[1].type = "removed" /\ x = popped[1].handle)
      PROVE  RemovedInFlight(x)'
  BY <1>4, TailAlerts DEF RemovedInFlight
<1>5. ASSUME NEW x \in Handle, x = popped[1].handle, popped[1].type # "removed", Life(x) # "live"
      PROVE  RemovedInFlight(x)'
  <2>1. ClosedByRemoved(1, x)
    BY <1>5, TailAlerts DEF GhostInv, PoppedClosed
  <2>2. RemovedInFlight(x)
    BY <2>1 DEF ClosedByRemoved, RemovedInFlight
  <2> QED
    BY <1>4, <1>5, <2>2
<1> QED
  BY <1>1, <1>2, <1>3, <1>4, <1>5

\* Popping and handling alerts and refreshing snapshots keep the invariant; so do the failures of
\* the worker and its exit.
LEMMA PumpGhost == TypeOK /\ GhostInv /\ (Pump \/ HandleThrows \/ WorkerExits) => GhostInv'
<1> SUFFICES ASSUME TypeOK, GhostInv, Pump \/ HandleThrows \/ WorkerExits PROVE GhostInv'
  OBVIOUS
<1>1. CASE PopAlerts
  <2>1. popped = <<>> /\ popped' = alerts /\ alerts' = <<>> /\ phase' = "alerts" /\ UNCHANGED <<tor, torrents, pending>>
    BY <1>1 DEF PopAlerts, In, engineVars, GhostInv, PumpOnlyInAlerts
  <2>2. \A x \in Handle : RemovedInFlight(x) => RemovedInFlight(x)'
    BY <2>1 DEF RemovedInFlight
  <2>3. NoGhost' /\ KeysMatch'
    BY <2>1, <2>2 DEF GhostInv, NoGhost, KeysMatch, Held, Life
  <2>4. PoppedClosed'
    BY <2>1 DEF GhostInv, AlertsClosed, PoppedClosed, ClosedByRemoved, Life
  <2>5. AlertsClosed' /\ PumpOnlyInAlerts'
    BY <2>1 DEF AlertsClosed, PumpOnlyInAlerts
  <2> QED
    BY <2>3, <2>4, <2>5 DEF GhostInv
<1>2. CASE HandleRemoved
  <2> DEFINE x == popped[1].handle
  <2> DEFINE k == tor[x].hash
  <2>1. HandlingAlert /\ popped' = Tail(popped) /\ UNCHANGED <<tor, alerts, phase>> /\ popped[1].type = "removed"
    BY <1>2, TailAlerts DEF HandleRemoved, ltVars
  <2>2. /\ torrents' = [torrents EXCEPT ![k] = NoEntry]
        /\ pending' = [pending EXCEPT ![k] = NoHandle]
    BY <1>2, <2>1, TailAlerts DEF HandleRemoved, Forget
  <2>3. ASSUME NEW h \in Hash, NEW y \in Handle, Held(h, y)' PROVE Held(h, y) /\ h # k
    BY <2>2, <2>3, NoHandleAssumption DEF Held, NoEntry, TypeOK
  <2>4. ASSUME NEW h \in Hash, NEW y \in Handle, Held(h, y)' PROVE Life(y)' = "live" \/ RemovedInFlight(y)'
    <3>1. Held(h, y) /\ h # k /\ tor[y].hash = h
      BY <2>3, <2>4 DEF GhostInv, KeysMatch
    <3>2. y # x
      BY <3>1
    <3>3. Life(y) = "live" \/ RemovedInFlight(y)
      BY <3>1 DEF GhostInv, NoGhost
    <3> QED
      BY <2>1, <3>2, <3>3, HandledGhost DEF Life
  <2>5. NoGhost'
    BY <2>4 DEF NoGhost
  <2>6. KeysMatch'
    BY <2>1, <2>3 DEF GhostInv, KeysMatch, Life
  <2> QED
    BY <2>1, <2>5, <2>6, HandledGhost DEF GhostInv, PumpOnlyInAlerts
<1>3. CASE HandleUpdate
  <2> DEFINE x == popped[1].handle
  <2>1. HandlingAlert /\ popped' = Tail(popped) /\ UNCHANGED <<tor, alerts, phase>> /\ popped[1].type # "removed"
    BY <1>3, TailAlerts DEF HandleUpdate, ltVars
  <2>2. x \in Handle /\ 1 \in DOMAIN popped /\ UpdateEntry(x, tor, torrents, pending)
    BY <1>3, <2>1, TailAlerts DEF HandleUpdate
  <2>3. ASSUME NEW h \in Hash, NEW y \in Handle, Held(h, y)' PROVE Held(h, y) \/ (y = x /\ h = tor[x].hash)
    <3>1. tor \in [Handle -> Torrent] /\ torrents \in [Hash -> Entry] /\ pending \in [Hash -> Handle \cup {NoHandle}]
      BY DEF TypeOK
    <3>2. y = torrents[h].handle \/ y = pending[h] \/ (y = x /\ h = tor[x].hash)
      <4> HIDE DEF x
      <4> QED
        BY <2>2, <2>3, <3>1, UpdateEntryHeld
    <3> QED
      BY <3>2 DEF Held
  <2>4. ASSUME NEW h \in Hash, NEW y \in Handle, Held(h, y)' PROVE Life(y)' = "live" \/ RemovedInFlight(y)'
    <3>1. CASE Held(h, y)
      <4>1. Life(y) = "live" \/ RemovedInFlight(y)
        BY <3>1 DEF GhostInv, NoGhost
      <4> QED
        BY <2>1, <4>1, HandledGhost DEF Life
    <3>2. CASE y = x
      BY <2>1, <2>2, <3>2, HandledGhost DEF Life
    <3> QED
      BY <2>3, <2>4, <3>1, <3>2
  <2>5. NoGhost'
    BY <2>4 DEF NoGhost
  <2>6. Life(x) # "unused"
    BY <2>2 DEF GhostInv, PoppedClosed
  <2>7. KeysMatch'
    BY <2>1, <2>3, <2>6 DEF GhostInv, KeysMatch, Life
  <2> QED
    BY <2>1, <2>5, <2>7, HandledGhost DEF GhostInv, PumpOnlyInAlerts
<1>4. CASE RefreshAll
  <2>1. /\ popped' = <<>> /\ phase' = "sleep" /\ UNCHANGED <<tor, alerts, popped, pending>>
        /\ torrents' = [h \in Hash |->
              IF Valid(torrents[h].handle)
              THEN [torrents[h] EXCEPT !.state = SnapshotState(tor[torrents[h].handle]), !.shown_stopped = FALSE]
              ELSE torrents[h]]
    BY <1>4 DEF RefreshAll, ltVars
  <2>2. \A h \in Hash : torrents'[h].handle = torrents[h].handle
    BY <2>1 DEF TypeOK, Entry
  <2>3. \A h \in Hash, y \in Handle : Held(h, y)' => Held(h, y)
    BY <2>1, <2>2 DEF Held
  <2> QED
    BY <2>1, <2>3, KeepsGhostInv DEF Life
<1>5. CASE HandleThrows
  <2>1. UNCHANGED <<tor, alerts, popped, phase, torrents, pending>>
    BY <1>5 DEF HandleThrows, engineVars, ltVars
  <2>2. phase' # "alerts" => popped' = <<>>
    BY <2>1 DEF GhostInv, PumpOnlyInAlerts
  <2> QED
    BY <2>1, <2>2, KeepsGhostInv DEF Held, Life
<1>6. CASE WorkerExits
  <2>1. UNCHANGED <<tor, alerts, popped, torrents, pending>> /\ phase = "sleep" /\ phase' = "persisting"
    BY <1>6 DEF WorkerExits, In, engineVars, ltVars
  <2>2. popped' = <<>>
    BY <2>1 DEF GhostInv, PumpOnlyInAlerts
  <2> QED
    BY <2>1, <2>2, KeepsGhostInv DEF Held, Life
<1> QED
  BY <1>1, <1>2, <1>3, <1>4, <1>5, <1>6 DEF Pump

\* Removing and destroying torrents and libtorrent's own events keep the invariant.
LEMMA LibtorrentGhost == TypeOK /\ GhostInv /\ Libtorrent => GhostInv'
<1> SUFFICES ASSUME TypeOK, GhostInv, Libtorrent PROVE GhostInv'
  OBVIOUS
<1>1. UNCHANGED <<popped, phase, torrents, pending>>
  BY DEF Libtorrent, RunRemoval, DestroyTorrent, TorrentFinishes, TorrentReports, Event, AutoManage, batchVars, engineVars
<1>2. /\ phase' # "alerts" => popped' = <<>>
      /\ phase' = "off" => phase = "off" /\ pending' = pending
      /\ \A h \in Hash, x \in Handle : Held(h, x)' <=> Held(h, x)
  BY <1>1 DEF GhostInv, PumpOnlyInAlerts, Held
<1>3. CASE RunRemoval
  <2>1. CASE ~Valid(Head(posted))
    <3>1. UNCHANGED <<tor, alerts>>
      BY <1>3, <2>1 DEF RunRemoval
    <3> QED
      BY <1>1, <1>2, <3>1, KeepsGhostInv DEF Life
  <2>2. CASE Valid(Head(posted))
    <3>1. PICK x \in Handle : x = Head(posted) /\ Valid(x)
      BY <2>2 DEF Valid
    <3> DEFINE a == [type |-> "removed", handle |-> x]
    <3>2. tor' = [tor EXCEPT ![x].life = "dying"] /\ alerts' = Append(alerts, a)
      BY <1>3, <3>1 DEF RunRemoval, Post
    <3>3. /\ Life(x) # "unused" /\ Life(x)' = "dying"
          /\ \A y \in Handle : tor'[y].hash = tor[y].hash /\ (y # x => Life(y)' = Life(y))
      <4>1. tor[x] \in Torrent /\ tor[x].life # "unused"
        BY <3>1 DEF Valid, TypeOK
      <4>2. [tor[x] EXCEPT !.life = "dying"].life = "dying" /\ [tor[x] EXCEPT !.life = "dying"].hash = tor[x].hash
        BY <4>1 DEF Torrent
      <4>3. tor' = [tor EXCEPT ![x] = [tor[x] EXCEPT !.life = "dying"]]
        BY <3>2
      <4> DEFINE t == [tor[x] EXCEPT !.life = "dying"]
      <4> HIDE DEF t
      <4>4. tor' = [tor EXCEPT ![x] = t] /\ t.life = "dying" /\ t.hash = tor[x].hash
        BY <4>2, <4>3 DEF t
      <4> QED
        BY <3>2, <4>1, <4>4 DEF Life, TypeOK
    <3>4. /\ Len(alerts) + 1 \in DOMAIN alerts' /\ alerts'[Len(alerts) + 1] = a
          /\ \A i \in DOMAIN alerts : i \in DOMAIN alerts' /\ alerts'[i] = alerts[i] /\ i < Len(alerts) + 1
          /\ \A i \in DOMAIN alerts' : i \in DOMAIN alerts \/ i = Len(alerts) + 1
      <4> HIDE DEF a
      <4> QED
        BY <3>2 DEF TypeOK
    <3>5. a.type = "removed" /\ a.handle = x
      OBVIOUS
    <3> HIDE DEF a
    <3>6. /\ \A i \in DOMAIN alerts : alerts[i].handle \in Handle
          /\ \A i \in DOMAIN popped : popped[i].handle \in Handle
      <4>1. /\ \A i \in DOMAIN alerts : alerts[i] \in Alert
            /\ \A i \in DOMAIN popped : popped[i] \in Alert
        BY DEF TypeOK
      <4> QED
        BY <4>1 DEF Alert
    <3>7. RemovedInFlight(x)' /\ \A y \in Handle : RemovedInFlight(y) => RemovedInFlight(y)'
      BY <1>1, <3>4, <3>5 DEF RemovedInFlight
    <3>8. NoGhost'
      BY <1>2, <3>3, <3>7 DEF GhostInv, NoGhost
    <3>9. KeysMatch'
      <4> SUFFICES ASSUME NEW h \in Hash, NEW y \in Handle, Held(h, y)'
                   PROVE  tor'[y].hash = h /\ Life(y)' # "unused"
        BY DEF KeysMatch
      <4>1. tor[y].hash = h /\ Life(y) # "unused"
        BY <1>2 DEF GhostInv, KeysMatch
      <4> QED
        BY <3>3, <4>1
    <3>10. PoppedClosed'
      <4> SUFFICES ASSUME NEW i \in DOMAIN popped
                   PROVE  /\ tor'[popped[i].handle].life # "unused"
                          /\ popped[i].type # "removed" /\ tor'[popped[i].handle].life # "live" =>
                                \/ \E j \in DOMAIN popped : j > i /\ popped[j].type = "removed" /\ popped[j].handle = popped[i].handle
                                \/ \E j \in DOMAIN alerts' : alerts'[j].type = "removed" /\ alerts'[j].handle = popped[i].handle
        BY <1>1 DEF PoppedClosed, ClosedByRemoved, Life
      <4> DEFINE y == popped[i].handle
      <4>1. /\ tor[y].life # "unused"
            /\ popped[i].type # "removed" /\ tor[y].life # "live" => ClosedByRemoved(i, y)
        BY DEF GhostInv, PoppedClosed, Life
      <4>2. CASE y = x
        BY <3>3, <3>4, <3>5, <4>2 DEF Life
      <4>3. CASE y # x
        <5>1. tor'[y].life = tor[y].life
          BY <3>3, <3>6, <4>3 DEF Life
        <5> QED
          BY <3>4, <4>1, <5>1 DEF ClosedByRemoved
      <4> QED
        BY <4>2, <4>3
    <3>11. AlertsClosed'
      <4> SUFFICES ASSUME NEW i \in DOMAIN alerts'
                   PROVE  /\ tor'[alerts'[i].handle].life # "unused"
                          /\ alerts'[i].type # "removed" /\ tor'[alerts'[i].handle].life # "live" =>
                                \E j \in DOMAIN alerts' :
                                    j > i /\ alerts'[j].type = "removed" /\ alerts'[j].handle = alerts'[i].handle
        BY DEF AlertsClosed, Life
      <4>1. CASE i = Len(alerts) + 1
        BY <3>3, <3>4, <3>5, <4>1 DEF Life
      <4>2. CASE i \in DOMAIN alerts
        <5> DEFINE y == alerts[i].handle
        <5>1. /\ tor[y].life # "unused"
              /\ alerts[i].type # "removed" /\ tor[y].life # "live" =>
                    \E j \in DOMAIN alerts : j > i /\ alerts[j].type = "removed" /\ alerts[j].handle = y
          BY <4>2 DEF GhostInv, AlertsClosed, Life
        <5>2. alerts'[i].handle = y /\ alerts'[i].type = alerts[i].type
          BY <3>4, <4>2
        <5>3. CASE y = x
          <6>1. Len(alerts) + 1 > i
            BY <4>2 DEF TypeOK
          <6> QED
            BY <3>3, <3>4, <3>5, <5>2, <5>3, <6>1 DEF Life
        <5>4. CASE y # x
          <6>1. tor'[y].life = tor[y].life
            BY <3>3, <3>6, <4>2, <5>4 DEF Life
          <6> QED
            BY <3>4, <5>1, <5>2, <6>1
        <5> QED
          BY <5>3, <5>4
      <4> QED
        BY <3>4, <4>1, <4>2
    <3>12. PumpOnlyInAlerts'
      BY <1>1 DEF GhostInv, PumpOnlyInAlerts
    <3> QED
      BY <3>8, <3>9, <3>10, <3>11, <3>12 DEF GhostInv
  <2> QED
    BY <2>1, <2>2
<1>4. ASSUME NEW x \in Handle, DestroyTorrent(x) PROVE GhostInv'
  <2>1. tor[x].life = "dying" /\ tor' = [tor EXCEPT ![x].life = "gone"] /\ alerts' = alerts
    BY <1>4 DEF DestroyTorrent
  <2>2. \A y \in Handle : Life(y) # "unused" =>
          /\ tor'[y].hash = tor[y].hash
          /\ Life(y)' # "unused"
          /\ Life(y) = "live" <=> Life(y)' = "live"
    BY <2>1 DEF Life, TypeOK, Torrent
  <2> QED
    BY <1>1, <1>2, <2>1, <2>2, KeepsGhostInv
<1>5. ASSUME NEW x \in Handle, NEW t \in Torrent, NEW type \in {"update", "error"}, Event(x, t, type),
             t.life = tor[x].life, t.hash = tor[x].hash
      PROVE  GhostInv'
  <2>1. tor[x].life = "live" /\ tor' = [tor EXCEPT ![x] = t] /\ alerts' = Append(alerts, [type |-> type, handle |-> x])
    BY <1>5 DEF Event, Post
  <2>2. \A y \in Handle : tor'[y].hash = tor[y].hash /\ Life(y)' = Life(y)
    BY <1>5, <2>1 DEF Life, TypeOK
  <2>3. \E a \in Alert : alerts' = Append(alerts, a) /\ Life(a.handle)' = "live"
    <3>1. [type |-> type, handle |-> x] \in Alert /\ [type |-> type, handle |-> x].handle = x
      BY DEF Alert
    <3>2. Life(x)' = "live"
      BY <2>1, <2>2 DEF Life
    <3> QED
      BY <2>1, <3>1, <3>2
  <2> QED
    BY <1>1, <1>2, <2>2, <2>3, KeepsGhostInv
<1>6. ASSUME NEW x \in Handle, TorrentFinishes(x) \/ TorrentReports(x) PROVE GhostInv'
  <2> DEFINE t == [tor[x] EXCEPT !.complete = TRUE]
  <2>1. tor[x] \in Torrent /\ t \in Torrent /\ t.life = tor[x].life /\ t.hash = tor[x].hash
    BY DEF TypeOK, Torrent
  <2> QED
    BY <1>5, <1>6, <2>1 DEF TorrentFinishes, TorrentReports
<1>7. ASSUME NEW x \in Handle, AutoManage(x) PROVE GhostInv'
  <2> DEFINE f == IF "paused" \in tor[x].flags THEN tor[x].flags \ {"paused"} ELSE tor[x].flags \cup {"paused"}
  <2>1. tor' = [tor EXCEPT ![x].flags = f] /\ alerts' = alerts
    BY <1>7 DEF AutoManage
  <2>2. \A y \in Handle : tor'[y].hash = tor[y].hash /\ Life(y)' = Life(y)
    <3> HIDE DEF f
    <3> QED
      BY <2>1 DEF Life, TypeOK, Torrent
  <2> QED
    BY <1>1, <1>2, <2>1, <2>2, KeepsGhostInv
<1> QED
  BY <1>3, <1>4, <1>6, <1>7 DEF Libtorrent

\* With no entry, no preview and no alert there is nothing to lose.
LEMMA EmptyGhost ==
    torrents = [h \in Hash |-> NoEntry] /\ pending = [h \in Hash |-> NoHandle] /\ popped = <<>> /\ alerts = <<>>
        => GhostInv
  BY NoHandleAssumption DEF GhostInv, NoGhost, PoppedClosed, AlertsClosed, KeysMatch, PumpOnlyInAlerts, Held, NoEntry

\* Saving, the end of a process and the start of the next keep the invariant.
LEMMA LifecycleGhost == TypeOK /\ GhostInv /\ Lifecycle => GhostInv'
<1> SUFFICES ASSUME TypeOK, GhostInv, Lifecycle PROVE GhostInv'
  OBVIOUS
<1>1. ASSUME NEW h \in Hash, SaveResume(h) \/ SaveFails(h) PROVE GhostInv'
  <2>1. UNCHANGED <<tor, alerts, popped, phase, torrents, pending>>
    BY <1>1 DEF SaveResume, SaveFails, batchVars, engineVars, ltVars
  <2>2. phase' # "alerts" => popped' = <<>>
    BY <2>1 DEF GhostInv, PumpOnlyInAlerts
  <2> QED
    BY <2>1, <2>2, KeepsGhostInv DEF Held, Life
<1>2. CASE FinishShutdown \/ Crash
  <2>1. ProcessEnds
    BY <1>2 DEF FinishShutdown, Crash
  <2> QED
    BY <2>1, EmptyGhost, NoHandleAssumption
       DEF ProcessEnds, GhostInv, NoGhost, PoppedClosed, AlertsClosed, KeysMatch, PumpOnlyInAlerts, Held, NoEntry
<1>3. CASE Start
  <2>1. PICK order \in {s \in [1 .. Cardinality(Restorable) -> Restorable] : Injective(s)},
             new \in {f \in [Restorable -> Handle] : Injective(f)} :
           /\ tor' = [x \in Handle |->
                IF \E h \in Restorable : new[h] = x
                THEN LET h == CHOOSE g \in Restorable : new[g] = x
                     IN  [life |-> "live", hash |-> h, flags |-> files[h].flags \cup {"auto_managed"},
                          complete |-> files[h].complete, limited |-> files[h].limited]
                ELSE Unused]
           /\ torrents' = [h \in Hash |->
                IF h \in Restorable THEN Refreshed(NoEntry, new[h], tor'[new[h]]) ELSE NoEntry]
           /\ alerts' = [i \in DOMAIN order |-> [type |-> "added", handle |-> new[order[i]]]]
    BY <1>3 DEF Start
  <2>2. popped' = <<>> /\ phase' = "sleep" /\ \A h \in Hash : pending'[h] = NoHandle
    BY <1>3 DEF Start, GhostInv, PumpOnlyInAlerts
  <2>3. ASSUME NEW h \in Restorable PROVE new[h] \in Handle /\ Life(new[h])' = "live" /\ tor'[new[h]].hash = h
    <3>1. new[h] \in Handle /\ \A g \in Restorable : new[g] = new[h] => g = h
      BY DEF Injective
    <3>2. (CHOOSE g \in Restorable : new[g] = new[h]) = h
      BY <3>1
    <3> QED
      BY <2>1, <3>1, <3>2 DEF Life
  <2>4. ASSUME NEW h \in Hash, NEW x \in Handle, Held(h, x)' PROVE h \in Restorable /\ x = new[h]
    <3>1. x # NoHandle /\ x # NoEntry.handle
      BY NoHandleAssumption DEF NoEntry
    <3>2. x = torrents'[h].handle
      BY <2>2, <2>4, <3>1 DEF Held
    <3> QED
      BY <2>1, <3>1, <3>2 DEF Refreshed
  <2>5. NoGhost' /\ KeysMatch'
    BY <2>3, <2>4 DEF NoGhost, KeysMatch
  <2>6. AlertsClosed'
    <3>1. ASSUME NEW i \in DOMAIN alerts' PROVE tor'[alerts'[i].handle].life = "live"
      BY <2>1, <2>3 DEF Life
    <3> QED
      BY <3>1 DEF AlertsClosed, Life
  <2> QED
    BY <2>2, <2>5, <2>6 DEF GhostInv, PoppedClosed, PumpOnlyInAlerts
<1> QED
  BY <1>1, <1>2, <1>3 DEF Lifecycle

\* The strengthened invariant holds in every run: alerts still to be handled are closed by a removed
\* alert or are about a live torrent (pump_alerts_once, lines 640-701).
THEOREM GhostInvariant == Spec => []GhostInv
<1>1. Init => GhostInv
  BY EmptyGhost DEF Init
<1>2. TypeOK /\ GhostInv /\ [Next]_vars => GhostInv'
  <2>1. ASSUME GhostInv, UNCHANGED vars PROVE GhostInv'
    BY <2>1 DEF GhostInv, NoGhost, PoppedClosed, AlertsClosed, KeysMatch, PumpOnlyInAlerts, ClosedByRemoved,
                RemovedInFlight, Held, Life, vars, batchVars, engineVars, ltVars
  <2> QED
    BY <2>1, ClientGhost, FirstPassGhost, SecondPassGhost, PumpGhost, LibtorrentGhost, LifecycleGhost DEF Next, Worker
<1> QED
  BY <1>1, <1>2, TypeCorrect, PTL DEF Spec

\* No removed torrent stays in the library or staged: a handle the engine keeps is of a live torrent,
\* or the removed alert that clears it is on its way (update_entry, lines 561-598).
THEOREM NoGhostHolds == Spec => []NoGhost
<1>1. GhostInv => NoGhost
  BY DEF GhostInv
<1> QED
  BY <1>1, GhostInvariant, PTL

-----------------------------------------------------------------------------
(* No orphans.  NoOrphan rests on an order: of all alerts about torrents of one hash, the added alert of
   the torrent now alive comes last, so that whatever the alerts of its predecessors erase or re-insert,
   it has the last word. *)

\* The added alert of x is among the alerts s.
AddedAmong(s, x) == \E j \in DOMAIN s : s[j].type = "added" /\ s[j].handle = x

\* Every alert of s about another torrent of the same hash is followed by the added alert of x.
HasLastWord(s, x) ==
    \A i \in DOMAIN s : s[i].handle # x /\ tor[s[i].handle].hash = tor[x].hash =>
        \E j \in DOMAIN s : j > i /\ s[j].type = "added" /\ s[j].handle = x

\* libtorrent has one torrent of a hash in the session.
UniqueLive == \A x, y \in Handle : Life(x) = "live" /\ Life(y) = "live" /\ tor[x].hash = tor[y].hash => x = y

RemovedIsDead ==
    /\ \A i \in DOMAIN popped : popped[i].type = "removed" => Life(popped[i].handle) # "live"
    /\ \A i \in DOMAIN alerts : alerts[i].type = "removed" => Life(alerts[i].handle) # "live"

\* The torrent is what find_handle_by_id finds, or will be once its added alert is handled; nothing
\* of the same hash is about to be removed.
Reached(x) ==
    /\ HandleOf(tor[x].hash) = x \/ AddedAmong(popped, x)
    /\ HasLastWord(popped, x)
    /\ HasLastWord(alerts, x)
    /\ \A i \in DOMAIN posted : tor[posted[i]].hash # tor[x].hash

Staying(x) == Life(x) = "live" /\ ~RemovalPosted(x)

OrphanInv ==
    /\ UniqueLive
    /\ RemovedIsDead
    /\ phase = "off" => posted = <<>>
    /\ \A x \in Handle : Staying(x) => Reached(x)

\* update_entry of a torrent in the session makes it the one its key finds, and touches no other key.
LEMMA UpdateEntryFinds ==
    ASSUME NEW x \in Handle, NEW T \in [Handle -> Torrent],
           NEW lib \in [Hash -> Entry], NEW stg \in [Hash -> Handle \cup {NoHandle}],
           UpdateEntry(x, T, lib, stg)
    PROVE  /\ \A h \in Hash : h = T[x].hash /\ T[x].life = "live" => HandleOf(h)' = x
           /\ \A g \in Hash : g # T[x].hash => torrents'[g] = lib[g] /\ pending'[g] = stg[g]
<1>1. T[x].hash \in Hash
  BY DEF Torrent
<1> QED
  BY <1>1, NoHandleAssumption DEF UpdateEntry, HandleOf, Staged, Refreshed

\* Nothing in the invariant is lost when no torrent comes to life, alerts and posted removals stay
\* as they are, and a key that finds a torrent that stays goes on finding it.
LEMMA KeepsOrphanInv ==
    ASSUME TypeOK, OrphanInv,
           \A x \in Handle : tor'[x].hash = tor[x].hash /\ (Life(x)' = "live" => Life(x) = "live"),
           UNCHANGED <<popped, alerts, posted>>,
           phase' = "off" => phase = "off",
           \A x \in Handle : Staying(x) /\ HandleOf(tor[x].hash) = x => HandleOf(tor[x].hash)' = x
    PROVE  OrphanInv'
<1>1. /\ \A i \in DOMAIN popped : popped[i].handle \in Handle
      /\ \A i \in DOMAIN alerts : alerts[i].handle \in Handle
      /\ \A i \in DOMAIN posted : posted[i] \in Handle
  <2>1. /\ \A i \in DOMAIN popped : popped[i] \in Alert
        /\ \A i \in DOMAIN alerts : alerts[i] \in Alert
        /\ \A i \in DOMAIN posted : posted[i] \in Handle
    BY DEF TypeOK
  <2> QED
    BY <2>1 DEF Alert
<1>2. UniqueLive'
  BY DEF OrphanInv, UniqueLive
<1>3. RemovedIsDead'
  BY <1>1 DEF OrphanInv, RemovedIsDead
<1>4. ASSUME NEW x \in Handle, Staying(x)' PROVE Reached(x)'
  <2>1. Staying(x) /\ Reached(x)
    BY <1>4 DEF Staying, RemovalPosted, OrphanInv
  <2>2. (HandleOf(tor[x].hash) = x \/ AddedAmong(popped, x))'
    <3>1. AddedAmong(popped, x) => AddedAmong(popped, x)'
      BY DEF AddedAmong
    <3>2. HandleOf(tor[x].hash) = x => HandleOf(tor[x].hash)' = x
      BY <2>1
    <3> QED
      BY <2>1, <3>1, <3>2 DEF Reached
  <2>3. HasLastWord(popped, x)' /\ HasLastWord(alerts, x)'
    BY <1>1, <2>1 DEF Reached, HasLastWord
  <2>4. (\A i \in DOMAIN posted : tor[posted[i]].hash # tor[x].hash)'
    BY <1>1, <2>1 DEF Reached
  <2> QED
    BY <2>2, <2>3, <2>4 DEF Reached
<1> QED
  BY <1>2, <1>3, <1>4 DEF OrphanInv

\* Commands run while nothing is popped, so a torrent that stays is the one its key finds.
LEMMA StayingIsFound ==
    ASSUME TypeOK, GhostInv, OrphanInv, NEW t, At(t), NEW x \in Handle, Staying(x)
    PROVE  HandleOf(tor[x].hash) = x
<1>1. popped = <<>>
  BY BetweenAlerts
<1> QED
  BY <1>1 DEF OrphanInv, Reached, AddedAmong

\* The client reaches neither libtorrent nor the maps.
LEMMA ClientOrphan == TypeOK /\ OrphanInv /\ Client => OrphanInv'
<1> SUFFICES ASSUME TypeOK, OrphanInv, Client PROVE OrphanInv'
  OBVIOUS
<1>1. UNCHANGED <<tor, alerts, posted, popped, phase, torrents, pending>>
  BY DEF Client, Enqueue, BeginClearsError, TakeLastError, PollFreezes, Shutdown, batchVars, engineVars, ltVars
<1> QED
  BY <1>1, KeepsOrphanInv DEF Life, HandleOf, Staged

\* Posting the removal of a torrent: no other torrent of its hash stays.
LEMMA PostingOrphan ==
    ASSUME TypeOK, GhostInv, OrphanInv, NEW t, At(t),
           NEW h \in Hash, NEW y \in Handle, Held(h, y), HandleOf(h) = y,
           posted' = Append(posted, y),
           UNCHANGED <<tor, alerts, popped, phase>>,
           \A g \in Hash : g # h => torrents'[g] = torrents[g] /\ pending'[g] = pending[g]
    PROVE  OrphanInv'
<1>1. posted \in Seq(Handle)
  BY DEF TypeOK
<1>2. /\ Len(posted) + 1 \in DOMAIN posted' /\ posted'[Len(posted) + 1] = y
      /\ \A i \in DOMAIN posted : i \in DOMAIN posted' /\ posted'[i] = posted[i]
      /\ \A i \in DOMAIN posted' : i \in DOMAIN posted \/ posted'[i] = y
  BY <1>1
<1>3. tor[y].hash = h /\ phase # "off"
  BY BetweenAlerts DEF GhostInv, KeysMatch
<1>4. UniqueLive' /\ RemovedIsDead'
  BY DEF OrphanInv, UniqueLive, RemovedIsDead, Life
<1>5. ASSUME NEW x \in Handle, Staying(x)' PROVE Reached(x)'
  <2>1. Staying(x) /\ x # y
    BY <1>2, <1>5 DEF Staying, RemovalPosted, Life
  <2>2. Reached(x) /\ HandleOf(tor[x].hash) = x /\ tor[x].hash \in Hash
    BY <2>1, StayingIsFound DEF OrphanInv, TypeOK, Torrent
  <2>3. tor[x].hash # h
    BY <2>1, <2>2
  <2>4. HandleOf(tor[x].hash)' = x
    BY <2>2, <2>3 DEF HandleOf, Staged
  <2>5. HasLastWord(popped, x)' /\ HasLastWord(alerts, x)'
    BY <2>2 DEF Reached, HasLastWord
  <2>6. (\A i \in DOMAIN posted : tor[posted[i]].hash # tor[x].hash)'
    BY <1>2, <1>3, <2>2, <2>3 DEF Reached
  <2> QED
    BY <2>4, <2>5, <2>6 DEF Reached
<1> QED
  BY <1>3, <1>4, <1>5 DEF OrphanInv

\* Adding a torrent: its added alert comes last, and no removal is posted.
LEMMA AddingOrphan ==
    ASSUME TypeOK, GhostInv, OrphanInv, NEW t, At(t), Drained,
           NEW h \in Hash, NEW f, NEW x \in AddResult(h),
           \A y \in Handle : tor'[y].life = Added(h, x, f)[y].life /\ tor'[y].hash = Added(h, x, f)[y].hash,
           Post("added", x),
           UNCHANGED <<popped, posted, phase>>,
           HandleOf(h)' = x,
           \A g \in Hash : g # h => torrents'[g] = torrents[g] /\ pending'[g] = pending[g]
    PROVE  OrphanInv'
<1> DEFINE a == [type |-> "added", handle |-> x]
<1>1. /\ x \in Handle /\ Life(x)' = "live" /\ tor'[x].hash = h
      /\ \A y \in Handle : Life(y) # "unused" => Life(y)' = Life(y) /\ tor'[y].hash = tor[y].hash
  BY AddedIsLive DEF Life
<1>2. \A y \in Handle : y # x => Life(y)' = Life(y) /\ tor'[y].hash = tor[y].hash
  BY DEF Added, Life, TypeOK
<1>3. \A y \in Handle : Life(y) = "live" /\ tor[y].hash = h => y = x
  BY DEF AddResult, Life, OrphanInv, UniqueLive
<1>4. alerts' = Append(alerts, a) /\ popped = <<>> /\ posted = <<>> /\ alerts \in Seq(Alert)
  BY BetweenAlerts DEF Post, Drained, TypeOK
<1>5. a.type = "added" /\ a.handle = x
  OBVIOUS
<1> HIDE DEF a
<1>6. /\ Len(alerts) + 1 \in DOMAIN alerts' /\ alerts'[Len(alerts) + 1] = a
      /\ \A i \in DOMAIN alerts : i \in DOMAIN alerts' /\ alerts'[i] = alerts[i] /\ i < Len(alerts) + 1
      /\ \A i \in DOMAIN alerts' : i \in DOMAIN alerts \/ alerts'[i] = a
  BY <1>4
<1>7. \A i \in DOMAIN alerts : alerts[i].handle \in Handle /\ Life(alerts[i].handle) # "unused"
  <2>1. \A i \in DOMAIN alerts : alerts[i] \in Alert
    BY <1>4
  <2> QED
    BY <2>1 DEF Alert, GhostInv, AlertsClosed
<1>8. UniqueLive'
  BY <1>1, <1>2, <1>3 DEF OrphanInv, UniqueLive
<1>9. RemovedIsDead'
  <2>1. \A i \in DOMAIN alerts' : alerts'[i].type = "removed" => tor'[alerts'[i].handle].life # "live"
    BY <1>1, <1>5, <1>6, <1>7 DEF OrphanInv, RemovedIsDead, Life
  <2> QED
    BY <1>4, <2>1 DEF RemovedIsDead, Life
<1>10. Reached(x)'
  <2>1. (HandleOf(tor[x].hash) = x)'
    BY <1>1
  <2>2. HasLastWord(alerts, x)'
    <3> SUFFICES ASSUME NEW i \in DOMAIN alerts', alerts'[i].handle # x
                 PROVE  \E j \in DOMAIN alerts' : j > i /\ alerts'[j].type = "added" /\ alerts'[j].handle = x
      BY DEF HasLastWord
    <3>1. i \in DOMAIN alerts
      BY <1>5, <1>6
    <3> QED
      BY <1>4, <1>5, <1>6, <3>1
  <2>3. HasLastWord(popped, x)'
    BY <1>4 DEF HasLastWord
  <2> QED
    BY <1>4, <2>1, <2>2, <2>3 DEF Reached
<1>11. ASSUME NEW y \in Handle, y # x, Staying(y)' PROVE Reached(y)'
  <2>1. Staying(y) /\ tor'[y].hash = tor[y].hash
    BY <1>2, <1>11 DEF Staying, RemovalPosted
  <2>2. Reached(y) /\ HandleOf(tor[y].hash) = y /\ tor[y].hash \in Hash
    BY <2>1, StayingIsFound DEF OrphanInv, TypeOK, Torrent
  <2>3. tor[y].hash # h
    BY <1>3, <1>11, <2>1 DEF Staying
  <2>4. (HandleOf(tor[y].hash) = y)'
    BY <2>1, <2>2, <2>3 DEF HandleOf, Staged
  <2>5. HasLastWord(alerts, y)'
    <3> SUFFICES ASSUME NEW i \in DOMAIN alerts', alerts'[i].handle # y, tor'[alerts'[i].handle].hash = tor[y].hash
                 PROVE  \E j \in DOMAIN alerts' : j > i /\ alerts'[j].type = "added" /\ alerts'[j].handle = y
      BY <2>1 DEF HasLastWord
    <3>1. i \in DOMAIN alerts /\ alerts'[i] = alerts[i]
      BY <1>1, <1>5, <1>6, <2>3
    <3>2. tor[alerts[i].handle].hash = tor[y].hash
      BY <1>1, <1>7, <3>1
    <3>3. \E j \in DOMAIN alerts : j > i /\ alerts[j].type = "added" /\ alerts[j].handle = y
      BY <2>2, <3>1, <3>2 DEF Reached, HasLastWord
    <3> QED
      BY <1>6, <3>3
  <2>6. HasLastWord(popped, y)'
    BY <1>4 DEF HasLastWord
  <2> QED
    BY <1>4, <2>4, <2>5, <2>6 DEF Reached
<1> QED
  BY <1>4, <1>8, <1>9, <1>10, <1>11 DEF OrphanInv

\* Commands that leave libtorrent's lives, alerts and removals alone keep the invariant if every
\* torrent found in the session goes on being found.
LEMMA CommandOrphan ==
    ASSUME TypeOK, GhostInv, OrphanInv, NEW t, At(t),
           \A x \in Handle : tor'[x].hash = tor[x].hash /\ tor'[x].life = tor[x].life,
           UNCHANGED <<popped, alerts, posted>>,
           phase' = "off" => phase = "off",
           \A x \in Handle : Life(x) = "live" /\ HandleOf(tor[x].hash) = x => HandleOf(tor[x].hash)' = x
    PROVE  OrphanInv'
  BY KeepsOrphanInv DEF Life, Staying

\* A refresh of the torrent a key finds: if it is in the session it is still found, and if it is
\* not, no torrent of its hash stays.
LEMMA RefreshingOrphan ==
    ASSUME TypeOK, GhostInv, OrphanInv, NEW t, At(t),
           NEW h \in Hash, NEW x \in Handle, HandleOf(h) = x,
           NEW lib \in [Hash -> Entry], NEW stg \in [Hash -> Handle \cup {NoHandle}],
           \A g \in Hash : g # h => lib[g].handle = torrents[g].handle /\ stg[g] = pending[g],
           tor' \in [Handle -> Torrent],
           UpdateEntry(x, tor', lib, stg),
           \A y \in Handle : tor'[y].hash = tor[y].hash /\ tor'[y].life = tor[y].life,
           UNCHANGED <<popped, alerts, posted, phase>>
    PROVE  OrphanInv'
<1>1. tor'[x].hash = h /\ tor[x].hash = h
  BY FoundIsHeld
<1>2. /\ tor'[x].life = "live" => HandleOf(h)' = x
      /\ \A g \in Hash : g # h => torrents'[g] = lib[g] /\ pending'[g] = stg[g]
  BY <1>1, UpdateEntryFinds
<1>3. ASSUME NEW y \in Handle, Life(y) = "live", HandleOf(tor[y].hash) = y PROVE HandleOf(tor[y].hash)' = y
  <2>1. tor[y].hash \in Hash /\ tor'[y].hash = tor[y].hash
    BY DEF TypeOK, Torrent
  <2>2. CASE tor[y].hash = h
    <3>1. y = x
      BY <1>3, <2>2
    <3> QED
      BY <1>1, <1>2, <1>3, <2>1, <2>2, <3>1 DEF Life
  <2>3. CASE tor[y].hash # h
    BY <1>1, <1>2, <1>3, <2>1, <2>3 DEF HandleOf, Staged
  <2> QED
    BY <2>2, <2>3
<1> QED
  BY <1>3, CommandOrphan

\* Staging commands keep the invariant.
LEMMA FirstPassOrphan == TypeOK /\ GhostInv /\ OrphanInv /\ (TakeBatch \/ FirstPass) => OrphanInv'
<1> SUFFICES ASSUME TypeOK, GhostInv, OrphanInv, TakeBatch \/ FirstPass PROVE OrphanInv'
  OBVIOUS
<1> USE NoHandleAssumption
<1>1. CASE TakeBatch \/ SecondPassBegins \/ PassBy
  <2>1. UNCHANGED <<tor, alerts, popped, posted, torrents, pending>> /\ (phase' = "off" => phase = "off")
    BY <1>1 DEF TakeBatch, SecondPassBegins, PassBy, NextCommand, engineVars, ltVars
  <2> QED
    BY <2>1, KeepsOrphanInv DEF Life, HandleOf, Staged
<1>2. CASE StageFails
  <2>1. UNCHANGED <<tor, alerts, popped, posted, phase, torrents, pending>>
    BY <1>2 DEF StageFails, NextCommand, ltVars
  <2> QED
    BY <2>1, KeepsOrphanInv DEF Life, HandleOf, Staged
<1>3. CASE BeginStagedAgain
  <2> DEFINE x == pending[Current.hash]
  <2>1. At("BeginMagnetPreview") /\ UNCHANGED <<alerts, popped, posted, phase, torrents, pending>>
    BY <1>3 DEF BeginStagedAgain, engineVars
  <2>2. tor' = [tor EXCEPT ![x].flags = @ \ {"paused"}]
    BY <1>3 DEF BeginStagedAgain
  <2>3. \A y \in Handle : tor'[y].life = tor[y].life /\ tor'[y].hash = tor[y].hash
    BY <2>2 DEF TypeOK, Torrent
  <2> QED
    BY <2>1, <2>3, CommandOrphan DEF HandleOf, Staged
<1>4. CASE BeginReusesListed
  <2>1. /\ At("BeginMagnetPreview") /\ UNCHANGED <<tor, alerts, popped, posted, phase, torrents>>
        /\ ~Staged(Current.hash) /\ Current.hash \in Hash
        /\ pending' = [pending EXCEPT ![Current.hash] = torrents[Current.hash].handle]
    BY <1>4, CurrentType DEF BeginReusesListed, NextCommand, ltVars
  <2>2. \A g \in Hash : HandleOf(g)' = HandleOf(g)
    BY <2>1 DEF HandleOf, Staged, TypeOK
  <2>3. \A y \in Handle : tor[y].hash \in Hash
    BY DEF TypeOK, Torrent
  <2> QED
    BY <2>1, <2>2, <2>3, CommandOrphan
<1>5. CASE BeginAdds
  <2>1. PICK h \in Hash : h = Current.hash
    BY <1>5, CurrentType DEF BeginAdds
  <2>2. At("BeginMagnetPreview") /\ Drained /\ UNCHANGED <<popped, phase, posted, torrents>>
    BY <1>5 DEF BeginAdds, NextCommand
  <2>3. PICK x \in AddResult(h) :
          /\ tor' = [Added(h, x, {"upload_mode"}) EXCEPT ![x].flags = @ \ {"paused"}]
          /\ Post("added", x)
          /\ pending' = [pending EXCEPT ![h] = x]
    BY <1>5, <2>1 DEF BeginAdds
  <2> DEFINE T == Added(h, x, {"upload_mode"})
  <2>4. T \in [Handle -> Torrent] /\ x \in Handle
    BY DEF AddResult, Added, TypeOK, Torrent, Flags
  <2>5. \A y \in Handle : tor'[y].life = T[y].life /\ tor'[y].hash = T[y].hash
    <3> HIDE DEF T
    <3>1. tor' = [T EXCEPT ![x].flags = @ \ {"paused"}]
      BY <2>3 DEF T
    <3> QED
      BY <3>1, <2>4 DEF Torrent
  <2>6. HandleOf(h)' = x /\ \A g \in Hash : g # h => torrents'[g] = torrents[g] /\ pending'[g] = pending[g]
    BY <2>2, <2>3, <2>4 DEF HandleOf, Staged, TypeOK
  <2> HIDE DEF T
  <2> QED
    BY <2>2, <2>3, <2>5, <2>6, AddingOrphan DEF T
<1>6. CASE Finalize
  <2>1. PICK h \in Hash : h = Current.hash
    BY <1>6, CurrentType DEF Finalize
  <2> DEFINE x == HandleOf(h)
  <2>2. At("FinalizeMagnetPreview") /\ UNCHANGED <<alerts, popped, posted, phase>>
    BY <1>6 DEF Finalize, NextCommand
  <2>3. CASE ~Valid(x)
    <3>1. UNCHANGED <<tor, torrents, pending>>
      BY <1>6, <2>1, <2>3 DEF Finalize
    <3> QED
      BY <2>2, <3>1, CommandOrphan DEF HandleOf, Staged
  <2>4. CASE Valid(x)
    <3> DEFINE stg == [pending EXCEPT ![h] = NoHandle]
    <3>1. tor' = [tor EXCEPT ![x].flags = (@ \ {"upload_mode", "paused"}) \cup {"auto_managed"}] /\ x \in Handle
      BY <1>6, <2>1, <2>4 DEF Finalize, Valid
    <3>6. UpdateEntry(x, tor', torrents, stg) /\ x \in Handle
      BY <1>6, <2>1, <2>4 DEF Finalize, Valid
    <3>2. \A y \in Handle : tor'[y].life = tor[y].life /\ tor'[y].hash = tor[y].hash
      BY <3>1 DEF TypeOK, Torrent
    <3>3. tor' \in [Handle -> Torrent]
      <4>1. (tor[x].flags \ {"upload_mode", "paused"}) \cup {"auto_managed"} \in SUBSET Flags
        BY <3>1 DEF TypeOK, Torrent, Flags
      <4> QED
        BY <4>1, <3>1, FlagsType DEF TypeOK
    <3>4. /\ torrents \in [Hash -> Entry] /\ stg \in [Hash -> Handle \cup {NoHandle}]
          /\ \A g \in Hash : g # h => stg[g] = pending[g]
      BY DEF TypeOK
    <3>5. HandleOf(h) = x
      OBVIOUS
    <3> HIDE DEF stg, x
    <3> QED
      BY <2>2, <3>2, <3>3, <3>4, <3>5, <3>6, RefreshingOrphan
  <2> QED
    BY <2>3, <2>4
<1>7. CASE Cancel
  <2>1. PICK h \in Hash : h = Current.hash
    BY <1>7, CurrentType DEF Cancel
  <2>2. /\ At("CancelMagnetPreview") /\ UNCHANGED <<tor, alerts, popped, phase, torrents>>
        /\ pending' = [pending EXCEPT ![h] = NoHandle]
        /\ posted' = IF Valid(pending[h]) THEN Append(posted, pending[h]) ELSE posted
    BY <1>7, <2>1 DEF Cancel, NextCommand
  <2>3. \A g \in Hash : g # h => torrents'[g] = torrents[g] /\ pending'[g] = pending[g]
    BY <2>2 DEF TypeOK
  <2>4. CASE Valid(pending[h])
    <3>1. pending[h] \in Handle /\ Held(h, pending[h]) /\ HandleOf(h) = pending[h] /\ posted' = Append(posted, pending[h])
      BY <2>2, <2>4 DEF Valid, Held, HandleOf, Staged
    <3> QED
      BY <2>2, <2>3, <3>1, PostingOrphan
  <2>5. CASE ~Valid(pending[h])
    <3>1. ASSUME NEW y \in Handle, Life(y) = "live", HandleOf(tor[y].hash) = y PROVE HandleOf(tor[y].hash)' = y
      <4>1. tor[y].hash \in Hash /\ tor'[y].hash = tor[y].hash
        BY <2>2 DEF TypeOK, Torrent
      <4>2. CASE tor[y].hash = h
        <5>1. pending[h] = NoHandle /\ torrents[h].handle = y
          BY <2>5, <3>1, <4>2 DEF HandleOf, Staged, Valid, Life
        <5> QED
          BY <2>2, <4>1, <4>2, <5>1 DEF HandleOf, Staged, TypeOK
      <4>3. CASE tor[y].hash # h
        BY <2>3, <3>1, <4>1, <4>3 DEF HandleOf, Staged
      <4> QED
        BY <4>2, <4>3
    <3> QED
      BY <2>2, <2>5, <3>1, CommandOrphan
  <2> QED
    BY <2>4, <2>5
<1>8. CASE Add
  <2>1. PICK h \in Hash : h = Current.hash
    BY <1>8, CurrentType DEF Add
  <2>2. At("Add") /\ Drained /\ UNCHANGED <<popped, phase, posted>>
    BY <1>8 DEF Add, NextCommand
  <2>3. torrents \in [Hash -> Entry] /\ pending \in [Hash -> Handle \cup {NoHandle}] /\ tor \in [Handle -> Torrent]
    BY DEF TypeOK
  <2>4. CASE Valid(HandleOf(h))
    <3>1. UpdateEntry(HandleOf(h), tor, torrents, pending) /\ UNCHANGED <<tor, alerts>> /\ HandleOf(h) \in Handle
      BY <1>8, <2>1, <2>4 DEF Add, Valid
    <3> QED
      BY <2>2, <2>3, <3>1, RefreshingOrphan
  <2>5. CASE ~Valid(HandleOf(h))
    <3>1. PICK x \in AddResult(h) :
            /\ tor' = Added(h, x, {"paused", "auto_managed"})
            /\ Post("added", x)
            /\ UpdateEntry(x, tor', torrents, pending)
      BY <1>8, <2>1, <2>5 DEF Add
    <3>2. x \in Handle /\ tor'[x].life = "live" /\ tor'[x].hash = h
      BY <3>1, AddedIsLive
    <3>3. tor' \in [Handle -> Torrent]
      BY <3>1 DEF AddResult, Added, TypeOK, Torrent, Flags
    <3>4. HandleOf(h)' = x /\ \A g \in Hash : g # h => torrents'[g] = torrents[g] /\ pending'[g] = pending[g]
      BY <2>3, <3>1, <3>2, <3>3, UpdateEntryFinds
    <3> QED
      BY <2>2, <3>1, <3>4, AddingOrphan
  <2> QED
    BY <2>4, <2>5
<1> QED
  BY <1>1, <1>2, <1>3, <1>4, <1>5, <1>6, <1>7, <1>8 DEF FirstPass

\* An operation on the torrent a key finds keeps the invariant.
LEMMA OperateOrphan ==
    ASSUME TypeOK, GhostInv, OrphanInv, NEW ty, At(ty),
           NEW h \in Hash, NEW x \in Handle, HandleOf(h) = x,
           NEW t \in Torrent, t.life = tor[x].life, t.hash = tor[x].hash,
           NEW lib \in [Hash -> Entry], \A g \in Hash : lib[g].handle = torrents[g].handle,
           Operate(x, t, lib)
    PROVE  OrphanInv'
<1>1. tor' = [tor EXCEPT ![x] = t] /\ UNCHANGED <<alerts, popped, posted, phase>> /\ UpdateEntry(x, tor', lib, pending)
  BY DEF Operate, NextCommand
<1>2. tor' \in [Handle -> Torrent] /\ pending \in [Hash -> Handle \cup {NoHandle}]
  BY <1>1 DEF TypeOK
<1>3. \A y \in Handle : tor'[y].life = tor[y].life /\ tor'[y].hash = tor[y].hash
  BY <1>1 DEF TypeOK
<1>4. \A g \in Hash : g # h => lib[g].handle = torrents[g].handle /\ pending[g] = pending[g]
  OBVIOUS
<1> QED
  BY <1>1, <1>2, <1>3, <1>4, RefreshingOrphan

\* Torrent operations keep the invariant.
LEMMA SecondPassOrphan == TypeOK /\ GhostInv /\ OrphanInv /\ SecondPass => OrphanInv'
<1> SUFFICES ASSUME TypeOK, GhostInv, OrphanInv, SecondPass PROVE OrphanInv'
  OBVIOUS
<1>1. PICK h : h = Current.hash
  OBVIOUS
<1>2. PICK x : x = HandleOf(h)
  OBVIOUS
<1>3. ASSUME NEW ty, OpFound(ty)
      PROVE  /\ At(ty) /\ h \in Hash /\ x \in Handle
             /\ tor[x] \in Torrent /\ torrents \in [Hash -> Entry]
  BY <1>1, <1>2, <1>3, CurrentType DEF OpFound, Valid, TypeOK
<1>4. CASE OpNotFound \/ AdjustRefused \/ SeedingOpRefused
  <2>1. UNCHANGED <<tor, alerts, popped, posted, phase, torrents, pending>>
    BY <1>4 DEF OpNotFound, AdjustRefused, SeedingOpRefused, NextCommand, ltVars
  <2> QED
    BY <2>1, KeepsOrphanInv DEF Life, HandleOf, Staged
<1>5. CASE Pause
  <2> DEFINE t == [tor[x] EXCEPT !.flags = (@ \ {"auto_managed"}) \cup {"paused"}]
  <2>1. OpFound("Pause") /\ Operate(x, t, WithStopped(h, FALSE))
    BY <1>5, <1>1, <1>2 DEF Pause
  <2>2. t \in Torrent /\ t.life = tor[x].life /\ t.hash = tor[x].hash
    BY <2>1, <1>3 DEF Torrent, Flags
  <2> HIDE DEF t
  <2> QED
    BY <2>1, <2>2, <1>2, <1>3, WithStoppedType, WithStoppedHandles, OperateOrphan
<1>6. CASE ResumeTorrent
  <2> DEFINE t == [tor[x] EXCEPT !.flags = (@ \ {"paused"}) \cup {"auto_managed"}, !.limited = @ /\ ~Listed(h)]
  <2>1. OpFound("Resume") /\ Operate(x, t, WithStopped(h, FALSE))
    BY <1>6, <1>1, <1>2 DEF ResumeTorrent
  <2>2. t \in Torrent /\ t.life = tor[x].life /\ t.hash = tor[x].hash
    BY <2>1, <1>3 DEF Torrent, Flags
  <2> HIDE DEF t
  <2> QED
    BY <2>1, <2>2, <1>2, <1>3, WithStoppedType, WithStoppedHandles, OperateOrphan
<1>7. CASE StopSeeding
  <2> DEFINE t == [tor[x] EXCEPT !.limited = TRUE]
  <2>1. OpFound("StopSeeding") /\ Operate(x, t, WithStopped(h, TRUE))
    BY <1>7, <1>1, <1>2 DEF StopSeeding
  <2>2. t \in Torrent /\ t.life = tor[x].life /\ t.hash = tor[x].hash
    BY <2>1, <1>3 DEF Torrent
  <2> HIDE DEF t
  <2> QED
    BY <2>1, <2>2, <1>2, <1>3, WithStoppedType, WithStoppedHandles, OperateOrphan
<1>8. CASE ResumeSeeding
  <2> DEFINE t == [tor[x] EXCEPT !.limited = FALSE]
  <2>1. OpFound("ResumeSeeding") /\ Operate(x, t, WithStopped(h, FALSE))
    BY <1>8, <1>1, <1>2 DEF ResumeSeeding
  <2>2. t \in Torrent /\ t.life = tor[x].life /\ t.hash = tor[x].hash
    BY <2>1, <1>3 DEF Torrent
  <2> HIDE DEF t
  <2> QED
    BY <2>1, <2>2, <1>2, <1>3, WithStoppedType, WithStoppedHandles, OperateOrphan
<1>9. CASE ForceRecheck
  <2> DEFINE t == [tor[x] EXCEPT !.complete = FALSE]
  <2>1. OpFound("ForceRecheck") /\ Operate(x, t, torrents)
    BY <1>9, <1>1, <1>2 DEF ForceRecheck
  <2>2. t \in Torrent /\ t.life = tor[x].life /\ t.hash = tor[x].hash
    BY <2>1, <1>3 DEF Torrent
  <2> HIDE DEF t
  <2> QED
    BY <2>1, <2>2, <1>2, <1>3, OperateOrphan
<1>10. CASE Adjust
  <2>1. OpFound("Adjust") /\ Operate(x, tor[x], torrents)
    BY <1>10, <1>1, <1>2 DEF Adjust
  <2> QED
    BY <2>1, <1>2, <1>3, OperateOrphan
<1>11. CASE Remove
  <2>1. /\ At("Remove") /\ UNCHANGED <<tor, alerts, popped, phase, pending>>
        /\ Valid(x) /\ posted' = Append(posted, x)
        /\ torrents' = [torrents EXCEPT ![h] = NoEntry]
    BY <1>11, <1>1, <1>2 DEF Remove, NextCommand
  <2>2. h \in Hash /\ x \in Handle
    BY <1>1, <2>1, CurrentType DEF Valid
  <2>3. Held(h, x) /\ \A g \in Hash : g # h => torrents'[g] = torrents[g] /\ pending'[g] = pending[g]
    BY <1>2, <2>1, <2>2, FoundIsHeld DEF TypeOK
  <2> QED
    BY <1>2, <2>1, <2>2, <2>3, PostingOrphan
<1> QED
  BY <1>4, <1>5, <1>6, <1>7, <1>8, <1>9, <1>10, <1>11 DEF SecondPass

\* The alerts left after the first say of a torrent what they said before, unless the first was
\* its added alert.
LEMMA HandledOrphan ==
    ASSUME TypeOK, OrphanInv, HandlingAlert, popped' = Tail(popped), UNCHANGED <<tor, alerts, posted, phase>>,
           \A x \in Handle : Staying(x) /\ HandleOf(tor[x].hash) = x => HandleOf(tor[x].hash)' = x \/ AddedAmong(popped', x),
           \A x \in Handle : Staying(x) /\ x = popped[1].handle /\ popped[1].type = "added" => HandleOf(tor[x].hash)' = x
    PROVE  OrphanInv'
<1>1. phase' # "off" /\ UniqueLive'
  BY DEF HandlingAlert, In, OrphanInv, UniqueLive, Life
<1>2. RemovedIsDead'
  BY TailAlerts DEF OrphanInv, RemovedIsDead, Life
<1>3. ASSUME NEW x \in Handle, Staying(x)' PROVE Reached(x)'
  <2>1. Staying(x) /\ Reached(x)
    BY <1>3 DEF Staying, RemovalPosted, Life, OrphanInv
  <2>2. (HandleOf(tor[x].hash) = x \/ AddedAmong(popped, x))'
    <3>1. CASE HandleOf(tor[x].hash) = x
      BY <2>1, <3>1 DEF AddedAmong
    <3>2. CASE AddedAmong(popped, x)
      <4>1. PICK j \in DOMAIN popped : popped[j].type = "added" /\ popped[j].handle = x
        BY <3>2 DEF AddedAmong
      <4>2. CASE j = 1
        BY <2>1, <4>1, <4>2
      <4>3. CASE j # 1
        <5>1. j - 1 \in DOMAIN popped' /\ popped'[j - 1] = popped[j]
          BY <4>3, TailAlerts
        <5> QED
          BY <4>1, <5>1 DEF AddedAmong
      <4> QED
        BY <4>2, <4>3
    <3> QED
      BY <2>1, <3>1, <3>2 DEF Reached
  <2>3. HasLastWord(popped, x)'
    <3> SUFFICES ASSUME NEW i \in DOMAIN popped', popped'[i].handle # x, tor[popped'[i].handle].hash = tor[x].hash
                 PROVE  \E j \in DOMAIN popped' : j > i /\ popped'[j].type = "added" /\ popped'[j].handle = x
      BY DEF HasLastWord
    <3>1. i \in Nat /\ i + 1 \in DOMAIN popped /\ popped'[i] = popped[i + 1]
      BY TailAlerts
    <3>2. PICK j \in DOMAIN popped : j > i + 1 /\ popped[j].type = "added" /\ popped[j].handle = x
      BY <2>1, <3>1 DEF Reached, HasLastWord
    <3>3. j \in Nat /\ j # 1
      BY <3>1, <3>2 DEF TypeOK
    <3>4. j - 1 \in DOMAIN popped' /\ popped'[j - 1] = popped[j] /\ j - 1 > i
      BY <3>1, <3>2, <3>3, TailAlerts
    <3> QED
      BY <3>2, <3>4
  <2>4. HasLastWord(alerts, x)' /\ (\A i \in DOMAIN posted : tor[posted[i]].hash # tor[x].hash)'
    BY <2>1 DEF Reached, HasLastWord
  <2> QED
    BY <2>2, <2>3, <2>4 DEF Reached
<1> QED
  BY <1>1, <1>2, <1>3 DEF OrphanInv

\* Popping and handling alerts, the refresh of all snapshots, the failures of the worker and its exit
\* keep the invariant.
LEMMA PumpOrphan == TypeOK /\ GhostInv /\ OrphanInv /\ (Pump \/ HandleThrows \/ WorkerExits) => OrphanInv'
<1> SUFFICES ASSUME TypeOK, GhostInv, OrphanInv, Pump \/ HandleThrows \/ WorkerExits PROVE OrphanInv'
  OBVIOUS
<1>1. CASE PopAlerts
  <2>1. /\ popped = <<>> /\ popped' = alerts /\ alerts' = <<>> /\ phase' = "alerts"
        /\ UNCHANGED <<tor, torrents, pending, posted>>
    BY <1>1 DEF PopAlerts, In, engineVars, GhostInv, PumpOnlyInAlerts
  <2>2. UniqueLive' /\ RemovedIsDead'
    BY <2>1 DEF OrphanInv, UniqueLive, RemovedIsDead, Life
  <2>3. ASSUME NEW x \in Handle, Staying(x)' PROVE Reached(x)'
    <3>1. Staying(x) /\ Reached(x)
      BY <2>1, <2>3 DEF Staying, RemovalPosted, Life, OrphanInv
    <3>2. (HandleOf(tor[x].hash) = x)'
      BY <2>1, <3>1 DEF Reached, AddedAmong, HandleOf, Staged
    <3>3. HasLastWord(popped, x)' /\ HasLastWord(alerts, x)'
      BY <2>1, <3>1 DEF Reached, HasLastWord
    <3> QED
      BY <2>1, <3>1, <3>2, <3>3 DEF Reached
  <2> QED
    BY <2>1, <2>2, <2>3 DEF OrphanInv
<1>2. CASE HandleRemoved
  <2> DEFINE z == popped[1].handle
  <2> DEFINE k == tor[z].hash
  <2>1. /\ HandlingAlert /\ popped' = Tail(popped) /\ UNCHANGED <<tor, alerts, posted, phase>>
        /\ 1 \in DOMAIN popped /\ popped[1].type = "removed" /\ z \in Handle
    BY <1>2, TailAlerts DEF HandleRemoved, ltVars
  <2>2. /\ torrents' = [torrents EXCEPT ![k] = NoEntry]
        /\ pending' = [pending EXCEPT ![k] = NoHandle]
    BY <1>2, <2>1, TailAlerts DEF HandleRemoved, Forget
  <2>3. Life(z) # "live"
    BY <2>1 DEF OrphanInv, RemovedIsDead
  <2>4. ASSUME NEW x \in Handle, Staying(x), HandleOf(tor[x].hash) = x
        PROVE  HandleOf(tor[x].hash)' = x \/ AddedAmong(popped', x)
    <3>1. CASE tor[x].hash = k
      <4>1. PICK j \in DOMAIN popped : j > 1 /\ popped[j].type = "added" /\ popped[j].handle = x
        <5>1. z # x /\ HasLastWord(popped, x)
          BY <2>3, <2>4 DEF Staying, OrphanInv, Reached
        <5> QED
          BY <2>1, <3>1, <5>1 DEF HasLastWord
      <4>2. j # 1
        BY <4>1, <2>1
      <4>3. j - 1 \in DOMAIN popped' /\ popped'[j - 1] = popped[j]
        BY <2>1, <4>2, TailAlerts
      <4> QED
        BY <4>1, <4>3 DEF AddedAmong
    <3>2. CASE tor[x].hash # k
      <4>1. tor[x].hash \in Hash /\ tor'[x].hash = tor[x].hash
        BY <2>1 DEF TypeOK, Torrent
      <4> QED
        BY <2>2, <2>4, <3>2, <4>1 DEF HandleOf, Staged, TypeOK
    <3> QED
      BY <3>1, <3>2
  <2> QED
    BY <2>1, <2>4, HandledOrphan
<1>3. CASE HandleUpdate
  <2> DEFINE z == popped[1].handle
  <2>1. /\ HandlingAlert /\ popped' = Tail(popped) /\ UNCHANGED <<tor, alerts, posted, phase>>
        /\ 1 \in DOMAIN popped /\ z \in Handle /\ UpdateEntry(z, tor, torrents, pending)
    BY <1>3, TailAlerts DEF HandleUpdate, ltVars
  <2>2. /\ \A h \in Hash : h = tor[z].hash /\ tor[z].life = "live" => HandleOf(h)' = z
        /\ \A g \in Hash : g # tor[z].hash => torrents'[g] = torrents[g] /\ pending'[g] = pending[g]
    <3>1. tor \in [Handle -> Torrent] /\ torrents \in [Hash -> Entry] /\ pending \in [Hash -> Handle \cup {NoHandle}]
      BY DEF TypeOK
    <3> HIDE DEF z
    <3> QED
      BY <2>1, <3>1, UpdateEntryFinds
  <2>3. ASSUME NEW x \in Handle PROVE tor[x].hash \in Hash /\ tor'[x].hash = tor[x].hash
    BY <2>1 DEF TypeOK, Torrent
  <2>4. ASSUME NEW x \in Handle, Staying(x), x = z PROVE HandleOf(tor[x].hash)' = x
    BY <2>2, <2>3, <2>4 DEF Staying, Life
  <2>5. ASSUME NEW x \in Handle, Staying(x), x # z, HandleOf(tor[x].hash) = x
        PROVE  HandleOf(tor[x].hash)' = x \/ AddedAmong(popped', x)
    <3>1. CASE tor[x].hash = tor[z].hash
      <4>1. PICK j \in DOMAIN popped : j > 1 /\ popped[j].type = "added" /\ popped[j].handle = x
        <5>1. HasLastWord(popped, x)
          BY <2>5 DEF OrphanInv, Reached
        <5> QED
          BY <2>1, <2>5, <3>1, <5>1 DEF HasLastWord
      <4>2. j # 1
        BY <4>1, <2>1
      <4>3. j - 1 \in DOMAIN popped' /\ popped'[j - 1] = popped[j]
        BY <2>1, <4>2, TailAlerts
      <4> QED
        BY <4>1, <4>3 DEF AddedAmong
    <3>2. CASE tor[x].hash # tor[z].hash
      BY <2>2, <2>3, <2>5, <3>2 DEF HandleOf, Staged
    <3> QED
      BY <3>1, <3>2
  <2> QED
    BY <2>1, <2>4, <2>5, HandledOrphan
<1>4. CASE RefreshAll
  <2>1. /\ phase' = "sleep" /\ UNCHANGED <<tor, alerts, popped, posted, pending>>
        /\ torrents' = [h \in Hash |->
              IF Valid(torrents[h].handle)
              THEN [torrents[h] EXCEPT !.state = SnapshotState(tor[torrents[h].handle]), !.shown_stopped = FALSE]
              ELSE torrents[h]]
    BY <1>4 DEF RefreshAll, ltVars
  <2>2. \A h \in Hash : torrents'[h].handle = torrents[h].handle
    BY <2>1 DEF TypeOK, Entry
  <2>3. \A x \in Handle : tor[x].hash \in Hash
    BY DEF TypeOK, Torrent
  <2>4. phase' = "sleep" /\ UNCHANGED <<tor, alerts, popped, posted, pending>>
    BY <2>1
  <2> QED
    BY <2>2, <2>3, <2>4, KeepsOrphanInv DEF Life, HandleOf, Staged
<1>5. CASE HandleThrows \/ WorkerExits
  <2>1. UNCHANGED <<tor, alerts, popped, posted, torrents, pending>> /\ (phase' = "off" => phase = "off")
    BY <1>5 DEF HandleThrows, WorkerExits, engineVars, ltVars
  <2> QED
    BY <2>1, KeepsOrphanInv DEF Life, HandleOf, Staged
<1> QED
  BY <1>1, <1>2, <1>3, <1>4, <1>5 DEF Pump

\* An alert about y appended to the queue takes the last word from no torrent of another hash, nor
\* from y itself.
LEMMA AppendedAlert ==
    ASSUME TypeOK, NEW a \in Alert, alerts' = Append(alerts, a), NEW x \in Handle,
           \A y \in Handle : tor'[y].hash = tor[y].hash,
           HasLastWord(alerts, x), a.handle = x \/ tor[a.handle].hash # tor[x].hash
    PROVE  HasLastWord(alerts, x)'
<1>1. alerts \in Seq(Alert)
  BY DEF TypeOK
<1>2. /\ \A i \in DOMAIN alerts : i \in DOMAIN alerts' /\ alerts'[i] = alerts[i] /\ alerts[i] \in Alert
      /\ \A i \in DOMAIN alerts' : i \in DOMAIN alerts \/ alerts'[i] = a
  BY <1>1
<1>3. a.handle \in Handle /\ \A i \in DOMAIN alerts : alerts[i].handle \in Handle
  BY <1>2 DEF Alert
<1> QED
  BY <1>2, <1>3 DEF HasLastWord

\* Removing and destroying torrents and libtorrent's own events keep the invariant.
LEMMA LibtorrentOrphan == TypeOK /\ GhostInv /\ OrphanInv /\ Libtorrent => OrphanInv'
<1> SUFFICES ASSUME TypeOK, GhostInv, OrphanInv, Libtorrent PROVE OrphanInv'
  OBVIOUS
<1>1. UNCHANGED <<popped, phase, torrents, pending>>
  BY DEF Libtorrent, RunRemoval, DestroyTorrent, TorrentFinishes, TorrentReports, Event, AutoManage, batchVars, engineVars
<1>2. /\ \A i \in DOMAIN popped : popped[i].handle \in Handle
      /\ \A i \in DOMAIN alerts : alerts[i].handle \in Handle
      /\ alerts \in Seq(Alert)
  <2>1. /\ \A i \in DOMAIN popped : popped[i] \in Alert
        /\ \A i \in DOMAIN alerts : alerts[i] \in Alert
        /\ alerts \in Seq(Alert)
    BY DEF TypeOK
  <2> QED
    BY <2>1 DEF Alert
<1>3. ASSUME RunRemoval PROVE OrphanInv'
  <2> DEFINE y == Head(posted)
  <2>1. posted \in Seq(Handle) /\ posted # <<>> /\ posted' = Tail(posted) /\ phase # "off"
    BY <1>3 DEF RunRemoval, SessionUp, TypeOK
  <2>2. /\ y \in Handle /\ 1 \in DOMAIN posted /\ y = posted[1]
        /\ \A i \in DOMAIN posted' : i + 1 \in DOMAIN posted /\ posted'[i] = posted[i + 1]
        /\ \A i \in DOMAIN posted : i # 1 => i - 1 \in DOMAIN posted' /\ posted'[i - 1] = posted[i]
    BY <2>1
  <2>3. /\ \A x \in Handle : tor'[x].hash = tor[x].hash /\ (x # y => tor'[x].life = tor[x].life)
        /\ tor'[y].life # "live"
        /\ \/ alerts' = alerts
           \/ alerts' = Append(alerts, [type |-> "removed", handle |-> y])
    <3>1. CASE Valid(y)
      <4>1. tor' = [tor EXCEPT ![y] = [tor[y] EXCEPT !.life = "dying"]]
            /\ alerts' = Append(alerts, [type |-> "removed", handle |-> y])
        BY <1>3, <3>1 DEF RunRemoval, Post
      <4>2. [tor[y] EXCEPT !.life = "dying"].life = "dying" /\ [tor[y] EXCEPT !.life = "dying"].hash = tor[y].hash
        BY <2>2 DEF TypeOK, Torrent
      <4> DEFINE t == [tor[y] EXCEPT !.life = "dying"]
      <4> HIDE DEF t
      <4>3. tor' = [tor EXCEPT ![y] = t] /\ t.life = "dying" /\ t.hash = tor[y].hash
        BY <4>1, <4>2 DEF t
      <4> HIDE DEF y
      <4>4. alerts' = Append(alerts, [type |-> "removed", handle |-> y])
        BY <4>1
      <4> QED
        BY <2>2, <4>3, <4>4 DEF TypeOK
    <3>2. CASE ~Valid(y)
      BY <1>3, <2>2, <3>2 DEF RunRemoval, Valid
    <3> QED
      BY <3>1, <3>2
  <2>4. [type |-> "removed", handle |-> y] \in Alert /\ [type |-> "removed", handle |-> y].handle = y
    BY <2>2 DEF Alert
  <2> HIDE DEF y
  <2>5. UniqueLive'
    BY <2>3 DEF OrphanInv, UniqueLive, Life
  <2>6. RemovedIsDead'
    <3>1. \A i \in DOMAIN alerts' : (i \in DOMAIN alerts /\ alerts'[i] = alerts[i]) \/ alerts'[i].handle = y
      BY <1>2, <2>3, <2>4
    <3> QED
      BY <1>1, <1>2, <2>2, <2>3, <3>1 DEF OrphanInv, RemovedIsDead, Life
  <2>7. ASSUME NEW x \in Handle, Staying(x)' PROVE Reached(x)'
    <3>1. x # y /\ Life(x) = "live" /\ ~RemovalPosted(x)'
      BY <2>3, <2>7 DEF Staying, Life
    <3>2. ~RemovalPosted(x)
      <4> SUFFICES ASSUME NEW i \in DOMAIN posted, posted[i] = x PROVE RemovalPosted(x)'
        BY <3>1 DEF RemovalPosted
      <4>1. i # 1
        BY <2>2, <3>1
      <4> QED
        BY <2>2, <4>1 DEF RemovalPosted
    <3>3. Reached(x)
      BY <3>1, <3>2 DEF OrphanInv, Staying
    <3>4. (HandleOf(tor[x].hash) = x \/ AddedAmong(popped, x))'
      BY <1>1, <2>3, <3>3 DEF Reached, AddedAmong, HandleOf, Staged
    <3>5. HasLastWord(popped, x)'
      BY <1>1, <1>2, <2>3, <3>3 DEF Reached, HasLastWord
    <3>6. HasLastWord(alerts, x)'
      <4>1. tor[y].hash # tor[x].hash
        BY <2>2, <3>3 DEF Reached
      <4>2. CASE alerts' = alerts
        BY <1>2, <2>3, <3>3, <4>2 DEF Reached, HasLastWord
      <4>3. CASE alerts' = Append(alerts, [type |-> "removed", handle |-> y])
        <5>1. HasLastWord(alerts, x)
          BY <3>3 DEF Reached
        <5> QED
          BY <2>3, <2>4, <4>1, <4>3, <5>1, AppendedAlert
      <4> QED
        BY <2>3, <4>2, <4>3
    <3>7. (\A i \in DOMAIN posted : tor[posted[i]].hash # tor[x].hash)'
      <4>1. \A i \in DOMAIN posted : posted[i] \in Handle
        BY <2>1
      <4> QED
        BY <2>2, <2>3, <3>3, <4>1 DEF Reached
    <3> QED
      BY <3>4, <3>5, <3>6, <3>7 DEF Reached
  <2> QED
    BY <1>1, <2>1, <2>5, <2>6, <2>7 DEF OrphanInv
<1>4. ASSUME NEW x \in Handle, DestroyTorrent(x) PROVE OrphanInv'
  <2>1. tor' = [tor EXCEPT ![x].life = "gone"] /\ UNCHANGED <<alerts, posted>>
    BY <1>4 DEF DestroyTorrent
  <2>2. \A y \in Handle : tor'[y].hash = tor[y].hash /\ (Life(y)' = "live" => Life(y) = "live")
    BY <2>1 DEF Life, TypeOK, Torrent
  <2> QED
    BY <1>1, <2>1, <2>2, KeepsOrphanInv DEF HandleOf, Staged
<1>5. ASSUME NEW x \in Handle, NEW t \in Torrent, NEW type \in {"update", "error"}, Event(x, t, type),
             t.life = tor[x].life, t.hash = tor[x].hash
      PROVE  OrphanInv'
  <2> DEFINE a == [type |-> type, handle |-> x]
  <2>1. tor[x].life = "live" /\ tor' = [tor EXCEPT ![x] = t] /\ alerts' = Append(alerts, a) /\ posted' = posted
    BY <1>5 DEF Event, Post
  <2>2. \A y \in Handle : tor'[y].hash = tor[y].hash /\ tor'[y].life = tor[y].life
    BY <1>5, <2>1 DEF TypeOK
  <2>3. a \in Alert /\ a.handle = x /\ a.type # "removed"
    BY DEF Alert
  <2> HIDE DEF a
  <2>4. UniqueLive'
    BY <2>2 DEF OrphanInv, UniqueLive, Life
  <2>5. RemovedIsDead'
    <3>1. \A i \in DOMAIN alerts' : (i \in DOMAIN alerts /\ alerts'[i] = alerts[i]) \/ alerts'[i] = a
      BY <1>2, <2>1
    <3> QED
      BY <1>1, <1>2, <2>2, <2>3, <3>1 DEF OrphanInv, RemovedIsDead, Life
  <2>6. ASSUME NEW y \in Handle, Staying(y)' PROVE Reached(y)'
    <3>1. Staying(y) /\ Reached(y)
      BY <2>1, <2>2, <2>6 DEF Staying, RemovalPosted, Life, OrphanInv
    <3>2. (HandleOf(tor[y].hash) = y \/ AddedAmong(popped, y))'
      BY <1>1, <2>2, <3>1 DEF Reached, AddedAmong, HandleOf, Staged
    <3>3. HasLastWord(popped, y)'
      BY <1>1, <1>2, <2>2, <3>1 DEF Reached, HasLastWord
    <3>4. HasLastWord(alerts, y)'
      <4>1. HasLastWord(alerts, y) /\ (x = y \/ tor[x].hash # tor[y].hash)
        BY <2>1, <3>1 DEF Reached, Staying, OrphanInv, UniqueLive, Life
      <4> QED
        BY <2>1, <2>2, <2>3, <4>1, AppendedAlert
    <3>5. (\A i \in DOMAIN posted : tor[posted[i]].hash # tor[y].hash)'
      <4>1. \A i \in DOMAIN posted : posted[i] \in Handle
        BY DEF TypeOK
      <4> QED
        BY <2>1, <2>2, <3>1, <4>1 DEF Reached
    <3> QED
      BY <3>2, <3>3, <3>4, <3>5 DEF Reached
  <2> QED
    BY <1>1, <2>1, <2>4, <2>5, <2>6 DEF OrphanInv
<1>6. ASSUME NEW x \in Handle, TorrentFinishes(x) \/ TorrentReports(x) PROVE OrphanInv'
  <2> DEFINE t == [tor[x] EXCEPT !.complete = TRUE]
  <2>1. tor[x] \in Torrent /\ t \in Torrent /\ t.life = tor[x].life /\ t.hash = tor[x].hash
    BY DEF TypeOK, Torrent
  <2> QED
    BY <1>5, <1>6, <2>1 DEF TorrentFinishes, TorrentReports
<1>7. ASSUME NEW x \in Handle, AutoManage(x) PROVE OrphanInv'
  <2> DEFINE f == IF "paused" \in tor[x].flags THEN tor[x].flags \ {"paused"} ELSE tor[x].flags \cup {"paused"}
  <2>1. tor' = [tor EXCEPT ![x].flags = f] /\ UNCHANGED <<alerts, posted>>
    BY <1>7 DEF AutoManage
  <2>2. \A y \in Handle : tor'[y].hash = tor[y].hash /\ Life(y)' = Life(y)
    <3> HIDE DEF f
    <3> QED
      BY <2>1 DEF Life, TypeOK, Torrent
  <2> QED
    BY <1>1, <2>1, <2>2, KeepsOrphanInv DEF HandleOf, Staged
<1> QED
  BY <1>3, <1>4, <1>6, <1>7 DEF Libtorrent

\* With no torrent in the session there is none to lose.
LEMMA EmptyOrphan ==
    (\A x \in Handle : Life(x) # "live") /\ posted = <<>> /\ popped = <<>> /\ alerts = <<>> => OrphanInv
  BY DEF OrphanInv, UniqueLive, RemovedIsDead, Staying

\* Saving, the end of a process and the start of the next keep the invariant.
LEMMA LifecycleOrphan == TypeOK /\ GhostInv /\ OrphanInv /\ Lifecycle => OrphanInv'
<1> SUFFICES ASSUME TypeOK, GhostInv, OrphanInv, Lifecycle PROVE OrphanInv'
  OBVIOUS
<1>1. ASSUME NEW h \in Hash, SaveResume(h) \/ SaveFails(h) PROVE OrphanInv'
  <2>1. UNCHANGED <<tor, alerts, popped, posted, phase, torrents, pending>>
    BY <1>1 DEF SaveResume, SaveFails, batchVars, engineVars, ltVars
  <2> QED
    BY <2>1, KeepsOrphanInv DEF Life, HandleOf, Staged
<1>2. CASE FinishShutdown \/ Crash
  <2>1. /\ tor' = [x \in Handle |-> Unused] /\ posted' = <<>> /\ popped' = <<>> /\ alerts' = <<>>
    BY <1>2 DEF FinishShutdown, Crash, ProcessEnds
  <2>2. \A x \in Handle : tor'[x].life # "live"
    BY <2>1 DEF Unused
  <2> QED
    BY <2>1, <2>2 DEF OrphanInv, UniqueLive, RemovedIsDead, Staying, Life
<1>3. CASE Start
  <2>1. PICK order \in {s \in [1 .. Cardinality(Restorable) -> Restorable] : Injective(s)},
             new \in {f \in [Restorable -> Handle] : Injective(f)} :
           /\ tor' = [x \in Handle |->
                IF \E h \in Restorable : new[h] = x
                THEN LET h == CHOOSE g \in Restorable : new[g] = x
                     IN  [life |-> "live", hash |-> h, flags |-> files[h].flags \cup {"auto_managed"},
                          complete |-> files[h].complete, limited |-> files[h].limited]
                ELSE Unused]
           /\ torrents' = [h \in Hash |->
                IF h \in Restorable THEN Refreshed(NoEntry, new[h], tor'[new[h]]) ELSE NoEntry]
           /\ alerts' = [i \in DOMAIN order |-> [type |-> "added", handle |-> new[order[i]]]]
    BY <1>3 DEF Start
  <2>2. popped' = <<>> /\ posted' = <<>> /\ phase' = "sleep" /\ \A h \in Hash : pending'[h] = NoHandle
    BY <1>3 DEF Start, GhostInv, PumpOnlyInAlerts, OrphanInv
  <2>3. ASSUME NEW h \in Restorable PROVE new[h] \in Handle /\ tor'[new[h]].life = "live" /\ tor'[new[h]].hash = h
    <3>1. new[h] \in Handle /\ \A g \in Restorable : new[g] = new[h] => g = h
      BY DEF Injective
    <3>2. (CHOOSE g \in Restorable : new[g] = new[h]) = h
      BY <3>1
    <3> QED
      BY <2>1, <3>1, <3>2
  <2>4. ASSUME NEW x \in Handle, tor'[x].life = "live"
        PROVE  tor'[x].hash \in Restorable /\ x = new[tor'[x].hash]
    <3>1. PICK h \in Restorable : new[h] = x
      BY <2>1, <2>4 DEF Unused
    <3> QED
      BY <2>3, <3>1
  <2>5. \A i \in DOMAIN alerts' : order[i] \in Restorable /\ alerts'[i].handle = new[order[i]] /\ alerts'[i].type = "added"
    BY <2>1
  <2>6. UniqueLive'
    BY <2>4 DEF UniqueLive, Life
  <2>7. RemovedIsDead'
    BY <2>2, <2>5 DEF RemovedIsDead
  <2>8. ASSUME NEW x \in Handle, Staying(x)' PROVE Reached(x)'
    <3>1. tor'[x].life = "live" /\ tor'[x].hash \in Restorable /\ x = new[tor'[x].hash]
      BY <2>4, <2>8 DEF Staying, Life
    <3>2. (HandleOf(tor[x].hash) = x)'
      <4>1. tor'[x].hash \in Hash
        BY <3>1 DEF Restorable
      <4> QED
        BY <2>1, <2>2, <3>1, <4>1 DEF HandleOf, Staged, Refreshed
    <3>3. HasLastWord(alerts, x)'
      <4> SUFFICES ASSUME NEW i \in DOMAIN alerts', tor'[alerts'[i].handle].hash = tor'[x].hash
                   PROVE  alerts'[i].handle = x
        BY DEF HasLastWord
      <4> QED
        BY <2>3, <2>5, <3>1
    <3>4. HasLastWord(popped, x)'
      BY <2>2 DEF HasLastWord
    <3> QED
      BY <2>2, <3>2, <3>3, <3>4 DEF Reached
  <2> QED
    BY <2>2, <2>6, <2>7, <2>8 DEF OrphanInv
<1> QED
  BY <1>1, <1>2, <1>3 DEF Lifecycle

\* The strengthened invariant holds in every run.
LEMMA OrphanInvariant == Spec => []OrphanInv
<1>1. Init => OrphanInv
  <2> SUFFICES ASSUME Init PROVE OrphanInv
    OBVIOUS
  <2>1. \A x \in Handle : Life(x) # "live"
    BY DEF Init, Unused, Life
  <2> QED
    BY <2>1, EmptyOrphan DEF Init
<1>2. TypeOK /\ GhostInv /\ OrphanInv /\ [Next]_vars => OrphanInv'
  <2>1. ASSUME TypeOK, OrphanInv, UNCHANGED vars PROVE OrphanInv'
    <3>1. UNCHANGED <<tor, alerts, popped, posted, phase, torrents, pending>>
      BY <2>1 DEF vars, batchVars, engineVars, ltVars
    <3> QED
      BY <2>1, <3>1, KeepsOrphanInv DEF Life, HandleOf, Staged
  <2> QED
    BY <2>1, ClientOrphan, FirstPassOrphan, SecondPassOrphan, PumpOrphan, LibtorrentOrphan, LifecycleOrphan DEF Next, Worker
<1> QED
  BY <1>1, <1>2, TypeCorrect, GhostInvariant, PTL DEF Spec

\* No torrent of the session is lost to the client: it is listed or staged, or its removal is posted,
\* or the added alert that lists it is on its way, however stale removed alerts erase its key meanwhile
\* (pump_alerts_once, lines 664-670).
THEOREM NoOrphanHolds == Spec => []NoOrphan
<1>1. OrphanInv => NoOrphan
  <2> SUFFICES ASSUME OrphanInv, NEW x \in Handle, Life(x) = "live", ~RemovalPosted(x)
               PROVE  torrents[tor[x].hash].handle = x \/ pending[tor[x].hash] = x \/ AddedInFlight(x)
    BY DEF NoOrphan
  <2>1. HandleOf(tor[x].hash) = x \/ AddedAmong(popped, x)
    BY DEF OrphanInv, Staying, Reached
  <2> QED
    BY <2>1 DEF HandleOf, AddedAmong, AddedInFlight
<1> QED
  BY <1>1, OrphanInvariant, PTL

=============================================================================
