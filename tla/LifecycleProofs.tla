-------------------------- MODULE LifecycleProofs ---------------------------
(***************************************************************************)
(* AddPreview implements PreviewLifecycle, for every number of torrents,   *)
(* previews and added torrents, and a command queue of any length.         *)
(*                                                                         *)
(* The hard case is a poll that finds a ready preview without files: the   *)
(* dialog falls back to loading.  It may only happen when the torrent was  *)
(* begun twice, and its files answered the first time.  So the invariant   *)
(* counts the ways a torrent can have been begun: staged, queued, queued   *)
(* again, and answered.                                                    *)
(*                                                                         *)
(* Two more theorems follow an accepted torrent: it stays in the session   *)
(* until its Finalize runs, and in the library from then on.               *)
(***************************************************************************)
EXTENDS AddPreviewProofs, AddPreviewLifecycle

Queued(q, h) == \E i \in 1 .. Len(q) : Begins(q[i], h)

Twice(q, h) == \E i, j \in 1 .. Len(q) : i < j /\ Begins(q[i], h) /\ Begins(q[j], h)

\* The previews of a torrent that are staged or queued were begun, each by itself.
Counted(s, q, b) ==
    \A h \in Hash :
        /\ Queued(q, h) \/ s[h] # "no" => b[h] >= 1
        /\ Twice(q, h) \/ (Queued(q, h) /\ s[h] # "no") => b[h] >= 2

\* A preview was answered, and may be polled again.
Answered == status = "ready" /\ (polling \/ checks > 0)

AnsweredOnce == Answered /\ (Queued(commands, hash) \/ staged[hash] = "bare") => begun[hash] >= 2

\* Only torrents of the session whose metadata is known are staged with files.
FilesAreKnown == \A h \in Hash : staged[h] = "files" => h \in live /\ h \in known

LifeInv ==
    /\ Counted(staged, commands, begun)
    /\ AnsweredOnce
    /\ FilesAreKnown
    /\ ui = "beginning" => status = "loading"
    /\ status = "idle" => hash = NoHash

\* A command that begins nothing adds to no count.
LEMMA QueuedAppend ==
    ASSUME NEW q \in Seq(Command), NEW c \in Command, c.type # "Begin", NEW h
    PROVE  /\ Queued(Append(q, c), h) <=> Queued(q, h)
           /\ Twice(Append(q, c), h) <=> Twice(q, h)
  BY DEF Queued, Twice, Begins

\* A Begin counts once more for its torrent.
LEMMA QueuedBegin ==
    ASSUME NEW q \in Seq(Command), NEW g \in Hash, NEW c \in Command, Begins(c, g), NEW h \in Hash
    PROVE  /\ Queued(Append(q, c), h) => Queued(q, h) \/ h = g
           /\ Twice(Append(q, c), h) => Twice(q, h) \/ (h = g /\ Queued(q, h))
<1>1. \A i \in 1 .. Len(q) : Append(q, c)[i] = q[i]
  OBVIOUS
<1>2. Append(q, c)[Len(q) + 1] = c /\ Len(Append(q, c)) = Len(q) + 1 /\ Len(q) \in Nat
  OBVIOUS
<1> QED
  BY <1>1, <1>2 DEF Queued, Twice, Begins

\* Consuming the first command takes it off the count.
LEMMA QueuedTail ==
    ASSUME NEW q \in Seq(Command), q # <<>>, NEW h
    PROVE  /\ Queued(Tail(q), h) => Queued(q, h)
           /\ Twice(Tail(q), h) => Twice(q, h)
           /\ Begins(Head(q), h) => Queued(q, h)
           /\ Begins(Head(q), h) /\ Queued(Tail(q), h) => Twice(q, h)
<1>1. /\ Len(Tail(q)) = Len(q) - 1 /\ Len(q) \in Nat /\ Len(q) >= 1 /\ Head(q) = q[1]
      /\ \A i \in 1 .. Len(q) - 1 : Tail(q)[i] = q[i + 1]
  OBVIOUS
<1> DEFINE t == Tail(q)
<1> HIDE DEF t
<1>2. Queued(t, h) => Queued(q, h)
  BY <1>1 DEF Queued, t
<1>3. Twice(t, h) => Twice(q, h)
  <2> SUFFICES ASSUME NEW i \in 1 .. Len(q) - 1, NEW j \in 1 .. Len(q) - 1, i < j, Begins(t[i], h), Begins(t[j], h)
               PROVE  Twice(q, h)
    BY <1>1 DEF Twice, t
  <2>1. i + 1 \in 1 .. Len(q) /\ j + 1 \in 1 .. Len(q) /\ i + 1 < j + 1 /\ Begins(q[i + 1], h) /\ Begins(q[j + 1], h)
    BY <1>1 DEF t
  <2> QED
    BY <2>1 DEF Twice
<1>4. Begins(Head(q), h) => Queued(q, h)
  BY <1>1 DEF Queued
<1>5. Begins(Head(q), h) /\ Queued(t, h) => Twice(q, h)
  <2> SUFFICES ASSUME Begins(Head(q), h), NEW i \in 1 .. Len(q) - 1, Begins(t[i], h) PROVE Twice(q, h)
    BY <1>1 DEF Queued, t
  <2>1. i + 1 \in 1 .. Len(q) /\ 1 \in 1 .. Len(q) /\ 1 < i + 1 /\ Begins(q[1], h) /\ Begins(q[i + 1], h)
    BY <1>1 DEF t
  <2> QED
    BY <2>1 DEF Twice
<1> QED
  BY <1>2, <1>3, <1>4, <1>5 DEF t

-----------------------------------------------------------------------------
(* What the dialogs and the timers do *)

\* A queue in which no torrent is begun more often is counted just as well.
LEMMA FewerQueued ==
    ASSUME NEW s, NEW b, NEW q, NEW r, Counted(s, q, b),
           \A h \in Hash : (Queued(r, h) => Queued(q, h)) /\ (Twice(r, h) => Twice(q, h))
    PROVE  Counted(s, r, b)
  BY DEF Counted

\* Cancelling the current preview begins nothing.
LEMMA CancelQueued ==
    ASSUME TypeOK, NEW q \in Seq(Command), NEW h
    PROVE  /\ CancelCurrent(q) \in Seq(Command)
           /\ Queued(CancelCurrent(q), h) <=> Queued(q, h)
           /\ Twice(CancelCurrent(q), h) <=> Twice(q, h)
<1>1. CASE hash = NoHash
  BY <1>1 DEF CancelCurrent
<1>2. CASE hash # NoHash
  <2>1. Cmd("Cancel", hash, 0) \in Command /\ Cmd("Cancel", hash, 0).type # "Begin"
    BY <1>2, LoadsAssumption DEF TypeOK, Id, Cmd, Command
  <2> QED
    BY <1>2, <2>1, QueuedAppend DEF CancelCurrent
<1> QED
  BY <1>1, <1>2

\* A step that leaves the engine's maps alone, queues no preview and shows none that is ready.
LEMMA NothingShown ==
    ASSUME LifeInv, UNCHANGED <<staged, live, known, begun>>,
           \A h \in Hash : (Queued(commands', h) => Queued(commands, h)) /\ (Twice(commands', h) => Twice(commands, h)),
           ui' # "beginning", status' = "idle" => hash' = NoHash,
           status' # "ready" \/ (~polling' /\ checks' = 0)
    PROVE  LifeInv'
<1>1. Counted(staged, commands', begun)
  BY FewerQueued DEF LifeInv
<1>2. Counted(staged, commands, begun)'
  BY <1>1
<1>3. AnsweredOnce' /\ FilesAreKnown'
  BY DEF LifeInv, AnsweredOnce, Answered, FilesAreKnown
<1> QED
  BY <1>2, <1>3 DEF LifeInv

\* Loading a link.
LEMMA LoadLife ==
    ASSUME TypeInv, LifeInv, NEW h \in Hash, Load(h), ui = "free", UNCHANGED <<staged, live, known, accepted>>
    PROVE  LifeInv' /\ [Lifecycle!Next]_(Lifecycle!vars)
<1>0. TypeOK /\ commands \in Seq(Command)
  BY DEF TypeInv, TypeOK
<1>1. CASE LoadRefused
  <2>1. LifeInv'
    BY <1>1, NothingShown DEF LoadRefused
  <2>2. Lifecycle!Fail
    BY <1>1 DEF LoadRefused, Lifecycle!Fail
  <2> QED
    BY <2>1, <2>2 DEF Lifecycle!Next
<1>2. CASE LoadFails
  <2>1. \A g \in Hash : (Queued(commands', g) => Queued(commands, g)) /\ (Twice(commands', g) => Twice(commands, g))
    BY <1>0, <1>2, CancelQueued DEF LoadFails, Clear
  <2>2. LifeInv'
    BY <1>2, <2>1, NothingShown DEF LoadFails, Clear, Forget
  <2>3. Lifecycle!Drop
    BY <1>2 DEF LoadFails, Clear, Forget, Lifecycle!Drop
  <2> QED
    BY <2>2, <2>3 DEF Lifecycle!Next
<1>3. CASE LoadBegins(h)
  <2> DEFINE c == Cmd("Begin", h, loads + 1)
  <2>1. /\ commands' = Append(CancelCurrent(commands), c) /\ begun' = [begun EXCEPT ![h] = @ + 1]
        /\ status' = "loading" /\ hash' = h /\ files' = NoHash /\ ui' = "beginning"
    BY <1>3 DEF LoadBegins
  <2>2. c \in Command /\ Begins(c, h)
    BY <1>3, LoadsAssumption DEF LoadBegins, Cmd, Command, Begins, TypeInv, TypeOK
  <2> HIDE DEF c
  <2>3. ASSUME NEW g \in Hash
        PROVE  /\ Queued(commands', g) => Queued(commands, g) \/ g = h
               /\ Twice(commands', g) => Twice(commands, g) \/ (g = h /\ Queued(commands, g))
    BY <1>0, <2>1, <2>2, CancelQueued, QueuedBegin
  <2>4. \A g \in Hash : begun[g] \in Nat /\ begun'[g] = IF g = h THEN begun[g] + 1 ELSE begun[g]
    BY <1>0, <2>1, LoadsAssumption DEF TypeOK
  <2>5. Counted(staged, commands', begun')
    BY <2>3, <2>4 DEF LifeInv, Counted
  <2>6. Counted(staged, commands, begun)'
    BY <2>5
  <2>7. LifeInv'
    BY <2>1, <2>6 DEF LifeInv, AnsweredOnce, Answered, FilesAreKnown
  <2>8. Lifecycle!Show(h)
    BY <2>1 DEF Lifecycle!Show
  <2> QED
    BY <2>7, <2>8 DEF Lifecycle!Next
<1> QED
  BY <1>1, <1>2, <1>3 DEF Load

\* Polling a preview: it waits, is answered, or, when its torrent was begun before, waits again.
LEMMA PollLife ==
    ASSUME TypeInv, LifeInv, PollPreview, ui = "free", polling \/ checks > 0,
           checks' = checks \/ (checks > 0 /\ checks' = checks - 1),
           ui' # "beginning", UNCHANGED <<commands, staged, live, known, begun, accepted>>
    PROVE  LifeInv' /\ [Lifecycle!Next]_(Lifecycle!vars)
<1>0. hash \in Id /\ checks \in Nat /\ (polling' => polling) /\ hash' = hash
  BY DEF PollPreview, TypeInv, TypeOK, previewVars
<1>1. status' = "idle" => hash' = NoHash
  BY DEF PollPreview, LifeInv, previewVars
<1>2. Counted(staged, commands, begun)' /\ FilesAreKnown'
  BY DEF LifeInv, FilesAreKnown
<1>3. AnsweredOnce'
  <2> SUFFICES ASSUME status' = "ready", polling' \/ checks' > 0, Queued(commands, hash) \/ staged[hash] = "bare"
               PROVE  begun[hash] >= 2
    BY <1>0 DEF AnsweredOnce, Answered
  <2>1. CASE status = "ready"
    BY <1>0, <2>1 DEF LifeInv, AnsweredOnce, Answered
  <2>2. CASE status # "ready"
    <3>1. hash \in Hash /\ staged[hash] = "files"
      BY <1>0, <2>2 DEF PollPreview, Id, previewVars
    <3> QED
      BY <3>1 DEF LifeInv, Counted
  <2> QED
    BY <2>1, <2>2
<1>4. LifeInv'
  BY <1>1, <1>2, <1>3 DEF LifeInv
<1>5. CASE hash = NoHash \/ ~Staged(hash)
  BY <1>4, <1>5 DEF PollPreview, Staged, previewVars, Lifecycle!vars
<1>6. CASE hash # NoHash /\ staged[hash] = "bare"
  <2>1. status' = "loading" /\ files' = NoHash
    BY <1>6 DEF PollPreview, Staged
  <2>2. status \in {"loading", "ready", "error"}
    BY <1>6 DEF LifeInv, TypeInv, TypeOK
  <2>3. CASE status = "loading"
    BY <1>4, <1>0, <2>1, <2>3 DEF TypeInv, FilesOfShown, Lifecycle!vars
  <2>4. CASE status = "error"
    BY <1>4, <1>0, <1>6, <2>1, <2>4 DEF Lifecycle!Wait, Lifecycle!Next
  <2>5. CASE status = "ready"
    <3>1. begun[hash] > 1
      BY <1>0, <1>6, <2>5, LoadsAssumption DEF LifeInv, AnsweredOnce, Answered, TypeInv, TypeOK, Id
    <3> QED
      BY <1>4, <1>0, <1>6, <2>1, <2>5, <3>1 DEF Lifecycle!Wait, Lifecycle!Next
  <2> QED
    BY <2>2, <2>3, <2>4, <2>5
<1>7. CASE hash # NoHash /\ staged[hash] = "files"
  <2>1. status' = "ready" /\ files' = hash
    BY <1>7 DEF PollPreview, Staged
  <2>2. CASE status = "ready"
    BY <1>4, <1>0, <2>1, <2>2 DEF TypeInv, FilesOfShown, Lifecycle!vars
  <2>3. CASE status # "ready"
    <3>1. status \in {"loading", "error"}
      BY <1>7, <2>3 DEF LifeInv, TypeInv, TypeOK
    <3> QED
      BY <1>4, <1>0, <1>7, <2>1, <3>1 DEF Lifecycle!Answer, Lifecycle!Next
  <2> QED
    BY <2>2, <2>3
<1>8. hash # NoHash => staged[hash] \in {"no", "bare", "files"}
  BY <1>0 DEF TypeInv, TypeOK, Id
<1> QED
  BY <1>4, <1>5, <1>6, <1>7, <1>8 DEF Staged

\* The dialogs follow the life cycle.
LEMMA UserLife == TypeInv /\ LifeInv /\ User => LifeInv' /\ [Lifecycle!Next]_(Lifecycle!vars)
<1> SUFFICES ASSUME TypeInv, LifeInv, User PROVE LifeInv' /\ [Lifecycle!Next]_(Lifecycle!vars)
  OBVIOUS
<1> USE DEF dialogVars, previewVars, roundVars, engineVars, ltVars, historyVars
<1>0. TypeOK /\ commands \in Seq(Command) /\ checks \in Nat
  BY DEF TypeInv, TypeOK
<1>1. CASE OpenMagnet
  <2>1. CASE field = NoHash /\ UNCHANGED <<debounce, ui, previewVars, commands, loads, begun, spoiled>>
    <3>1. UNCHANGED <<ui, status, hash, files, polling, checks, commands, staged, live, known, begun, accepted>>
      BY <1>1, <2>1 DEF OpenMagnet
    <3>2. LifeInv'
      BY <3>1 DEF LifeInv, AnsweredOnce, Answered, FilesAreKnown
    <3> QED
      BY <3>1, <3>2 DEF Lifecycle!vars
  <2>2. CASE field # NoHash /\ debounce' \in {debounce, TRUE} /\ Load(field)
    <3>1. field \in Hash
      BY <2>2 DEF TypeInv, TypeOK, Id
    <3>2. ui = "free" /\ UNCHANGED <<staged, live, known, accepted>>
      BY <1>1 DEF OpenMagnet, FreeIn
    <3> QED
      BY <2>2, <3>1, <3>2, LoadLife
  <2> QED
    BY <1>1, <2>1, <2>2 DEF OpenMagnet
<1>2. CASE Submit
  <2>1. hash \in Hash /\ files = hash
    BY <1>2 DEF Submit, TypeInv, TypeOK, FilesOfShown, Id
  <2>2. Cmd("Finalize", hash, 0) \in Command /\ Cmd("Finalize", hash, 0).type # "Begin"
    BY <2>1, LoadsAssumption DEF Cmd, Command
  <2>3. \A h \in Hash : (Queued(commands', h) => Queued(commands, h)) /\ (Twice(commands', h) => Twice(commands, h))
    BY <1>0, <1>2, <2>2, QueuedAppend DEF Submit, Accept
  <2>4. LifeInv'
    BY <1>2, <2>3, NothingShown DEF Submit, Accept, Forget, FreeIn
  <2>5. Lifecycle!Accept
    BY <1>2, <2>1 DEF Submit, Accept, Forget, Lifecycle!Accept
  <2> QED
    BY <2>4, <2>5 DEF Lifecycle!Next
<1>3. CASE SubmitRefused \/ Close
  <2>1. \A h \in Hash : (Queued(commands', h) => Queued(commands, h)) /\ (Twice(commands', h) => Twice(commands, h))
    BY <1>0, <1>3, CancelQueued DEF SubmitRefused, Close, Clear
  <2>2. LifeInv'
    BY <1>3, <2>1, NothingShown DEF SubmitRefused, Close, Clear, Forget, FreeIn
  <2>3. Lifecycle!Drop
    BY <1>3 DEF SubmitRefused, Close, Clear, Forget, Lifecycle!Drop
  <2> QED
    BY <2>2, <2>3 DEF Lifecycle!Next
<1>4. ASSUME NEW h \in Hash, OpenFile(h) PROVE LifeInv' /\ [Lifecycle!Next]_(Lifecycle!vars)
  <2>1. \A g \in Hash : (Queued(commands', g) => Queued(commands, g)) /\ (Twice(commands', g) => Twice(commands, g))
    BY <1>0, <1>4, CancelQueued DEF OpenFile
  <2>2. LifeInv'
    BY <1>4, <2>1, NothingShown DEF OpenFile, FreeIn
  <2>3. Lifecycle!Drop \/ Lifecycle!ShowFile(h)
    BY <1>4 DEF OpenFile, Lifecycle!Drop, Lifecycle!ShowFile
  <2> QED
    BY <2>2, <2>3 DEF Lifecycle!Next
<1>5. CASE SubmitFile
  <2>1. hash \in Hash
    BY <1>5 DEF SubmitFile, TypeInv, TypeOK, FilesOfShown, Id
  <2>2. Cmd("Add", hash, 0) \in Command /\ Cmd("Add", hash, 0).type # "Begin"
    BY <2>1, LoadsAssumption DEF Cmd, Command
  <2>3. Append(commands, Cmd("Add", hash, 0)) \in Seq(Command)
    BY <1>0, <2>2
  <2>4. \A h \in Hash : (Queued(commands', h) => Queued(commands, h)) /\ (Twice(commands', h) => Twice(commands, h))
    BY <1>0, <1>5, <2>2, <2>3, QueuedAppend, CancelQueued DEF SubmitFile
  <2>5. LifeInv'
    BY <1>5, <2>4, NothingShown DEF SubmitFile, Forget, FreeIn
  <2>6. Lifecycle!Drop
    BY <1>5 DEF SubmitFile, Forget, Lifecycle!Drop
  <2> QED
    BY <2>5, <2>6 DEF Lifecycle!Next
<1>6. ASSUME NEW h \in Hash, AddDirect(h) PROVE LifeInv' /\ [Lifecycle!Next]_(Lifecycle!vars)
  <2>1. Cmd("Add", h, 0) \in Command /\ Cmd("Add", h, 0).type # "Begin"
    BY LoadsAssumption DEF Cmd, Command
  <2>2. \A g \in Hash : (Queued(commands', g) => Queued(commands, g)) /\ (Twice(commands', g) => Twice(commands, g))
    BY <1>0, <1>6, <2>1, QueuedAppend DEF AddDirect
  <2>3. UNCHANGED <<ui, status, hash, files, polling, checks, staged, live, known, begun, accepted>> /\ hash \in Id
    BY <1>6 DEF AddDirect, TypeInv, TypeOK
  <2>4. Counted(staged, commands', begun)
    BY <2>2, FewerQueued DEF LifeInv
  <2>5. AnsweredOnce'
    BY <2>2, <2>3 DEF LifeInv, AnsweredOnce, Answered, TypeInv, FilesOfShown, Id
  <2>6. Counted(staged, commands, begun)' /\ FilesAreKnown'
    BY <2>3, <2>4 DEF LifeInv, FilesAreKnown
  <2> QED
    BY <2>3, <2>5, <2>6 DEF LifeInv, Lifecycle!vars
<1>7. ASSUME NEW u \in Id, Edit(u) PROVE LifeInv' /\ [Lifecycle!Next]_(Lifecycle!vars)
  <2>1. UNCHANGED <<ui, status, hash, files, polling, checks, commands, staged, live, known, begun, accepted>>
    BY <1>7 DEF Edit
  <2>2. LifeInv'
    BY <2>1 DEF LifeInv, AnsweredOnce, Answered, FilesAreKnown
  <2> QED
    BY <2>1, <2>2 DEF Lifecycle!vars
<1> QED
  BY <1>1, <1>2, <1>3, <1>4, <1>5, <1>6, <1>7 DEF User

\* The timers and what follows them follow the life cycle.
LEMMA TimerLife == TypeInv /\ LifeInv /\ (Timers \/ Continuations) => LifeInv' /\ [Lifecycle!Next]_(Lifecycle!vars)
<1> SUFFICES ASSUME TypeInv, LifeInv, Timers \/ Continuations PROVE LifeInv' /\ [Lifecycle!Next]_(Lifecycle!vars)
  OBVIOUS
<1> USE DEF dialogVars, previewVars, roundVars, engineVars, ltVars, historyVars
<1>0. checks \in Nat
  BY DEF TypeInv, TypeOK
<1>1. CASE DebounceFires
  <2>1. CASE field = NoHash /\ UNCHANGED <<ui, previewVars, commands, loads, begun, spoiled>>
    <3>1. UNCHANGED <<ui, status, hash, files, polling, checks, commands, staged, live, known, begun, accepted>>
      BY <1>1, <2>1 DEF DebounceFires
    <3>2. LifeInv'
      BY <3>1 DEF LifeInv, AnsweredOnce, Answered, FilesAreKnown
    <3> QED
      BY <3>1, <3>2 DEF Lifecycle!vars
  <2>2. CASE field # NoHash /\ Load(field)
    <3>1. field \in Hash
      BY <2>2 DEF TypeInv, TypeOK, Id
    <3>2. ui = "free" /\ UNCHANGED <<staged, live, known, accepted>>
      BY <1>1 DEF DebounceFires
    <3> QED
      BY <2>2, <3>1, <3>2, LoadLife
  <2> QED
    BY <1>1, <2>1, <2>2 DEF DebounceFires
<1>2. CASE PollTimer
  <2>1. PollPreview /\ ui = "free" /\ polling /\ UNCHANGED <<ui, checks, commands, staged, live, known, begun, accepted>>
    BY <1>2 DEF PollTimer
  <2> QED
    BY <2>1, PollLife
<1>3. CASE CheckPolls
  <2>1. /\ PollPreview /\ ui = "free" /\ ui' # "beginning" /\ checks > 0 /\ checks' = checks - 1
        /\ UNCHANGED <<commands, staged, live, known, begun, accepted>>
    BY <1>3 DEF CheckPolls
  <2> QED
    BY <2>1, PollLife
<1>4. CASE ResultCheck \/ CheckReads
  <2>1. UNCHANGED <<status, hash, files, polling, checks, commands, staged, live, known, begun, accepted>> /\ ui' # "beginning"
    BY <1>4 DEF ResultCheck, CheckReads, uiVars
  <2>2. LifeInv'
    BY <2>1 DEF LifeInv, AnsweredOnce, Answered, FilesAreKnown
  <2> QED
    BY <2>1, <2>2 DEF Lifecycle!vars
<1>5. CASE TimeoutFires \/ CheckTakesError
  <2>1. /\ UNCHANGED <<hash, files, checks, commands, staged, live, known, begun, accepted>>
        /\ ui' # "beginning"
        /\ status' = "error" \/ (status' = status /\ polling' = polling)
    BY <1>5 DEF TimeoutFires, CheckTakesError
  <2>2. LifeInv'
    BY <2>1 DEF LifeInv, AnsweredOnce, Answered, FilesAreKnown
  <2>3. Lifecycle!Fail \/ UNCHANGED Lifecycle!vars
    BY <2>1 DEF Lifecycle!Fail, Lifecycle!vars
  <2> QED
    BY <2>2, <2>3 DEF Lifecycle!Next
<1>6. CASE BeginReturns
  <2>1. UNCHANGED <<status, hash, files, commands, staged, live, known, begun, accepted>> /\ ui' # "beginning" /\ status = "loading"
    BY <1>6 DEF BeginReturns, LifeInv
  <2>2. LifeInv'
    BY <2>1 DEF LifeInv, AnsweredOnce, Answered, FilesAreKnown
  <2> QED
    BY <2>1, <2>2 DEF Lifecycle!vars
<1> QED
  BY <1>1, <1>2, <1>3, <1>4, <1>5, <1>6 DEF Timers, Continuations

-----------------------------------------------------------------------------
(* What the engine does *)

\* A round of the worker that consumes no Begin keeps the counts, as long as it stages nothing.
LEMMA EngineKeeps ==
    ASSUME LifeInv, UNCHANGED <<ui, status, hash, files, polling, checks, begun, accepted>>, hash \in Id, status = "ready" => hash # NoHash,
           \A h \in Hash : (Queued(commands', h) => Queued(commands, h)) /\ (Twice(commands', h) => Twice(commands, h)),
           \A h \in Hash : staged'[h] # "no" => staged[h] # "no",
           \A h \in Hash : staged'[h] = "bare" => staged[h] = "bare",
           \A h \in Hash : staged'[h] = "files" => h \in live' /\ h \in known'
    PROVE  LifeInv' /\ UNCHANGED Lifecycle!vars
<1>1. Counted(staged', commands', begun)
  BY FewerQueued DEF LifeInv, Counted
<1>2. Counted(staged, commands, begun)'
  BY <1>1
<1>3. AnsweredOnce'
  BY DEF LifeInv, AnsweredOnce, Answered, Id
<1>4. FilesAreKnown'
  BY DEF FilesAreKnown
<1> QED
  BY <1>2, <1>3, <1>4 DEF LifeInv, Lifecycle!vars

\* Consuming a Begin turns a queued preview into a staged one, or into none.
LEMMA BeginRuns ==
    ASSUME TypeInv, LifeInv, UNCHANGED <<ui, status, hash, files, polling, checks, begun, accepted>>,
           commands # <<>>, commands' = Tail(commands), NEW h \in Hash, Begins(Head(commands), h),
           staged' \in [Hash -> {"no", "bare", "files"}],
           \A g \in Hash \ {h} : staged'[g] = staged[g],
           live \subseteq live', known' = known,
           staged'[h] = staged[h] \/ staged'[h] = "bare" \/ (staged'[h] = "files" /\ h \in live' /\ h \in known)
    PROVE  LifeInv' /\ UNCHANGED Lifecycle!vars
<1>0. commands \in Seq(Command) /\ hash \in Id /\ (status = "ready" => hash # NoHash)
  BY DEF TypeInv, TypeOK, FilesOfShown
<1> DEFINE q == commands'
<1>1. ASSUME NEW g \in Hash
      PROVE  /\ Queued(q, g) => Queued(commands, g)
             /\ Twice(q, g) => Twice(commands, g)
             /\ Begins(Head(commands), g) => Queued(commands, g)
             /\ Begins(Head(commands), g) /\ Queued(q, g) => Twice(commands, g)
  BY <1>0, QueuedTail
<1> HIDE DEF q
<1>2. Counted(staged', q, begun)
  BY <1>1 DEF LifeInv, Counted
<1>3. Counted(staged, commands, begun)'
  BY <1>2 DEF q
<1>4. AnsweredOnce'
  <2> SUFFICES ASSUME Answered, Queued(q, hash) \/ staged'[hash] = "bare", hash \in Hash PROVE begun[hash] >= 2
    BY <1>0 DEF AnsweredOnce, Answered, q, Id
  <2>1. CASE hash = h
    BY <1>1, <2>1 DEF LifeInv, AnsweredOnce
  <2>2. CASE hash # h
    BY <1>1, <2>2 DEF LifeInv, AnsweredOnce
  <2> QED
    BY <2>1, <2>2
<1>5. FilesAreKnown'
  BY DEF LifeInv, FilesAreKnown
<1> QED
  BY <1>3, <1>4, <1>5 DEF LifeInv, Lifecycle!vars

\* The engine changes nothing the dialogs show, and keeps the counts.
LEMMA EngineLife == TypeInv /\ LifeInv /\ (Worker \/ Environment) => LifeInv' /\ UNCHANGED Lifecycle!vars
<1> SUFFICES ASSUME TypeInv, LifeInv, Worker \/ Environment PROVE LifeInv' /\ UNCHANGED Lifecycle!vars
  OBVIOUS
<1> USE DEF uiVars, dialogVars, previewVars, roundVars, engineVars, ltVars, historyVars
<1>0. /\ commands \in Seq(Command) /\ hash \in Id /\ (status = "ready" => hash # NoHash)
      /\ staged \in [Hash -> {"no", "bare", "files"}] /\ batch \in 0 .. Len(commands)
  BY DEF TypeInv, TypeOK, FilesOfShown
<1>1. ASSUME commands # <<>>, commands' = Tail(commands), NEW h \in Hash
      PROVE  (Queued(commands', h) => Queued(commands, h)) /\ (Twice(commands', h) => Twice(commands, h))
  BY <1>0, <1>1, QueuedTail
<1>2. ASSUME batch > 0 PROVE commands # <<>> /\ Current \in Hash /\ Head(commands).hash = Current
  <2>1. commands # <<>>
    BY <1>0, <1>2
  <2>2. Head(commands) \in Command
    BY <1>0, <2>1
  <2> QED
    BY <2>1, <2>2 DEF Command, Current
<1>3. ASSUME Worker \/ Environment PROVE UNCHANGED <<ui, status, hash, files, polling, checks, begun, accepted>>
  BY <1>3 DEF Worker, Environment, TakeBatch, BeginFails, BeginReusesListed, BeginAdds, Finalize, Cancel, AddKnown, AddNew,
              PopAlerts, HandleAdded, HandleRemoved, RefreshAll, EngineError, MetadataArrives
<1>4. CASE BeginFails \/ BeginReusesListed \/ BeginAdds
  <2>1. commands # <<>> /\ commands' = Tail(commands) /\ Current \in Hash /\ Begins(Head(commands), Current)
    BY <1>2, <1>4 DEF BeginFails, BeginReusesListed, BeginAdds, At, NextCommand, Begins
  <2>2. PICK h \in Hash : h = Current
    BY <2>1
  <2>3. live \subseteq live' /\ known' = known
    BY <1>4 DEF BeginFails, BeginReusesListed, BeginAdds, AddTorrent
  <2>4. staged' = staged \/ (staged' = [staged EXCEPT ![h] = IF h \in live' /\ h \in known THEN "files" ELSE "bare"])
    BY <1>4, <2>2 DEF BeginFails, BeginReusesListed, BeginAdds, Stage
  <2>5. /\ staged' \in [Hash -> {"no", "bare", "files"}]
        /\ \A g \in Hash \ {h} : staged'[g] = staged[g]
        /\ staged'[h] = staged[h] \/ staged'[h] = "bare" \/ (staged'[h] = "files" /\ h \in live' /\ h \in known)
    BY <1>0, <2>4
  <2> QED
    BY <1>3, <1>4, <2>1, <2>2, <2>3, <2>5, BeginRuns
<1>5. CASE Finalize \/ Cancel
  <2>1. commands # <<>> /\ commands' = Tail(commands) /\ Current \in Hash
    BY <1>2, <1>5 DEF Finalize, Cancel, At, NextCommand
  <2>2. PICK h \in Hash : h = Current
    BY <2>1
  <2>3. \/ staged' = staged /\ live' = live /\ known' = known
        \/ /\ staged' = [staged EXCEPT ![h] = "no"]
           /\ live \ {h} \subseteq live' /\ known \ {h} \subseteq known'
    BY <1>5, <2>2 DEF Finalize, Cancel, Unstage
  <2>4. /\ \A g \in Hash : staged'[g] # "no" => staged[g] # "no"
        /\ \A g \in Hash : staged'[g] = "bare" => staged[g] = "bare"
        /\ \A g \in Hash : staged'[g] = "files" => g \in live' /\ g \in known'
    BY <1>0, <2>3 DEF LifeInv, FilesAreKnown
  <2> QED
    BY <1>0, <1>1, <1>3, <1>5, <2>1, <2>4, EngineKeeps
<1>6. CASE AddKnown \/ AddNew \/ HandleAdded
  <2>1. commands' = commands \/ (commands # <<>> /\ commands' = Tail(commands))
    BY <1>2, <1>6 DEF AddKnown, AddNew, HandleAdded, At, NextCommand
  <2>2. live \subseteq live' /\ known' = known
    BY <1>6 DEF AddKnown, AddNew, HandleAdded, AddTorrent
  <2>3. \/ staged' = staged
        \/ \E h : Staged(h) /\ staged' = [staged EXCEPT ![h] = IF h \in live' /\ h \in known THEN "files" ELSE "bare"]
    BY <1>6 DEF AddKnown, AddNew, HandleAdded, Update, Stage
  <2>4. /\ \A g \in Hash : staged'[g] # "no" => staged[g] # "no"
        /\ \A g \in Hash : staged'[g] = "bare" => staged[g] = "bare"
        /\ \A g \in Hash : staged'[g] = "files" => g \in live' /\ g \in known'
    BY <1>0, <2>2, <2>3 DEF LifeInv, FilesAreKnown, Staged
  <2> QED
    BY <1>0, <1>1, <1>3, <1>6, <2>1, <2>4, EngineKeeps
<1>7. CASE TakeBatch \/ PopAlerts \/ HandleRemoved \/ RefreshAll \/ Environment
  <2>1. commands' = commands /\ live' = live /\ known \subseteq known'
    BY <1>7 DEF TakeBatch, PopAlerts, HandleRemoved, RefreshAll, Environment, EngineError, MetadataArrives
  <2>2. \A g \in Hash : \/ staged'[g] = staged[g]
                        \/ staged'[g] = "no"
                        \/ Staged(g) /\ g \in live /\ g \in known /\ staged'[g] = "files"
    BY <1>0, <1>7 DEF TakeBatch, PopAlerts, HandleRemoved, RefreshAll, Environment, EngineError, MetadataArrives, Unstage
  <2>3. /\ \A g \in Hash : staged'[g] # "no" => staged[g] # "no"
        /\ \A g \in Hash : staged'[g] = "bare" => staged[g] = "bare"
        /\ \A g \in Hash : staged'[g] = "files" => g \in live' /\ g \in known'
    BY <2>1, <2>2 DEF LifeInv, FilesAreKnown, Staged
  <2> QED
    BY <1>0, <1>3, <1>7, <2>1, <2>3, EngineKeeps
<1> QED
  BY <1>4, <1>5, <1>6, <1>7 DEF Worker

-----------------------------------------------------------------------------
(* The refinement *)

\* The program starts with no preview.
LEMMA LifeInit == Init => LifeInv /\ Lifecycle!Init
  BY DEF Init, LifeInv, Counted, Queued, Twice, AnsweredOnce, Answered, FilesAreKnown, Lifecycle!Init

\* Every step keeps the counts and follows the life cycle, or changes nothing of it.
LEMMA LifeNext == TypeInv /\ LifeInv /\ [Next]_vars => LifeInv' /\ [Lifecycle!Next]_(Lifecycle!vars)
<1>1. CASE UNCHANGED vars
  BY <1>1 DEF vars, uiVars, dialogVars, previewVars, engineVars, ltVars, historyVars, LifeInv, Counted, AnsweredOnce,
              Answered, FilesAreKnown, Lifecycle!vars
<1> QED
  BY <1>1, UserLife, TimerLife, EngineLife DEF Next

\* The dialogs keep what PreviewLifecycle promises about the preview they show (app_controller.cpp,
\* lines 700-974), with any number of loads, late answers, errors and timers.
THEOREM LifecycleImplemented == Spec => ImplementsLifecycle
  BY InitType, NextType, LifeInit, LifeNext, PTL DEF Spec, ImplementsLifecycle, Lifecycle!Spec

-----------------------------------------------------------------------------
(* What the session holds *)

AlertIs(i, type, h) == alerts[i].type = type /\ alerts[i].hash = h

\* The added alert of h is being handled in this round.
AddedPopped(h) == phase = "alerts" /\ \E i \in 1 .. popped : AlertIs(i, "added", h)

\* No removed alert of h is the last one about it.
AddedLast(h) ==
    \A i \in 1 .. Len(alerts) : AlertIs(i, "removed", h) =>
        \E j \in 1 .. Len(alerts) : j > i /\ AlertIs(j, "added", h)

\* Alerts are popped and handled in one phase of the round, and only removed alerts stay behind.
PoppedInRound ==
    /\ phase # "alerts" => popped = 0
    /\ phase = "alerts" => \A i \in 1 .. Len(alerts) : i > popped => alerts[i].type = "removed"

\* A torrent of the session is staged or listed, or will be by its added alert in this round; a
\* stale removed alert never comes last.
SessionInv ==
    /\ PoppedInRound
    /\ kept \subseteq live
    /\ \A h \in live : (Staged(h) \/ h \in listed \/ AddedPopped(h)) /\ AddedLast(h)

\* What leaves the round, the alerts and the staged and listed torrents alone leaves them found.
LEMMA SessionStays ==
    ASSUME SessionInv, UNCHANGED <<phase, listed, live, kept, alerts, popped>>,
           \A h \in live : Staged(h) => Staged(h)'
    PROVE  SessionInv'
<1>1. PoppedInRound' /\ kept' \subseteq live'
  BY DEF SessionInv, PoppedInRound
<1>2. ASSUME NEW h \in live' PROVE (Staged(h) \/ h \in listed \/ AddedPopped(h))' /\ AddedLast(h)'
  BY <1>2 DEF SessionInv, AddedPopped, AddedLast, AlertIs
<1> QED
  BY <1>1, <1>2 DEF SessionInv

\* A command about c leaves c staged or listed if it leaves it in the session.
LEMMA CommandSession ==
    ASSUME TypeOK, SessionInv, phase = "commands", UNCHANGED <<phase, popped>>, NEW c \in Hash,
           live' \subseteq Hash,
           \A h \in Hash \ {c} : /\ Staged(h) => Staged(h)'
                                 /\ h \in listed => h \in listed'
                                 /\ (h \in live' <=> h \in live),
           kept' \subseteq kept \cup {c}, c \in kept' => c \in live',
           c \in live' => Staged(c)' \/ c \in listed',
           \/ alerts' = alerts /\ (c \in live' => c \in live)
           \/ alerts' = Append(alerts, [type |-> "added", hash |-> c])
           \/ alerts' = Append(alerts, [type |-> "removed", hash |-> c]) /\ c \notin live'
    PROVE  SessionInv'
<1>0. alerts \in Seq(Alert) /\ live \subseteq Hash /\ Len(alerts) \in Nat /\ kept \subseteq Hash
  BY DEF TypeOK
<1>1. PoppedInRound'
  BY DEF SessionInv, PoppedInRound
<1>2. kept' \subseteq live'
  BY <1>0 DEF SessionInv
<1>3. ASSUME NEW h \in live' PROVE (Staged(h) \/ h \in listed \/ AddedPopped(h))'
  BY <1>3 DEF SessionInv, AddedPopped
<1>4. ASSUME NEW h \in live' PROVE AddedLast(h)'
  <2>1. CASE alerts' = alerts
    <3>1. h \in live
      BY <1>4, <2>1
    <3> QED
      BY <2>1, <3>1 DEF SessionInv, AddedLast, AlertIs
  <2>2. CASE \E a \in Alert : alerts' = Append(alerts, a) /\ a.hash = c /\ (a.type = "added" \/ c # h)
    <3>1. PICK a \in Alert : alerts' = Append(alerts, a) /\ a.hash = c /\ (a.type = "added" \/ c # h)
      BY <2>2
    <3>2. /\ Len(alerts') = Len(alerts) + 1 /\ alerts'[Len(alerts) + 1] = a
          /\ \A i \in 1 .. Len(alerts) : alerts'[i] = alerts[i]
      BY <1>0, <3>1
    <3>3. CASE c = h
      BY <1>0, <3>1, <3>2, <3>3 DEF AddedLast, AlertIs
    <3>4. CASE c # h
      <4>1. AddedLast(h)
        BY <1>4, <3>4 DEF SessionInv
      <4> QED
        BY <1>0, <3>1, <3>2, <3>4, <4>1 DEF AddedLast, AlertIs
    <3> QED
      BY <3>3, <3>4
  <2> QED
    <3>1. [type |-> "added", hash |-> c] \in Alert /\ [type |-> "removed", hash |-> c] \in Alert
      BY DEF Alert
    <3> QED
      BY <1>4, <2>1, <2>2, <3>1
<1> QED
  BY <1>1, <1>2, <1>3, <1>4 DEF SessionInv

\* The worker's commands keep the session found.
LEMMA CommandsSession ==
    ASSUME TypeInv, SessionInv,
           BeginFails \/ BeginReusesListed \/ BeginAdds \/ Finalize \/ Cancel \/ AddKnown \/ AddNew
    PROVE  SessionInv'
<1> USE DEF uiVars, dialogVars, previewVars, engineVars, ltVars, historyVars
<1>0. TypeOK /\ staged \in [Hash -> {"no", "bare", "files"}] /\ listed \subseteq Hash /\ live \subseteq Hash /\ kept \subseteq live
  BY DEF TypeInv, TypeOK, SessionInv
<1>1. phase = "commands" /\ Current \in Hash /\ UNCHANGED <<phase, popped>>
  BY <1>0, CurrentType DEF BeginFails, BeginReusesListed, BeginAdds, Finalize, Cancel, AddKnown, AddNew, At
<1>2. PICK c \in Hash : c = Current
  BY <1>1
<1>10. c \in live => Found(c)
  BY <1>1 DEF SessionInv, AddedPopped, Found
<1>3. CASE BeginFails
  BY <1>3, SessionStays DEF BeginFails, Staged
<1>4. CASE BeginReusesListed
  <2>1. staged' = [staged EXCEPT ![c] = IF c \in live' /\ c \in known THEN "files" ELSE "bare"]
    BY <1>2, <1>4 DEF BeginReusesListed, Stage
  <2>2. \A h \in Hash : Staged(h) => Staged(h)'
    BY <1>0, <2>1 DEF Staged
  <2> QED
    BY <1>0, <1>4, <2>2, SessionStays DEF BeginReusesListed
<1>5. CASE BeginAdds
  <2>1. /\ staged' = [staged EXCEPT ![c] = IF c \in live' /\ c \in known THEN "files" ELSE "bare"]
        /\ live' = live \cup {c} /\ alerts' = Append(alerts, [type |-> "added", hash |-> c])
        /\ UNCHANGED <<listed, kept>>
    BY <1>2, <1>5 DEF BeginAdds, Stage, AddTorrent
  <2>2. \A h \in Hash : (Staged(h) => Staged(h)') /\ Staged(c)'
    BY <1>0, <2>1 DEF Staged
  <2> QED
    BY <1>0, <1>1, <2>1, <2>2, CommandSession
<1>6. CASE Finalize
  <2>1. /\ live' = live /\ alerts' = alerts /\ kept' = IF c \in live' THEN kept \cup {c} ELSE kept
        /\ \/ /\ staged' = [staged EXCEPT ![c] = "no"]
              /\ \/ listed' = listed \cup {c}
                 \/ c \notin live' /\ listed' = listed \ {c}
                 \/ c \notin live' /\ listed' = listed
           \/ Lost(c) /\ staged' = staged /\ listed' = listed
    BY <1>2, <1>6 DEF Finalize, Unstage, List, Keep
  <2>2. \A h \in Hash \ {c} : Staged(h) => Staged(h)'
    BY <1>0, <2>1 DEF Staged
  <2>3. c \in live' => Staged(c)' \/ c \in listed'
    BY <1>10, <2>1 DEF Lost
  <2> QED
    BY <1>0, <1>1, <2>1, <2>2, <2>3, CommandSession
<1>7. CASE Cancel
  <2>1. /\ listed' = listed
        /\ \/ Staged(c) /\ staged' = [staged EXCEPT ![c] = "no"]
           \/ ~Staged(c) /\ staged' = staged
    BY <1>2, <1>7 DEF Cancel, Unstage
  <2>2. \A h \in Hash \ {c} : Staged(h) => Staged(h)'
    BY <1>0, <2>1 DEF Staged
  <2>3. CASE live' = live \ {c} /\ kept' = kept \ {c} /\ alerts' = Append(alerts, [type |-> "removed", hash |-> c])
    BY <1>0, <1>1, <2>1, <2>2, <2>3, CommandSession
  <2>4. CASE (Staged(c) => c \notin live) /\ UNCHANGED <<live, alerts, kept>>
    <3>1. c \in live => staged' = staged
      BY <2>1, <2>4
    <3>2. \A h \in live : Staged(h) => Staged(h)'
      BY <1>0, <2>2, <3>1 DEF Staged
    <3> QED
      BY <1>1, <2>1, <2>4, <3>2, SessionStays
  <2> QED
    BY <1>2, <1>7, <2>3, <2>4 DEF Cancel
<1>8. CASE AddKnown
  <2>1. /\ live' = live /\ alerts' = alerts /\ kept' = IF c \in live' THEN kept \cup {c} ELSE kept
        /\ \/ /\ Staged(c) /\ listed' = listed
              /\ staged' = [staged EXCEPT ![c] = IF c \in live' /\ c \in known THEN "files" ELSE "bare"]
           \/ /\ staged' = staged
              /\ \/ listed' = listed \cup {c}
                 \/ c \notin live' /\ listed' = listed \ {c}
                 \/ c \notin live' /\ listed' = listed
    BY <1>2, <1>8 DEF AddKnown, Update, Stage, List, Keep
  <2>2. \A h \in Hash : Staged(h) => Staged(h)'
    BY <1>0, <2>1 DEF Staged
  <2>3. c \in live' => Staged(c)' \/ c \in listed'
    BY <2>1, <2>2
  <2> QED
    BY <1>0, <1>1, <2>1, <2>2, <2>3, CommandSession
<1>9. CASE AddNew
  <2>1. CASE UNCHANGED <<staged, listed, live, alerts, kept>>
    BY <1>1, <2>1, SessionStays DEF Staged
  <2>2. CASE AddTorrent(Current) /\ Update(Current) /\ Keep(Current)
    <3>1. /\ live' = live \cup {c} /\ alerts' = Append(alerts, [type |-> "added", hash |-> c])
          /\ kept' = kept \cup {c}
          /\ \/ /\ Staged(c) /\ listed' = listed
                /\ staged' = [staged EXCEPT ![c] = IF c \in live' /\ c \in known THEN "files" ELSE "bare"]
             \/ listed' = listed \cup {c} /\ staged' = staged
      BY <1>2, <2>2 DEF AddTorrent, Update, Stage, List, Keep
    <3>2. \A h \in Hash : Staged(h) => Staged(h)'
      BY <1>0, <3>1 DEF Staged
    <3>3. Staged(c)' \/ c \in listed'
      BY <3>1, <3>2
    <3> QED
      BY <1>0, <1>1, <3>1, <3>2, <3>3, CommandSession
  <2> QED
    BY <1>9, <2>1, <2>2 DEF AddNew
<1> QED
  BY <1>3, <1>4, <1>5, <1>6, <1>7, <1>8, <1>9

\* Handling an alert: the ones behind it move up.
LEMMA NextAlertMoves ==
    ASSUME TypeOK, popped > 0, NextAlert
    PROVE  /\ popped' = popped - 1 /\ popped \in Nat /\ Len(alerts) \in Nat /\ popped <= Len(alerts)
           /\ Len(alerts') = Len(alerts) - 1 /\ Head(alerts) = alerts[1] /\ alerts[1] \in Alert
           /\ \A i \in 1 .. Len(alerts) - 1 : alerts'[i] = alerts[i + 1]
<1>1. alerts \in Seq(Alert) /\ popped \in 0 .. Len(alerts)
  BY DEF TypeOK
<1>2. alerts # <<>>
  BY <1>1
<1> QED
  BY <1>1, <1>2 DEF NextAlert

\* An alert handled is behind no other: who has the last word keeps it.
LEMMA NextAlertKeeps ==
    ASSUME TypeOK, PoppedInRound, phase = "alerts", popped > 0, NextAlert, phase' = phase
    PROVE  /\ PoppedInRound'
           /\ \A h \in Hash : AddedLast(h) => AddedLast(h)'
           /\ \A h \in Hash : AddedPopped(h) => AddedPopped(h)' \/ AlertIs(1, "added", h)
<1>1. /\ popped' = popped - 1 /\ popped \in Nat /\ Len(alerts) \in Nat /\ popped <= Len(alerts)
      /\ Len(alerts') = Len(alerts) - 1
      /\ \A i \in 1 .. Len(alerts) - 1 : alerts'[i] = alerts[i + 1]
  BY NextAlertMoves
<1>2. PoppedInRound'
  BY <1>1 DEF PoppedInRound
<1>3. ASSUME NEW h \in Hash, AddedLast(h) PROVE AddedLast(h)'
  <2> SUFFICES ASSUME NEW i \in 1 .. Len(alerts'), AlertIs(i, "removed", h)'
               PROVE  \E j \in 1 .. Len(alerts') : j > i /\ AlertIs(j, "added", h)'
    BY DEF AddedLast
  <2>1. i + 1 \in 1 .. Len(alerts) /\ AlertIs(i + 1, "removed", h)
    BY <1>1 DEF AlertIs
  <2>2. PICK j \in 1 .. Len(alerts) : j > i + 1 /\ AlertIs(j, "added", h)
    BY <1>3, <2>1 DEF AddedLast
  <2>3. j - 1 \in 1 .. Len(alerts') /\ j - 1 > i /\ alerts'[j - 1] = alerts[j]
    BY <1>1, <2>2
  <2> QED
    BY <2>2, <2>3 DEF AlertIs
<1>4. ASSUME NEW h \in Hash, AddedPopped(h), ~AlertIs(1, "added", h) PROVE AddedPopped(h)'
  <2>1. PICK i \in 1 .. popped : AlertIs(i, "added", h)
    BY <1>4 DEF AddedPopped
  <2>2. i # 1
    BY <1>4, <2>1
  <2>3. i - 1 \in 1 .. popped' /\ alerts'[i - 1] = alerts[i]
    BY <1>1, <2>1, <2>2
  <2> QED
    BY <2>1, <2>3 DEF AddedPopped, AlertIs
<1> QED
  BY <1>2, <1>3, <1>4

\* Each round keeps the session found: a stale removed alert has the added alert behind it.
LEMMA RoundSession ==
    ASSUME TypeInv, SessionInv, TakeBatch \/ PopAlerts \/ HandleAdded \/ HandleRemoved \/ RefreshAll
    PROVE  SessionInv'
<1> USE DEF uiVars, dialogVars, previewVars, engineVars, ltVars, historyVars
<1>0. TypeOK /\ staged \in [Hash -> {"no", "bare", "files"}] /\ listed \subseteq Hash /\ live \subseteq Hash /\ PoppedInRound
  BY DEF TypeInv, TypeOK, SessionInv
<1>1. CASE TakeBatch \/ RefreshAll
  <2>1. UNCHANGED <<listed, live, kept, alerts, popped>> /\ phase' # "alerts" /\ (phase = "alerts" => popped = 0)
    BY <1>1 DEF TakeBatch, RefreshAll
  <2>2. \A h \in Hash : Staged(h) => Staged(h)'
    BY <1>0, <1>1 DEF TakeBatch, RefreshAll, Staged
  <2>3. PoppedInRound'
    BY <1>0, <2>1 DEF PoppedInRound
  <2>4. ASSUME NEW h \in live' PROVE (Staged(h) \/ h \in listed \/ AddedPopped(h))' /\ AddedLast(h)'
    <3>1. h \in live /\ ~AddedPopped(h)
      BY <2>1, <2>4 DEF AddedPopped
    <3> QED
      BY <1>0, <2>1, <2>2, <3>1 DEF SessionInv, AddedLast, AlertIs
  <2> QED
    BY <2>1, <2>3, <2>4 DEF SessionInv
<1>2. CASE PopAlerts
  <2>1. /\ phase = "commands" /\ phase' = "alerts" /\ UNCHANGED <<staged, listed, live, kept, alerts>>
        /\ \A i \in 1 .. Len(alerts) : i > popped' => alerts[i].type = "removed"
    BY <1>0, <1>2 DEF PopAlerts, TypeOK
  <2>2. PoppedInRound'
    BY <2>1 DEF PoppedInRound
  <2>3. ASSUME NEW h \in live' PROVE (Staged(h) \/ h \in listed \/ AddedPopped(h))' /\ AddedLast(h)'
    BY <2>1, <2>3 DEF SessionInv, AddedPopped, AddedLast, AlertIs, Staged
  <2> QED
    BY <2>1, <2>2, <2>3 DEF SessionInv
<1>3. CASE HandleAdded \/ HandleRemoved
  <2>1. phase = "alerts" /\ popped > 0 /\ NextAlert /\ UNCHANGED <<phase, live, kept>>
    BY <1>3 DEF HandleAdded, HandleRemoved, Handling, roundVars
  <2>2. /\ PoppedInRound'
        /\ \A h \in Hash : AddedLast(h) => AddedLast(h)'
        /\ \A h \in Hash : AddedPopped(h) => AddedPopped(h)' \/ AlertIs(1, "added", h)
    BY <1>0, <2>1, NextAlertKeeps
  <2>3. Head(alerts) = alerts[1] /\ alerts[1] \in Alert /\ popped \in Nat /\ Len(alerts) \in Nat /\ popped <= Len(alerts)
    BY <1>0, <2>1, NextAlertMoves
  <2>4. PICK c \in Hash : c = Head(alerts).hash
    BY <2>3 DEF Alert
  <2>5. ASSUME NEW h \in live PROVE (Staged(h) \/ h \in listed \/ AddedPopped(h))'
    <3>1. h \in Hash /\ (Staged(h) \/ h \in listed \/ AddedPopped(h)) /\ AddedLast(h)
      BY <1>0, <2>5 DEF SessionInv
    <3>2. CASE HandleAdded
      <4>1. /\ \/ /\ Staged(c) /\ listed' = listed
                  /\ staged' = [staged EXCEPT ![c] = IF c \in live' /\ c \in known THEN "files" ELSE "bare"]
               \/ /\ staged' = staged
                  /\ \/ listed' = listed \cup {c}
                     \/ c \notin live' /\ listed' = listed \ {c}
                     \/ c \notin live' /\ listed' = listed
        BY <2>4, <3>2 DEF HandleAdded, Update, Stage, List
      <4>2. Staged(h) => Staged(h)'
        BY <1>0, <3>1, <4>1 DEF Staged
      <4>3. h \in listed => h \in listed'
        BY <2>1, <2>5, <4>1
      <4>4. AlertIs(1, "added", h) => Staged(h)' \/ h \in listed'
        BY <2>1, <2>3, <2>4, <2>5, <4>1, <4>2 DEF AlertIs
      <4> QED
        BY <2>2, <3>1, <4>2, <4>3, <4>4
    <3>3. CASE HandleRemoved
      <4>1. alerts[1].type = "removed" /\ staged' = [staged EXCEPT ![c] = "no"] /\ listed' = listed \ {c}
        BY <2>3, <2>4, <3>3 DEF HandleRemoved, Handling, Unstage
      <4>2. CASE h = c
        <5>1. AlertIs(1, "removed", h) /\ 1 \in 1 .. Len(alerts)
          BY <2>1, <2>3, <2>4, <4>1, <4>2 DEF AlertIs
        <5>2. PICK j \in 1 .. Len(alerts) : j > 1 /\ AlertIs(j, "added", h)
          BY <3>1, <5>1 DEF AddedLast
        <5>3. j <= popped
          BY <1>0, <2>1, <2>3, <5>2 DEF PoppedInRound, AlertIs
        <5>4. AddedPopped(h)
          BY <2>1, <2>3, <5>2, <5>3 DEF AddedPopped
        <5> QED
          BY <2>2, <3>1, <4>1, <5>4 DEF AlertIs
      <4>3. CASE h # c
        <5>1. (Staged(h) => Staged(h)') /\ (h \in listed => h \in listed')
          BY <1>0, <3>1, <4>1, <4>3 DEF Staged
        <5> QED
          BY <2>2, <3>1, <4>1, <5>1 DEF AlertIs
      <4> QED
        BY <4>2, <4>3
    <3> QED
      BY <1>3, <3>2, <3>3
  <2> QED
    BY <1>0, <2>1, <2>2, <2>5 DEF SessionInv
<1> QED
  BY <1>1, <1>2, <1>3

\* The program starts with an empty session.
LEMMA SessionInit == Init => SessionInv
  BY DEF Init, SessionInv, PoppedInRound

\* Every step keeps the session found.
LEMMA SessionNext == TypeInv /\ SessionInv /\ [Next]_vars => SessionInv'
<1> SUFFICES ASSUME TypeInv, SessionInv, [Next]_vars PROVE SessionInv'
  OBVIOUS
<1>1. CASE User \/ Timers \/ Continuations \/ Environment \/ UNCHANGED vars
  <2>1. UNCHANGED <<phase, staged, listed, live, kept, alerts, popped>>
    BY <1>1 DEF User, OpenMagnet, Submit, SubmitRefused, Close, SubmitFile, Edit, OpenFile, AddDirect, Timers, DebounceFires,
                PollTimer, CheckPolls, TimeoutFires, ResultCheck, Continuations, BeginReturns, CheckReads, CheckTakesError,
                Environment, EngineError, MetadataArrives, Load, vars, uiVars, roundVars, engineVars, ltVars, historyVars
  <2> QED
    BY <2>1, SessionStays DEF Staged
<1> QED
  BY <1>1, CommandsSession, RoundSession DEF Next, Worker

\* What the user accepted, and did not cancel, is in the library once the engine is at rest, or
\* hidden by the preview the controller has of it (session_manager.cpp, lines 664-670, 902-916).
THEOREM AcceptedKept == Spec => []AcceptedIsKept
<1>1. TypeInv /\ SessionInv /\ StagedIsKnown => AcceptedIsKept
  <2> SUFFICES ASSUME TypeInv, SessionInv, StagedIsKnown, AtRest, NEW h \in kept
               PROVE  h \in listed \/ (Staged(h) /\ hash = h)
    BY DEF AcceptedIsKept
  <2>1. commands = <<>> /\ popped = 0 /\ h \in live /\ h \in Hash
    BY DEF AtRest, TypeInv, TypeOK, SessionInv
  <2>2. Staged(h) \/ h \in listed
    BY <2>1 DEF SessionInv, AddedPopped
  <2>3. ~ClosingAfter(0, h) /\ ~Doomed(h)
    BY <2>1 DEF ClosingAfter, Doomed, AtRest
  <2> QED
    BY <2>1, <2>2, <2>3 DEF StagedIsKnown
<1> QED
  BY <1>1, InitType, NextType, SessionInit, SessionNext, StagedKnown, PTL DEF Spec

-----------------------------------------------------------------------------
(* What is accepted *)

Cancels(c, h) == c.type = "Cancel" /\ c.hash = h

Finalizes(c, h) == c.type = "Finalize" /\ c.hash = h

\* Whatever cancels h in the queue is followed by its Begin.
BegunAfter(q, h) ==
    \A i \in 1 .. Len(q) : Cancels(q[i], h) => \E j \in 1 .. Len(q) : j > i /\ Begins(q[j], h)

\* A torrent the magnet dialog loaded once is cancelled in the queue before its Begin only: by
\* the add of a torrent file earlier.
BegunLast == dialog # "file" /\ hash \in Hash /\ begun[hash] <= 1 => BegunAfter(commands, hash)

\* A preview that is ready after a single load is of a torrent of the session.
ReadyIsLive ==
    status = "ready" /\ dialog # "file" /\ begun[hash] <= 1 => hash \in live /\ ~Queued(commands, hash)

\* So is one that was accepted, and nothing in the queue cancels it before it is finalized.
Uncancelled(q, h) ==
    \A i \in 1 .. Len(q) : Finalizes(q[i], h) =>
        h \in live /\ \A j \in 1 .. Len(q) : j < i => ~Cancels(q[j], h)

FinalizedIsLive == \A h \in Hash : begun[h] <= 1 => Uncancelled(commands, h)

AcceptInv == BegunLast /\ ReadyIsLive /\ FinalizedIsLive

\* What is appended to the queue comes after what waits in it.
LEMMA AppendAfter ==
    ASSUME NEW q \in Seq(Command), NEW c \in Command, NEW h
    PROVE  /\ Begins(c, h) => BegunAfter(Append(q, c), h)
           /\ BegunAfter(q, h) /\ ~Cancels(c, h) => BegunAfter(Append(q, c), h)
           /\ Uncancelled(q, h) /\ ~Finalizes(c, h) => Uncancelled(Append(q, c), h)
           /\ Uncancelled(q, h) /\ h \in live /\ (\A i \in 1 .. Len(q) : ~Cancels(q[i], h)) => Uncancelled(Append(q, c), h)
<1> DEFINE r == Append(q, c)
<1>1. /\ Len(r) = Len(q) + 1 /\ Len(q) \in Nat /\ r[Len(q) + 1] = c
      /\ \A i \in 1 .. Len(q) : r[i] = q[i]
  OBVIOUS
<1> HIDE DEF r
<1>2. Begins(c, h) => BegunAfter(r, h)
  BY <1>1 DEF BegunAfter, Begins, Cancels
<1>3. BegunAfter(q, h) /\ ~Cancels(c, h) => BegunAfter(r, h)
  BY <1>1 DEF BegunAfter
<1>4. Uncancelled(q, h) /\ ~Finalizes(c, h) => Uncancelled(r, h)
  BY <1>1 DEF Uncancelled
<1>5. Uncancelled(q, h) /\ h \in live /\ (\A i \in 1 .. Len(q) : ~Cancels(q[i], h)) => Uncancelled(r, h)
  BY <1>1 DEF Uncancelled
<1> QED
  BY <1>2, <1>3, <1>4, <1>5 DEF r

\* Consuming the first command keeps the order of the others.
LEMMA TailAfter ==
    ASSUME NEW q \in Seq(Command), q # <<>>, NEW h
    PROVE  /\ BegunAfter(q, h) => BegunAfter(Tail(q), h)
           /\ BegunAfter(q, h) /\ Cancels(Head(q), h) => Queued(q, h)
           /\ Uncancelled(q, h) => Uncancelled(Tail(q), h)
           /\ Uncancelled(q, h) /\ Cancels(Head(q), h) => \A i \in 1 .. Len(Tail(q)) : ~Finalizes(Tail(q)[i], h)
<1> DEFINE t == Tail(q)
<1>1. /\ Len(t) = Len(q) - 1 /\ Len(q) \in Nat /\ Len(q) >= 1 /\ Head(q) = q[1]
      /\ \A i \in 1 .. Len(q) - 1 : t[i] = q[i + 1]
  OBVIOUS
<1> HIDE DEF t
<1>2. ASSUME BegunAfter(q, h) PROVE BegunAfter(t, h)
  <2> SUFFICES ASSUME NEW i \in 1 .. Len(t), Cancels(t[i], h) PROVE \E j \in 1 .. Len(t) : j > i /\ Begins(t[j], h)
    BY DEF BegunAfter
  <2>1. i + 1 \in 1 .. Len(q) /\ Cancels(q[i + 1], h)
    BY <1>1
  <2>2. PICK j \in 1 .. Len(q) : j > i + 1 /\ Begins(q[j], h)
    BY <1>2, <2>1 DEF BegunAfter
  <2>3. j - 1 \in 1 .. Len(t) /\ j - 1 > i /\ t[j - 1] = q[j]
    BY <1>1, <2>2
  <2> QED
    BY <2>2, <2>3
<1>3. BegunAfter(q, h) /\ Cancels(Head(q), h) => Queued(q, h)
  BY <1>1 DEF BegunAfter, Queued
<1>4. ASSUME Uncancelled(q, h) PROVE Uncancelled(t, h)
  <2> SUFFICES ASSUME NEW i \in 1 .. Len(t), Finalizes(t[i], h)
               PROVE  h \in live /\ \A j \in 1 .. Len(t) : j < i => ~Cancels(t[j], h)
    BY DEF Uncancelled
  <2>1. i + 1 \in 1 .. Len(q) /\ Finalizes(q[i + 1], h)
    BY <1>1
  <2>2. h \in live /\ \A j \in 1 .. Len(q) : j < i + 1 => ~Cancels(q[j], h)
    BY <1>4, <2>1 DEF Uncancelled
  <2>3. \A j \in 1 .. Len(t) : j + 1 \in 1 .. Len(q) /\ t[j] = q[j + 1] /\ (j < i => j + 1 < i + 1)
    BY <1>1
  <2> QED
    BY <2>2, <2>3
<1>5. ASSUME Uncancelled(q, h), Cancels(Head(q), h), NEW i \in 1 .. Len(t) PROVE ~Finalizes(t[i], h)
  <2>1. i + 1 \in 1 .. Len(q) /\ t[i] = q[i + 1] /\ 1 < i + 1 /\ 1 \in 1 .. Len(q)
    BY <1>1
  <2> QED
    BY <1>1, <1>5, <2>1 DEF Uncancelled
<1> QED
  BY <1>2, <1>3, <1>4, <1>5 DEF t

\* Cancelling the current preview goes behind everything that is finalized.
LEMMA CancelAfter ==
    ASSUME TypeOK, NEW q \in Seq(Command), NEW h
    PROVE  /\ h # hash /\ BegunAfter(q, h) => BegunAfter(CancelCurrent(q), h)
           /\ Uncancelled(q, h) => Uncancelled(CancelCurrent(q), h)
<1>1. CASE hash = NoHash
  BY <1>1 DEF CancelCurrent
<1>2. CASE hash # NoHash
  <2>1. Cmd("Cancel", hash, 0) \in Command /\ ~Finalizes(Cmd("Cancel", hash, 0), h)
    BY <1>2, LoadsAssumption DEF TypeOK, Id, Cmd, Command, Finalizes
  <2>2. h # hash => ~Cancels(Cmd("Cancel", hash, 0), h)
    BY DEF Cmd, Cancels
  <2> QED
    BY <1>2, <2>1, <2>2, AppendAfter DEF CancelCurrent
<1> QED
  BY <1>1, <1>2

\* A step of the dialogs that forgets the current preview, or shows a torrent file.
LEMMA ForgetsAccept ==
    ASSUME TypeInv, AcceptInv, live' = live, begun' = begun, hash' = NoHash \/ dialog' = "file",
           status' # "ready" \/ dialog' = "file",
           \A h \in Hash : Uncancelled(commands, h) /\ begun[h] <= 1 => Uncancelled(commands', h)
    PROVE  AcceptInv'
<1>1. BegunLast' /\ ReadyIsLive'
  BY NoHashAssumption DEF BegunLast, ReadyIsLive
<1>2. \A h \in Hash : begun[h] <= 1 => Uncancelled(commands', h)
  BY DEF AcceptInv, FinalizedIsLive
<1>3. FinalizedIsLive'
  BY <1>2 DEF FinalizedIsLive, Uncancelled
<1> QED
  BY <1>1, <1>3 DEF AcceptInv

\* A step that leaves queue, current preview and its status alone; a torrent that was ready may
\* not be any more.
LEMMA StaysAccept ==
    ASSUME AcceptInv, UNCHANGED <<hash, commands, live, begun>>,
           dialog' = dialog \/ (dialog # "file" /\ dialog' # "file"), status' = "ready" => status = "ready"
    PROVE  AcceptInv'
  BY DEF AcceptInv, BegunLast, ReadyIsLive, FinalizedIsLive, Uncancelled, BegunAfter, Queued

\* Loading a link, in any dialog but the one for files.
LEMMA LoadAccept ==
    ASSUME TypeInv, AcceptInv, NEW g \in Hash, Load(g), UNCHANGED live,
           dialog' = dialog \/ (dialog # "file" /\ dialog' # "file")
    PROVE  AcceptInv'
<1>0. TypeOK /\ commands \in Seq(Command)
  BY DEF TypeInv, TypeOK
<1>1. CASE LoadRefused
  BY <1>1, StaysAccept DEF LoadRefused
<1>2. CASE LoadFails
  <2>1. \A h \in Hash : Uncancelled(commands, h) /\ begun[h] <= 1 => Uncancelled(commands', h)
    BY <1>0, <1>2, CancelAfter DEF LoadFails, Clear
  <2> QED
    BY <1>2, <2>1, ForgetsAccept DEF LoadFails, Clear, Forget
<1>3. CASE LoadBegins(g)
  <2> DEFINE c == Cmd("Begin", g, loads + 1)
  <2>1. /\ commands' = Append(CancelCurrent(commands), c) /\ begun' = [begun EXCEPT ![g] = @ + 1]
        /\ status' = "loading" /\ hash' = g
    BY <1>3 DEF LoadBegins
  <2>2. c \in Command /\ Begins(c, g) /\ \A h : ~Finalizes(c, h) /\ ~Cancels(c, h)
    BY <1>3, LoadsAssumption DEF LoadBegins, Cmd, Command, Begins, Finalizes, Cancels, TypeInv, TypeOK
  <2> HIDE DEF c
  <2>3. CancelCurrent(commands) \in Seq(Command)
    BY <1>0, CancelCurrentType
  <2>4. \A h \in Hash : begun'[h] <= 1 => begun[h] <= 1
    BY <1>0, <2>1, LoadsAssumption DEF TypeOK
  <2>5. \A h \in Hash : begun'[h] <= 1 => Uncancelled(commands', h)
    BY <1>0, <2>1, <2>2, <2>3, <2>4, CancelAfter, AppendAfter DEF AcceptInv, FinalizedIsLive
  <2>6. BegunAfter(commands', g)
    BY <2>1, <2>2, <2>3, AppendAfter
  <2>7. BegunLast' /\ ReadyIsLive'
    BY <2>1, <2>6 DEF BegunLast, ReadyIsLive, BegunAfter
  <2>8. FinalizedIsLive'
    BY <2>5 DEF FinalizedIsLive, Uncancelled
  <2> QED
    BY <2>7, <2>8 DEF AcceptInv
<1> QED
  BY <1>1, <1>2, <1>3 DEF Load

\* A preview that becomes ready was answered by a torrent of the session, and its Begin, run,
\* was the last.
LEMMA PollAccept ==
    ASSUME TypeInv, LifeInv, AcceptInv, PollPreview, UNCHANGED <<dialog, commands, live, begun>>
    PROVE  AcceptInv'
<1>0. hash \in Id /\ hash' = hash
  BY DEF PollPreview, TypeInv, TypeOK, previewVars
<1>1. CASE status' = "ready" => status = "ready"
  BY <1>0, <1>1, StaysAccept
<1>2. CASE status' = "ready" /\ status # "ready"
  <2>1. hash \in Hash /\ staged[hash] = "files"
    BY <1>0, <1>2 DEF PollPreview, Id, previewVars
  <2>2. hash \in live /\ (begun[hash] <= 1 => ~Queued(commands, hash))
    BY <2>1, LoadsAssumption DEF LifeInv, FilesAreKnown, Counted, TypeInv, TypeOK
  <2>3. ReadyIsLive'
    BY <1>0, <2>2 DEF ReadyIsLive, Queued
  <2>4. BegunLast' /\ FinalizedIsLive'
    BY <1>0 DEF AcceptInv, BegunLast, FinalizedIsLive, Uncancelled, BegunAfter
  <2> QED
    BY <2>3, <2>4 DEF AcceptInv
<1> QED
  BY <1>1, <1>2

\* The dialogs accept only torrents of the session.
LEMMA UserAccept == TypeInv /\ AcceptInv /\ User => AcceptInv'
<1> SUFFICES ASSUME TypeInv, AcceptInv, User PROVE AcceptInv'
  OBVIOUS
<1> USE DEF dialogVars, previewVars, ltVars, historyVars
<1>0. TypeOK /\ commands \in Seq(Command)
  BY DEF TypeInv, TypeOK
<1>1. CASE OpenMagnet
  <2>1. CASE field = NoHash /\ UNCHANGED <<debounce, ui, previewVars, commands, loads, begun, spoiled>>
    BY <1>1, <2>1, StaysAccept DEF OpenMagnet, FreeIn
  <2>2. CASE field # NoHash /\ Load(field)
    <3>1. field \in Hash /\ UNCHANGED live /\ dialog # "file" /\ dialog' # "file"
      BY <1>1, <2>2 DEF OpenMagnet, FreeIn, TypeInv, TypeOK, Id
    <3> QED
      BY <2>2, <3>1, LoadAccept
  <2> QED
    BY <1>1, <2>1, <2>2 DEF OpenMagnet
<1>2. CASE Submit
  <2> DEFINE c == Cmd("Finalize", hash, 0)
  <2>1. hash \in Hash /\ status = "ready" /\ dialog # "file"
    BY <1>2 DEF Submit, FreeIn, TypeInv, TypeOK, FilesOfShown, Id
  <2>2. c \in Command /\ \A h : h # hash => ~Finalizes(c, h)
    BY <2>1, LoadsAssumption DEF Cmd, Command, Finalizes
  <2>3. /\ commands' = Append(commands, c) /\ hash' = NoHash /\ status' = "idle"
        /\ UNCHANGED <<live, begun>>
    BY <1>2 DEF Submit, Accept, Forget
  <2> HIDE DEF c
  <2>4. ASSUME NEW h \in Hash, Uncancelled(commands, h), begun[h] <= 1 PROVE Uncancelled(commands', h)
    <3>1. CASE h # hash
      BY <1>0, <2>2, <2>3, <2>4, <3>1, AppendAfter
    <3>2. CASE h = hash
      <4>1. h \in live /\ ~Queued(commands, h) /\ BegunAfter(commands, h)
        BY <2>1, <2>4, <3>2 DEF AcceptInv, ReadyIsLive, BegunLast
      <4>2. \A i \in 1 .. Len(commands) : ~Cancels(commands[i], h)
        BY <4>1 DEF BegunAfter, Queued
      <4> QED
        BY <1>0, <2>2, <2>3, <2>4, <4>1, <4>2, AppendAfter
    <3> QED
      BY <3>1, <3>2
  <2> QED
    BY <2>3, <2>4, ForgetsAccept
<1>3. CASE SubmitRefused \/ Close
  <2>1. \A h \in Hash : Uncancelled(commands, h) /\ begun[h] <= 1 => Uncancelled(commands', h)
    BY <1>0, <1>3, CancelAfter DEF SubmitRefused, Close, Clear
  <2> QED
    BY <1>3, <2>1, ForgetsAccept DEF SubmitRefused, Close, Clear, Forget
<1>4. ASSUME NEW g \in Hash, OpenFile(g) PROVE AcceptInv'
  <2>1. \A h \in Hash : Uncancelled(commands, h) /\ begun[h] <= 1 => Uncancelled(commands', h)
    BY <1>0, <1>4, CancelAfter DEF OpenFile
  <2> QED
    BY <1>4, <2>1, ForgetsAccept DEF OpenFile
<1>5. CASE SubmitFile
  <2>1. hash \in Hash
    BY <1>5 DEF SubmitFile, TypeInv, TypeOK, FilesOfShown, Id
  <2>2. Cmd("Add", hash, 0) \in Command /\ \A h : ~Finalizes(Cmd("Add", hash, 0), h)
    BY <2>1, LoadsAssumption DEF Cmd, Command, Finalizes
  <2>3. Append(commands, Cmd("Add", hash, 0)) \in Seq(Command)
    BY <1>0, <2>2
  <2>4. \A h \in Hash : Uncancelled(commands, h) /\ begun[h] <= 1 => Uncancelled(commands', h)
    BY <1>0, <1>5, <2>2, <2>3, AppendAfter, CancelAfter DEF SubmitFile
  <2> QED
    BY <1>5, <2>4, ForgetsAccept DEF SubmitFile, Forget
<1>6. ASSUME NEW g \in Hash, AddDirect(g) PROVE AcceptInv'
  <2>1. /\ Cmd("Add", g, 0) \in Command /\ Cmd("Add", g, 0).type # "Begin"
        /\ \A h : ~Finalizes(Cmd("Add", g, 0), h) /\ ~Cancels(Cmd("Add", g, 0), h)
    BY LoadsAssumption DEF Cmd, Command, Finalizes, Cancels
  <2>2. commands' = Append(commands, Cmd("Add", g, 0)) /\ UNCHANGED <<dialog, status, hash, live, begun>>
    BY <1>6 DEF AddDirect
  <2>3. \A h : /\ BegunAfter(commands, h) => BegunAfter(commands', h)
               /\ Uncancelled(commands, h) => Uncancelled(commands', h)
               /\ Queued(commands', h) <=> Queued(commands, h)
    BY <1>0, <2>1, <2>2, AppendAfter, QueuedAppend
  <2>4. BegunLast'
    BY <2>2, <2>3 DEF AcceptInv, BegunLast, BegunAfter
  <2>5. ReadyIsLive'
    BY <2>2, <2>3 DEF AcceptInv, ReadyIsLive, Queued
  <2>6. FinalizedIsLive'
    BY <2>2, <2>3 DEF AcceptInv, FinalizedIsLive, Uncancelled
  <2> QED
    BY <2>4, <2>5, <2>6 DEF AcceptInv
<1>7. ASSUME NEW u \in Id, Edit(u) PROVE AcceptInv'
  BY <1>7, StaysAccept DEF Edit
<1> QED
  BY <1>1, <1>2, <1>3, <1>4, <1>5, <1>6, <1>7 DEF User

\* Neither timers nor late answers show a torrent as ready that the session has not.
LEMMA TimerAccept == TypeInv /\ LifeInv /\ AcceptInv /\ (Timers \/ Continuations) => AcceptInv'
<1> SUFFICES ASSUME TypeInv, LifeInv, AcceptInv, Timers \/ Continuations PROVE AcceptInv'
  OBVIOUS
<1> USE DEF uiVars, dialogVars, previewVars, ltVars, historyVars
<1>1. CASE DebounceFires
  <2>1. CASE field = NoHash /\ UNCHANGED <<ui, previewVars, commands, loads, begun, spoiled>>
    BY <1>1, <2>1, StaysAccept DEF DebounceFires
  <2>2. CASE field # NoHash /\ Load(field)
    <3>1. field \in Hash /\ UNCHANGED <<live, dialog>>
      BY <1>1, <2>2 DEF DebounceFires, TypeInv, TypeOK, Id
    <3> QED
      BY <2>2, <3>1, LoadAccept
  <2> QED
    BY <1>1, <2>1, <2>2 DEF DebounceFires
<1>2. CASE PollTimer \/ CheckPolls
  <2>1. PollPreview /\ UNCHANGED <<dialog, commands, live, begun>>
    BY <1>2 DEF PollTimer, CheckPolls
  <2> QED
    BY <2>1, PollAccept
<1>3. CASE TimeoutFires \/ ResultCheck \/ Continuations
  <2>1. UNCHANGED <<dialog, hash, commands, live, begun>> /\ (status' = "ready" => status = "ready")
    BY <1>3 DEF TimeoutFires, ResultCheck, Continuations, BeginReturns, CheckReads, CheckTakesError
  <2> QED
    BY <2>1, StaysAccept
<1> QED
  BY <1>1, <1>2, <1>3 DEF Timers

\* The engine removes from the session only what the first command of the queue cancels.
LEMMA EngineAccept == TypeInv /\ AcceptInv /\ (Worker \/ Environment) => AcceptInv'
<1> SUFFICES ASSUME TypeInv, AcceptInv, Worker \/ Environment PROVE AcceptInv'
  OBVIOUS
<1> USE DEF uiVars, dialogVars, previewVars, engineVars, ltVars, historyVars
<1>0. TypeOK /\ commands \in Seq(Command) /\ batch \in 0 .. Len(commands) /\ hash \in Id
  BY DEF TypeInv, TypeOK
<1>1. UNCHANGED <<dialog, status, hash, begun>>
  BY DEF Worker, Environment, TakeBatch, BeginFails, BeginReusesListed, BeginAdds, Finalize, Cancel, AddKnown, AddNew,
         PopAlerts, HandleAdded, HandleRemoved, RefreshAll, EngineError, MetadataArrives
<1>2. CASE UNCHANGED <<commands, live>>
  BY <1>1, <1>2, StaysAccept
<1>3. CASE /\ commands # <<>> /\ commands' = Tail(commands)
           /\ \A h \in live : h \in live' \/ Cancels(Head(commands), h)
  <2>1. ASSUME NEW h \in Hash
        PROVE  /\ BegunAfter(commands, h) => BegunAfter(commands', h)
               /\ BegunAfter(commands, h) /\ Cancels(Head(commands), h) => Queued(commands, h)
               /\ Uncancelled(commands, h) => Uncancelled(Tail(commands), h)
               /\ Uncancelled(commands, h) /\ Cancels(Head(commands), h) =>
                     \A i \in 1 .. Len(commands') : ~Finalizes(commands'[i], h)
               /\ Queued(commands', h) => Queued(commands, h)
    BY <1>0, <1>3, TailAfter, QueuedTail
  <2>2. BegunLast'
    BY <1>1, <2>1 DEF AcceptInv, BegunLast, BegunAfter
  <2>3. ReadyIsLive'
    <3> SUFFICES ASSUME status = "ready", dialog # "file", begun[hash] <= 1
                 PROVE  hash \in live' /\ ~Queued(commands', hash)
      BY <1>1 DEF ReadyIsLive, Queued
    <3>1. hash \in Hash
      BY <1>0 DEF TypeInv, FilesOfShown, Id
    <3>2. hash \in live /\ ~Queued(commands, hash) /\ BegunAfter(commands, hash)
      BY <3>1 DEF AcceptInv, ReadyIsLive, BegunLast
    <3> QED
      BY <1>3, <2>1, <3>1, <3>2
  <2>4. FinalizedIsLive'
    <3> SUFFICES ASSUME NEW h \in Hash, begun[h] <= 1 PROVE Uncancelled(commands, h)'
      BY <1>1 DEF FinalizedIsLive
    <3>1. Uncancelled(commands, h)
      BY DEF AcceptInv, FinalizedIsLive
    <3>2. CASE Cancels(Head(commands), h)
      BY <2>1, <3>1, <3>2 DEF Uncancelled
    <3>3. CASE ~Cancels(Head(commands), h)
      <4>1. Uncancelled(Tail(commands), h) /\ (h \in live => h \in live')
        BY <1>3, <2>1, <3>1, <3>3
      <4> QED
        BY <1>3, <4>1 DEF Uncancelled
    <3> QED
      BY <3>2, <3>3
  <2> QED
    BY <2>2, <2>3, <2>4 DEF AcceptInv
<1>4. CASE BeginFails \/ BeginReusesListed \/ BeginAdds \/ Finalize \/ Cancel \/ AddKnown \/ AddNew
  <2>1. commands # <<>> /\ commands' = Tail(commands) /\ batch > 0
    BY <1>0, <1>4 DEF BeginFails, BeginReusesListed, BeginAdds, Finalize, Cancel, AddKnown, AddNew, At, NextCommand
  <2>2. \A h \in live : h \in live' \/ Cancels(Head(commands), h)
    BY <1>4 DEF BeginFails, BeginReusesListed, BeginAdds, Finalize, Cancel, AddKnown, AddNew, AddTorrent, At, Cancels, Current
  <2> QED
    BY <1>3, <2>1, <2>2
<1>5. CASE TakeBatch \/ PopAlerts \/ HandleAdded \/ HandleRemoved \/ RefreshAll \/ Environment
  <2>1. UNCHANGED <<commands, live>>
    BY <1>5 DEF TakeBatch, PopAlerts, HandleAdded, HandleRemoved, RefreshAll, Environment, EngineError, MetadataArrives
  <2> QED
    BY <1>2, <2>1
<1> QED
  BY <1>4, <1>5 DEF Worker

\* The program starts with nothing queued and nothing ready.
LEMMA AcceptInit == Init => AcceptInv
  BY NoHashAssumption DEF Init, AcceptInv, BegunLast, ReadyIsLive, FinalizedIsLive, Uncancelled

\* Every step keeps what was accepted in the session.
LEMMA AcceptNext == TypeInv /\ LifeInv /\ AcceptInv /\ [Next]_vars => AcceptInv'
<1>1. AcceptInv /\ UNCHANGED vars => AcceptInv'
  BY StaysAccept DEF vars, uiVars, dialogVars, previewVars, ltVars, historyVars
<1> QED
  BY <1>1, UserAccept, TimerAccept, EngineAccept DEF Next

\* An accepted preview is found and in the session when its Finalize runs, unless its link was
\* loaded twice (app_controller.cpp, lines 950-974, session_manager.cpp, lines 876-900).
THEOREM AcceptedIsFound == Spec => AcceptFindsTorrent
<1>1. ASSUME TypeInv, SessionInv, AcceptInv, At("Finalize")
      PROVE  (Found(Current) /\ Current \in live) \/ begun[Current] > 1
  <2>1. commands \in Seq(Command) /\ batch \in 0 .. Len(commands) /\ batch > 0 /\ phase = "commands"
    BY <1>1 DEF TypeInv, TypeOK, At
  <2>2. commands # <<>> /\ 1 \in 1 .. Len(commands) /\ Head(commands) = commands[1]
    BY <2>1
  <2>3. commands[1] \in Command
    BY <2>1, <2>2
  <2>4. Current \in Hash /\ Finalizes(commands[1], Current)
    BY <1>1, <2>2, <2>3 DEF Current, Command, At, Finalizes
  <2>5. begun[Current] <= 1 => Current \in live
    BY <1>1, <2>2, <2>4 DEF AcceptInv, FinalizedIsLive, Uncancelled
  <2>6. begun[Current] \in Nat
    BY <1>1, <2>4, LoadsAssumption DEF TypeInv, TypeOK
  <2> QED
    BY <1>1, <2>1, <2>4, <2>5, <2>6 DEF SessionInv, AddedPopped, Found
<1>2. TypeInv /\ SessionInv /\ AcceptInv /\ [Next]_vars =>
         [At("Finalize") /\ commands' = Tail(commands) =>
             (Found(Current) /\ Current \in live) \/ begun[Current] > 1]_vars
  BY <1>1
<1> QED
  BY <1>2, InitType, NextType, LifeInit, LifeNext, SessionInit, SessionNext, AcceptInit, AcceptNext, PTL
     DEF Spec, AcceptFindsTorrent

=============================================================================
