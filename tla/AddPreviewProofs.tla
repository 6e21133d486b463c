-------------------------- MODULE AddPreviewProofs --------------------------
(***************************************************************************)
(* Proofs about AddPreview, for every number of torrents, of previews and  *)
(* of added torrents, and a command queue of any length.                   *)
(*                                                                         *)
(* The invariant behind StagedIsKnown and NeverSelfLocks is about the      *)
(* whole queue (Known below).  Three lemmas say what keeps it: a command   *)
(* appended, a Begin appended once the current preview is cancelled, and   *)
(* the first command consumed; every action is one of these or leaves      *)
(* queue, staged torrents and current preview alone.  A preview that its   *)
(* Finalize missed is not in the queue any more: DoomInv says that the     *)
(* removed alert which unstages it is on the way.                          *)
(***************************************************************************)
EXTENDS AddPreview, TLAPS, SequenceTheorems

Empty == "no"

Begins(c, h) == c.type = "Begin" /\ c.hash = h

\* A queue q leaves no preview behind, when s says what is staged and x is the preview the
\* controller remembers: a torrent staged, or to be staged, is remembered or will be closed; and
\* between two ways of staging a torrent lies a command that closes its preview.
Known(s, q, x) ==
    \A h \in Hash :
        /\ s[h] # Empty => x = h \/ \E j \in 1 .. Len(q) : Closing(q[j], h)
        /\ \A i \in 1 .. Len(q) : Begins(q[i], h) =>
              /\ x = h \/ \E j \in 1 .. Len(q) : j > i /\ Closing(q[j], h)
              /\ s[h] # Empty => \E j \in 1 .. Len(q) : j < i /\ Closing(q[j], h)
              /\ \A k \in 1 .. Len(q) : k > i /\ Begins(q[k], h) =>
                    \E j \in 1 .. Len(q) : i < j /\ j < k /\ Closing(q[j], h)

\* A command that begins nothing may be appended, and may let the controller forget the preview
\* it closes.
LEMMA KnownAppend ==
    ASSUME NEW s, NEW q \in Seq(Command), NEW x, NEW y, NEW c \in Command,
           Known(s, q, x), c.type # "Begin",
           x = y \/ x \notin Hash \/ Closing(c, x)
    PROVE  Known(s, Append(q, c), y)
<1> DEFINE r == Append(q, c)
<1>1. Len(q) \in Nat /\ Len(r) = Len(q) + 1 /\ r[Len(q) + 1] = c /\ \A i \in 1 .. Len(q) : r[i] = q[i]
  OBVIOUS
<1> HIDE DEF r
<1>2. \A h \in Hash : x = h => y = h \/ Closing(r[Len(q) + 1], h)
  BY <1>1
<1>3. \A h : \A i \in 1 .. Len(r) : Begins(r[i], h) => i \in 1 .. Len(q) /\ Begins(q[i], h)
  <2> SUFFICES ASSUME NEW h, NEW i \in 1 .. Len(r), Begins(r[i], h)
               PROVE  i \in 1 .. Len(q) /\ Begins(q[i], h)
    OBVIOUS
  <2>1. i # Len(q) + 1
    BY <1>1 DEF Begins
  <2>2. i \in 1 .. Len(q)
    BY <1>1, <2>1
  <2> QED
    BY <1>1, <2>2
<1>4. \A h : \A j \in 1 .. Len(q) : Closing(q[j], h) => j \in 1 .. Len(r) /\ Closing(r[j], h)
  BY <1>1
<1> SUFFICES ASSUME NEW h \in Hash
             PROVE  /\ s[h] # Empty => y = h \/ \E j \in 1 .. Len(r) : Closing(r[j], h)
                    /\ \A i \in 1 .. Len(r) : Begins(r[i], h) =>
                         /\ y = h \/ \E j \in 1 .. Len(r) : j > i /\ Closing(r[j], h)
                         /\ s[h] # Empty => \E j \in 1 .. Len(r) : j < i /\ Closing(r[j], h)
                         /\ \A k \in 1 .. Len(r) : k > i /\ Begins(r[k], h) =>
                              \E j \in 1 .. Len(r) : i < j /\ j < k /\ Closing(r[j], h)
  BY DEF Known, r
<1>5. Len(q) + 1 \in 1 .. Len(r) /\ \A i \in 1 .. Len(q) : Len(q) + 1 > i
  BY <1>1
<1>6. s[h] # Empty => y = h \/ \E j \in 1 .. Len(r) : Closing(r[j], h)
  BY <1>2, <1>4, <1>5 DEF Known
<1>7. ASSUME NEW i \in 1 .. Len(q), Begins(q[i], h)
      PROVE  /\ y = h \/ \E j \in 1 .. Len(r) : j > i /\ Closing(r[j], h)
             /\ s[h] # Empty => \E j \in 1 .. Len(r) : j < i /\ Closing(r[j], h)
             /\ \A k \in 1 .. Len(q) : k > i /\ Begins(q[k], h) =>
                  \E j \in 1 .. Len(r) : i < j /\ j < k /\ Closing(r[j], h)
  <2>1. y = h \/ \E j \in 1 .. Len(r) : j > i /\ Closing(r[j], h)
    BY <1>2, <1>4, <1>5, <1>7 DEF Known
  <2>2. s[h] # Empty => \E j \in 1 .. Len(r) : j < i /\ Closing(r[j], h)
    BY <1>4, <1>7 DEF Known
  <2>3. \A k \in 1 .. Len(q) : k > i /\ Begins(q[k], h) =>
           \E j \in 1 .. Len(r) : i < j /\ j < k /\ Closing(r[j], h)
    BY <1>4, <1>7 DEF Known
  <2> QED
    BY <2>1, <2>2, <2>3
<1> QED
  BY <1>3, <1>6, <1>7

\* With no preview remembered, the preview of a torrent may be begun and remembered.
LEMMA KnownBegin ==
    ASSUME NEW s, NEW q \in Seq(Command), NEW g \in Hash, NEW c \in Command,
           Known(s, q, NoHash), Begins(c, g)
    PROVE  Known(s, Append(q, c), g)
<1> DEFINE r == Append(q, c)
<1>1. Len(q) \in Nat /\ Len(r) = Len(q) + 1 /\ r[Len(q) + 1] = c /\ \A i \in 1 .. Len(q) : r[i] = q[i]
  OBVIOUS
<1> HIDE DEF r
<1>2. \A h : \A j \in 1 .. Len(q) : Closing(q[j], h) => j \in 1 .. Len(r) /\ Closing(r[j], h)
  BY <1>1
<1>3. \A h : \A i \in 1 .. Len(r) : Begins(r[i], h) =>
         (i \in 1 .. Len(q) /\ Begins(q[i], h)) \/ (i = Len(q) + 1 /\ h = g)
  BY <1>1 DEF Begins
<1>4. \A j \in 1 .. Len(q) : j < Len(q) + 1
  BY <1>1
<1> SUFFICES ASSUME NEW h \in Hash
             PROVE  /\ s[h] # Empty => g = h \/ \E j \in 1 .. Len(r) : Closing(r[j], h)
                    /\ \A i \in 1 .. Len(r) : Begins(r[i], h) =>
                         /\ g = h \/ \E j \in 1 .. Len(r) : j > i /\ Closing(r[j], h)
                         /\ s[h] # Empty => \E j \in 1 .. Len(r) : j < i /\ Closing(r[j], h)
                         /\ \A k \in 1 .. Len(r) : k > i /\ Begins(r[k], h) =>
                              \E j \in 1 .. Len(r) : i < j /\ j < k /\ Closing(r[j], h)
  BY DEF Known, r
<1>5. s[h] # Empty => \E j \in 1 .. Len(q) : Closing(q[j], h)
  BY NoHashAssumption DEF Known
<1>6. ASSUME NEW i \in 1 .. Len(q), Begins(q[i], h)
      PROVE  /\ \E j \in 1 .. Len(q) : j > i /\ Closing(q[j], h)
             /\ s[h] # Empty => \E j \in 1 .. Len(q) : j < i /\ Closing(q[j], h)
             /\ \A k \in 1 .. Len(q) : k > i /\ Begins(q[k], h) =>
                  \E j \in 1 .. Len(q) : i < j /\ j < k /\ Closing(q[j], h)
  BY <1>6, NoHashAssumption DEF Known
<1>7. ASSUME NEW i \in 1 .. Len(r), Begins(r[i], h)
      PROVE  /\ g = h \/ \E j \in 1 .. Len(r) : j > i /\ Closing(r[j], h)
             /\ s[h] # Empty => \E j \in 1 .. Len(r) : j < i /\ Closing(r[j], h)
  <2>1. CASE i \in 1 .. Len(q) /\ Begins(q[i], h)
    BY <1>2, <1>6, <2>1
  <2>2. CASE i = Len(q) + 1 /\ h = g
    BY <1>2, <1>4, <1>5, <2>2
  <2> QED
    BY <1>3, <1>7, <2>1, <2>2
<1>8. ASSUME NEW i \in 1 .. Len(r), Begins(r[i], h), NEW k \in 1 .. Len(r), k > i, Begins(r[k], h)
      PROVE  \E j \in 1 .. Len(r) : i < j /\ j < k /\ Closing(r[j], h)
  <2>1. i \in 1 .. Len(q) /\ Begins(q[i], h)
    <3>1. i # Len(q) + 1
      BY <1>1, <1>8
    <3> QED
      BY <1>3, <1>8, <3>1
  <2>2. CASE k \in 1 .. Len(q) /\ Begins(q[k], h)
    BY <1>2, <1>6, <1>8, <2>1, <2>2
  <2>3. CASE k = Len(q) + 1
    <3>1. PICK j \in 1 .. Len(q) : j > i /\ Closing(q[j], h)
      BY <1>6, <2>1
    <3>2. j \in 1 .. Len(r) /\ Closing(r[j], h) /\ j < k /\ i < j
      BY <1>2, <1>4, <2>3, <3>1
    <3> QED
      BY <3>2
  <2> QED
    BY <1>3, <1>8, <2>2, <2>3
<1> QED
  BY <1>2, <1>5, <1>7, <1>8

\* The first command is consumed: what is staged after it was staged before and is not closed by
\* it, or is begun by it.
LEMMA KnownConsume ==
    ASSUME NEW s, NEW t, NEW q \in Seq(Command), q # <<>>, NEW x, Known(s, q, x),
           \A h \in Hash : t[h] # Empty =>
               (s[h] # Empty /\ ~Closing(q[1], h)) \/ Begins(q[1], h)
    PROVE  Known(t, Tail(q), x)
<1> DEFINE r == Tail(q)
<1>1. Len(q) \in Nat \ {0} /\ Len(r) = Len(q) - 1 /\ \A i \in 1 .. Len(r) : i + 1 \in 1 .. Len(q) /\ r[i] = q[i + 1]
  BY HeadTailProperties, EmptySeq
<1> HIDE DEF r
<1>2. \A h : \A j \in 1 .. Len(q) : j > 1 /\ Closing(q[j], h) =>
         j - 1 \in 1 .. Len(r) /\ Closing(r[j - 1], h)
  <2> SUFFICES ASSUME NEW h, NEW j \in 1 .. Len(q), j > 1, Closing(q[j], h)
               PROVE  j - 1 \in 1 .. Len(r) /\ Closing(r[j - 1], h)
    OBVIOUS
  <2>1. j - 1 \in 1 .. Len(r) /\ j - 1 + 1 = j
    BY <1>1
  <2> QED
    BY <1>1, <2>1
<1> SUFFICES ASSUME NEW h \in Hash
             PROVE  /\ t[h] # Empty => x = h \/ \E j \in 1 .. Len(r) : Closing(r[j], h)
                    /\ \A i \in 1 .. Len(r) : Begins(r[i], h) =>
                         /\ x = h \/ \E j \in 1 .. Len(r) : j > i /\ Closing(r[j], h)
                         /\ t[h] # Empty => \E j \in 1 .. Len(r) : j < i /\ Closing(r[j], h)
                         /\ \A k \in 1 .. Len(r) : k > i /\ Begins(r[k], h) =>
                              \E j \in 1 .. Len(r) : i < j /\ j < k /\ Closing(r[j], h)
  BY DEF Known, r
<1>3. 1 \in 1 .. Len(q)
  BY <1>1
<1>4. t[h] # Empty => x = h \/ \E j \in 1 .. Len(r) : Closing(r[j], h)
  <2> SUFFICES ASSUME t[h] # Empty, x # h PROVE \E j \in 1 .. Len(r) : Closing(r[j], h)
    OBVIOUS
  <2>1. \E j \in 1 .. Len(q) : j > 1 /\ Closing(q[j], h)
    <3>1. CASE s[h] # Empty /\ ~Closing(q[1], h)
      <4>1. PICK j \in 1 .. Len(q) : Closing(q[j], h)
        BY <3>1 DEF Known
      <4>2. j # 1
        BY <3>1, <4>1
      <4>3. j > 1
        BY <4>2, <1>1
      <4> QED
        BY <4>1, <4>3
    <3>2. CASE Begins(q[1], h)
      BY <1>3, <3>2 DEF Known
    <3> QED
      BY <3>1, <3>2
  <2> QED
    BY <1>2, <2>1
<1>5. ASSUME NEW i \in 1 .. Len(r), Begins(r[i], h)
      PROVE  x = h \/ \E j \in 1 .. Len(r) : j > i /\ Closing(r[j], h)
  <2>1. i + 1 \in 1 .. Len(q) /\ Begins(q[i + 1], h)
    BY <1>1, <1>5
  <2> SUFFICES ASSUME x # h PROVE \E j \in 1 .. Len(r) : j > i /\ Closing(r[j], h)
    OBVIOUS
  <2>2. PICK j \in 1 .. Len(q) : j > i + 1 /\ Closing(q[j], h)
    BY <2>1 DEF Known
  <2>3. j > 1 /\ j - 1 > i
    BY <2>2, <1>1
  <2> QED
    BY <1>2, <2>2, <2>3
<1>6. ASSUME NEW i \in 1 .. Len(r), Begins(r[i], h), t[h] # Empty
      PROVE  \E j \in 1 .. Len(r) : j < i /\ Closing(r[j], h)
  <2>1. i + 1 \in 1 .. Len(q) /\ i + 1 > 1 /\ Begins(q[i + 1], h)
    BY <1>1, <1>6
  <2>2. \E j \in 1 .. Len(q) : j > 1 /\ j < i + 1 /\ Closing(q[j], h)
    <3>1. CASE s[h] # Empty /\ ~Closing(q[1], h)
      <4>1. PICK j \in 1 .. Len(q) : j < i + 1 /\ Closing(q[j], h)
        BY <2>1, <3>1 DEF Known
      <4>2. j # 1
        BY <3>1, <4>1
      <4>3. j > 1
        BY <4>2, <1>1
      <4> QED
        BY <4>1, <4>3
    <3>2. CASE Begins(q[1], h)
      BY <1>3, <2>1, <3>2 DEF Known
    <3> QED
      BY <1>6, <3>1, <3>2
  <2>3. PICK j \in 1 .. Len(q) : j > 1 /\ j < i + 1 /\ Closing(q[j], h)
    BY <2>2
  <2>4. j - 1 < i
    BY <2>3, <1>1
  <2> QED
    BY <1>2, <2>3, <2>4
<1>7. ASSUME NEW i \in 1 .. Len(r), Begins(r[i], h), NEW k \in 1 .. Len(r), k > i, Begins(r[k], h)
      PROVE  \E j \in 1 .. Len(r) : i < j /\ j < k /\ Closing(r[j], h)
  <2>1. i + 1 \in 1 .. Len(q) /\ k + 1 \in 1 .. Len(q) /\ k + 1 > i + 1
    BY <1>1, <1>7
  <2>2. Begins(q[i + 1], h) /\ Begins(q[k + 1], h)
    BY <1>1, <1>7
  <2>3. PICK j \in 1 .. Len(q) : i + 1 < j /\ j < k + 1 /\ Closing(q[j], h)
    BY <2>1, <2>2 DEF Known
  <2>4. j > 1 /\ i < j - 1 /\ j - 1 < k
    BY <2>3, <1>1
  <2> QED
    BY <1>2, <2>3, <2>4
<1> QED
  BY <1>4, <1>5, <1>6, <1>7

\* Unstaging a torrent leaves no preview behind.
LEMMA KnownUnstage ==
    ASSUME NEW s, NEW t, NEW q, NEW x, Known(s, q, x),
           \A h \in Hash : t[h] # Empty => s[h] # Empty
    PROVE  Known(t, q, x)
  BY DEF Known

-----------------------------------------------------------------------------
(* Types and files shown *)

\* The types need the files shown (only a preview with a hash is ready to accept) and that no
\* torrent has been begun more often than all together.
TypeInv ==
    /\ TypeOK
    /\ FilesOfShown
    /\ \A h \in Hash : begun[h] <= loads

\* What a step of the UI thread may do besides queueing commands and loading previews.
LEMMA CancelCurrentType ==
    ASSUME TypeOK, NEW q \in Seq(Command)
    PROVE  CancelCurrent(q) \in Seq(Command) /\ Len(CancelCurrent(q)) >= Len(q)
<1>1. CASE hash = NoHash
  BY <1>1 DEF CancelCurrent
<1>2. CASE hash # NoHash
  <2>1. Cmd("Cancel", hash, 0) \in Command
    BY <1>2, LoadsAssumption DEF TypeOK, Id, Cmd, Command
  <2> QED
    BY <1>2, <2>1 DEF CancelCurrent
<1> QED
  BY <1>1, <1>2

\* The queue only grows while the worker's round stays as it is.
LEMMA BatchFits ==
    ASSUME TypeOK, commands' \in Seq(Command), Len(commands') >= Len(commands), batch' = batch
    PROVE  batch' \in 0 .. Len(commands')
  BY DEF TypeOK

LEMMA LoadType ==
    ASSUME TypeInv, NEW h \in Hash, Load(h)
    PROVE  /\ ui' \in {"free", "beginning", "polled", "missing"} /\ (ui' = ui \/ ui' = "beginning")
           /\ status' \in {"idle", "loading", "ready", "error"}
           /\ hash' \in Id /\ files' \in Id
           /\ polling' \in BOOLEAN /\ timing' \in BOOLEAN
           /\ commands' \in Seq(Command) /\ Len(commands') >= Len(commands)
           /\ loads' \in 0 .. MaxLoads /\ begun' \in [Hash -> 0 .. MaxLoads]
           /\ \A g \in Hash : begun'[g] <= loads'
           /\ spoiled' \in BOOLEAN
           /\ FilesOfShown'
<1> USE LoadsAssumption, NoHashAssumption DEF TypeInv
<1>1. CASE LoadRefused
  BY <1>1 DEF LoadRefused, TypeOK, FilesOfShown
<1>2. CASE LoadFails
  <2>1. commands' \in Seq(Command) /\ Len(commands') >= Len(commands)
    BY <1>2, CancelCurrentType DEF LoadFails, Clear, TypeOK
  <2> QED
    BY <1>2, <2>1 DEF LoadFails, Clear, Forget, TypeOK, FilesOfShown, Id
<1>3. CASE LoadBegins(h)
  <2>1. loads' \in 0 .. MaxLoads /\ loads' = loads + 1
    BY <1>3 DEF LoadBegins, TypeOK
  <2>2. Cmd("Begin", h, loads') \in Command
    BY <2>1 DEF Cmd, Command
  <2>3. commands \in Seq(Command)
    BY DEF TypeOK
  <2>4. CancelCurrent(commands) \in Seq(Command) /\ Len(CancelCurrent(commands)) >= Len(commands)
    BY <2>3, CancelCurrentType
  <2>5. commands' = Append(CancelCurrent(commands), Cmd("Begin", h, loads'))
    BY <1>3 DEF LoadBegins
  <2>6. commands' \in Seq(Command) /\ Len(commands') >= Len(commands)
    BY <2>2, <2>3, <2>4, <2>5
  <2>7. begun' = [begun EXCEPT ![h] = begun[h] + 1]
    BY <1>3 DEF LoadBegins
  <2>8. begun \in [Hash -> 0 .. MaxLoads] /\ loads \in 0 .. MaxLoads /\ loads < MaxLoads
    BY <1>3 DEF TypeOK, LoadBegins
  <2>9. \A g \in Hash : begun'[g] <= loads'
    BY <2>1, <2>7, <2>8
  <2>10. begun' \in [Hash -> 0 .. MaxLoads]
    BY <2>1, <2>7, <2>8
  <2> QED
    BY <1>3, <2>1, <2>6, <2>9, <2>10 DEF LoadBegins, FilesOfShown, Id
<1> QED
  BY <1>1, <1>2, <1>3 DEF Load

\* The initial state is well typed.
LEMMA InitType == Init => TypeInv
<1> SUFFICES ASSUME Init PROVE TypeInv
  OBVIOUS
<1>1. 0 \in 0 .. MaxLoads /\ 0 \in 0 .. MaxAdds /\ 0 \in NoError .. OtherError
  BY LoadsAssumption DEF NoError, OtherError
<1>2. Len(<<>>) = 0 /\ <<>> \in Seq(Command) /\ <<>> \in Seq(Alert)
  OBVIOUS
<1>3. commands \in Seq(Command) /\ batch \in 0 .. Len(commands) /\ alerts \in Seq(Alert) /\ popped \in 0 .. Len(alerts)
  BY <1>2 DEF Init
<1>4. dialog \in {"closed", "magnet", "file"} /\ field \in Id /\ debounce \in BOOLEAN
      /\ ui \in {"free", "beginning", "polled", "missing"} /\ status \in {"idle", "loading", "ready", "error"}
      /\ hash \in Id /\ files \in Id /\ polling \in BOOLEAN /\ timing \in BOOLEAN /\ checks \in Nat
      /\ phase \in {"sleep", "commands", "alerts"} /\ staged \in [Hash -> {"no", "bare", "files"}]
      /\ listed \subseteq Hash /\ live \subseteq Hash /\ known \subseteq Hash
      /\ accepted \in Id /\ kept \subseteq Hash /\ missed \subseteq Hash /\ spoiled \in BOOLEAN
  BY DEF Init, Id
<1>5. last_error \in NoError .. OtherError /\ loads \in 0 .. MaxLoads /\ adds \in 0 .. MaxAdds
      /\ begun \in [Hash -> 0 .. MaxLoads] /\ \A h \in Hash : begun[h] <= loads
  <2>1. last_error = NoError /\ NoError = 0 /\ loads = 0 /\ adds = 0 /\ begun = [h \in Hash |-> 0]
    BY DEF Init, NoError
  <2> QED
    BY <1>1, <2>1
<1>6. TypeOK
  BY <1>3, <1>4, <1>5 DEF TypeOK
<1> QED
  BY <1>5, <1>6 DEF Init, TypeInv, FilesOfShown

\* Polling keeps the preview well formed.
LEMMA PollType ==
    ASSUME TypeInv, PollPreview
    PROVE  /\ status' \in {"idle", "loading", "ready", "error"}
           /\ hash' \in Id /\ files' \in Id
           /\ polling' \in BOOLEAN /\ timing' \in BOOLEAN
           /\ FilesOfShown'
  BY DEF PollPreview, TypeInv, TypeOK, FilesOfShown, previewVars, Id

\* What the user does keeps the types.
LEMMA UserType == TypeInv /\ User => TypeInv'
<1> SUFFICES ASSUME TypeInv, User PROVE TypeInv'
  OBVIOUS
<1> USE LoadsAssumption, NoHashAssumption DEF dialogVars, previewVars, roundVars, engineVars, ltVars, historyVars
<1>0. commands \in Seq(Command) /\ batch \in 0 .. Len(commands)
  BY DEF TypeInv, TypeOK
<1>1. CASE OpenMagnet
  <2>1. CASE field = NoHash /\ UNCHANGED <<debounce, ui, previewVars, commands, loads, begun, spoiled>>
    BY <1>1, <2>1 DEF OpenMagnet, FreeIn, TypeInv, TypeOK, FilesOfShown
  <2>2. CASE field # NoHash /\ debounce' \in {debounce, TRUE} /\ Load(field)
    <3>1. field \in Hash
      BY <2>2 DEF TypeInv, TypeOK, Id
    <3>2. commands' \in Seq(Command) /\ Len(commands') >= Len(commands) /\ batch' \in 0 .. Len(commands')
      BY <1>1, <2>2, <3>1, LoadType, BatchFits DEF OpenMagnet, TypeInv
    <3> QED
      BY <1>1, <2>2, <3>1, <3>2, LoadType DEF OpenMagnet, FreeIn, TypeInv, TypeOK
  <2> QED
    BY <1>1, <2>1, <2>2 DEF OpenMagnet
<1>2. ASSUME NEW u \in Id, Edit(u) PROVE TypeInv'
  BY <1>2 DEF Edit, FreeIn, TypeInv, TypeOK, FilesOfShown
<1>3. CASE Submit
  <2>1. hash \in Hash
    BY <1>3 DEF Submit, TypeInv, TypeOK, FilesOfShown, Id
  <2>2. Cmd("Finalize", hash, 0) \in Command
    BY <2>1 DEF Cmd, Command
  <2>3. commands' \in Seq(Command) /\ Len(commands') >= Len(commands) /\ batch' \in 0 .. Len(commands')
    BY <1>0, <1>3, <2>2 DEF Submit, Accept
  <2> QED
    BY <1>3, <2>1, <2>3 DEF Submit, Accept, Forget, FreeIn, TypeInv, TypeOK, FilesOfShown, Id
<1>4. CASE SubmitRefused \/ Close
  <2>1. commands' \in Seq(Command) /\ Len(commands') >= Len(commands) /\ batch' \in 0 .. Len(commands')
    BY <1>0, <1>4, CancelCurrentType, BatchFits DEF SubmitRefused, Close, Clear, TypeInv
  <2> QED
    BY <1>4, <2>1 DEF SubmitRefused, Close, Clear, Forget, FreeIn, TypeInv, TypeOK, FilesOfShown, Id
<1>5. ASSUME NEW h \in Hash, OpenFile(h) PROVE TypeInv'
  <2>1. commands' \in Seq(Command) /\ Len(commands') >= Len(commands) /\ batch' \in 0 .. Len(commands')
    BY <1>0, <1>5, CancelCurrentType, BatchFits DEF OpenFile, TypeInv
  <2>2. adds' \in 0 .. MaxAdds
    BY <1>5 DEF OpenFile, TypeInv, TypeOK
  <2> QED
    BY <1>5, <2>1, <2>2 DEF OpenFile, FreeIn, TypeInv, TypeOK, FilesOfShown, Id
<1>6. CASE SubmitFile
  <2>1. hash \in Hash
    BY <1>6 DEF SubmitFile, TypeInv, TypeOK, FilesOfShown, Id
  <2>2. Cmd("Add", hash, 0) \in Command
    BY <2>1 DEF Cmd, Command
  <2>3. Append(commands, Cmd("Add", hash, 0)) \in Seq(Command)
    BY <1>0, <2>2
  <2>4. Len(Append(commands, Cmd("Add", hash, 0))) = Len(commands) + 1 /\ Len(commands) \in Nat
    BY <1>0, <2>2
  <2>5. commands' \in Seq(Command) /\ Len(commands') >= Len(commands) + 1 /\ batch' = batch
    BY <1>6, <2>3, <2>4, CancelCurrentType DEF SubmitFile, TypeInv
  <2>6. batch' \in 0 .. Len(commands')
    BY <1>0, <2>4, <2>5
  <2> QED
    BY <1>6, <2>5, <2>6 DEF SubmitFile, Forget, FreeIn, TypeInv, TypeOK, FilesOfShown, Id
<1>7. ASSUME NEW h \in Hash, AddDirect(h) PROVE TypeInv'
  <2>1. Cmd("Add", h, 0) \in Command
    BY DEF Cmd, Command
  <2>2. commands' \in Seq(Command) /\ batch' \in 0 .. Len(commands')
    BY <1>0, <1>7, <2>1 DEF AddDirect
  <2>3. adds' \in 0 .. MaxAdds
    BY <1>7 DEF AddDirect, TypeInv, TypeOK
  <2> QED
    BY <1>7, <2>2, <2>3 DEF AddDirect, TypeInv, TypeOK, FilesOfShown
<1> QED
  BY <1>1, <1>2, <1>3, <1>4, <1>5, <1>6, <1>7 DEF User

\* The timers, and what follows them, keep the types.
LEMMA TimerType == TypeInv /\ (Timers \/ Continuations) => TypeInv'
<1> SUFFICES ASSUME TypeInv, Timers \/ Continuations PROVE TypeInv'
  OBVIOUS
<1> USE LoadsAssumption, NoHashAssumption DEF dialogVars, previewVars, roundVars, engineVars, ltVars, historyVars
<1>1. CASE DebounceFires
  <2>1. CASE field = NoHash /\ UNCHANGED <<ui, previewVars, commands, loads, begun, spoiled>>
    BY <1>1, <2>1 DEF DebounceFires, TypeInv, TypeOK, FilesOfShown
  <2>2. CASE field # NoHash /\ Load(field)
    <3>1. field \in Hash
      BY <2>2 DEF TypeInv, TypeOK, Id
    <3>2. commands' \in Seq(Command) /\ Len(commands') >= Len(commands) /\ batch' \in 0 .. Len(commands')
      BY <1>1, <2>2, <3>1, LoadType, BatchFits DEF DebounceFires, TypeInv
    <3> QED
      BY <1>1, <2>2, <3>1, <3>2, LoadType DEF DebounceFires, TypeInv, TypeOK
  <2> QED
    BY <1>1, <2>1, <2>2 DEF DebounceFires
<1>2. CASE PollTimer
  BY <1>2, PollType DEF PollTimer, TypeInv, TypeOK
<1>3. CASE CheckPolls
  <2>1. checks' \in Nat
    BY <1>3 DEF CheckPolls, TypeInv, TypeOK
  <2> QED
    BY <1>3, <2>1, PollType DEF CheckPolls, TypeInv, TypeOK
<1>4. CASE TimeoutFires
  BY <1>4 DEF TimeoutFires, TypeInv, TypeOK, FilesOfShown
<1>5. CASE ResultCheck
  <2>1. last_error' \in NoError .. OtherError
    BY <1>5 DEF ResultCheck, NoError, OtherError
  <2> QED
    BY <1>5, <2>1 DEF ResultCheck, uiVars, TypeInv, TypeOK, FilesOfShown
<1>6. CASE BeginReturns
  <2>1. last_error' \in NoError .. OtherError /\ checks' \in Nat
    BY <1>6 DEF BeginReturns, NoError, OtherError, TypeInv, TypeOK
  <2> QED
    BY <1>6, <2>1 DEF BeginReturns, TypeInv, TypeOK, FilesOfShown
<1>7. CASE CheckReads
  BY <1>7 DEF CheckReads, TypeInv, TypeOK, FilesOfShown
<1>8. CASE CheckTakesError
  <2>1. last_error' \in NoError .. OtherError
    BY <1>8 DEF CheckTakesError, NoError, OtherError
  <2> QED
    BY <1>8, <2>1 DEF CheckTakesError, TypeInv, TypeOK, FilesOfShown
<1> QED
  BY <1>1, <1>2, <1>3, <1>4, <1>5, <1>6, <1>7, <1>8 DEF Timers, Continuations

\* The command at the head of the queue, and the queue behind it.
LEMMA CurrentType ==
    ASSUME TypeOK, NEW type, At(type), NextCommand
    PROVE  /\ Current \in Hash /\ Head(commands).load \in 0 .. MaxLoads
           /\ commands # <<>> /\ Head(commands) = commands[1]
           /\ commands' \in Seq(Command) /\ batch' \in 0 .. Len(commands')
<1>1. commands \in Seq(Command) /\ batch \in 1 .. Len(commands) /\ Len(commands) \in Nat
  BY DEF TypeOK, At
<1>2. commands # <<>>
  BY <1>1
<1>3. Head(commands) \in Command /\ Head(commands) = commands[1]
  BY <1>1, <1>2
<1>4. Tail(commands) \in Seq(Command) /\ Len(Tail(commands)) = Len(commands) - 1
  BY <1>1, <1>2, HeadTailProperties
<1> QED
  BY <1>1, <1>2, <1>3, <1>4 DEF NextCommand, Current, Command

\* A new alert fits in the queue.
LEMMA AppendAlertType ==
    ASSUME TypeOK, NEW a \in Alert, alerts' = Append(alerts, a), popped' = popped
    PROVE  alerts' \in Seq(Alert) /\ popped' \in 0 .. Len(alerts')
<1>1. alerts \in Seq(Alert) /\ popped \in 0 .. Len(alerts) /\ Len(alerts) \in Nat
  BY DEF TypeOK
<1>2. alerts' \in Seq(Alert) /\ Len(alerts') = Len(alerts) + 1
  BY <1>1
<1> QED
  BY <1>1, <1>2

LEMMA NextAlertType ==
    ASSUME TypeOK, NEW type, Handling(type), NextAlert
    PROVE  /\ Head(alerts) \in Alert
           /\ alerts' \in Seq(Alert) /\ popped' \in 0 .. Len(alerts')
<1>1. alerts \in Seq(Alert) /\ popped \in 1 .. Len(alerts) /\ Len(alerts) \in Nat /\ alerts # <<>>
  BY DEF TypeOK, Handling
<1>2. Head(alerts) \in Alert
  BY <1>1
<1>3. Tail(alerts) \in Seq(Alert) /\ Len(Tail(alerts)) = Len(alerts) - 1
  BY <1>1, HeadTailProperties
<1> QED
  BY <1>1, <1>2, <1>3 DEF NextAlert

\* The engine's commands keep the types; they leave the UI thread alone.
LEMMA CommandType ==
    TypeInv /\ (BeginFails \/ BeginReusesListed \/ BeginAdds \/ Finalize \/ Cancel \/ AddKnown \/ AddNew) => TypeInv'
<1> SUFFICES ASSUME TypeInv, BeginFails \/ BeginReusesListed \/ BeginAdds \/ Finalize \/ Cancel \/ AddKnown \/ AddNew
             PROVE  TypeInv'
  OBVIOUS
<1> USE DEF uiVars, dialogVars, previewVars
<1>1. /\ Current \in Hash /\ Head(commands).load \in 0 .. MaxLoads
      /\ commands' \in Seq(Command) /\ batch' \in 0 .. Len(commands')
  BY CurrentType DEF BeginFails, BeginReusesListed, BeginAdds, Finalize, Cancel, AddKnown, AddNew, TypeInv
<1>2. ASSUME NEW h \in Hash, Stage(h) PROVE staged' \in [Hash -> {"no", "bare", "files"}]
  BY <1>2 DEF Stage, TypeInv, TypeOK
<1>3. ASSUME NEW h \in Hash, Unstage(h) PROVE staged' \in [Hash -> {"no", "bare", "files"}] /\ missed' \subseteq Hash
  BY <1>3 DEF Unstage, TypeInv, TypeOK
<1>4. ASSUME NEW h \in Hash, List(h) PROVE listed' \subseteq Hash
  BY <1>4 DEF List, TypeInv, TypeOK
<1>15. ASSUME NEW h \in Hash, Update(h) PROVE staged' \in [Hash -> {"no", "bare", "files"}] /\ listed' \subseteq Hash
  BY <1>2, <1>4, <1>15 DEF Update, TypeInv, TypeOK
<1>5. ASSUME NEW h \in Hash, AddTorrent(h), popped' = popped
      PROVE  live' \subseteq Hash /\ alerts' \in Seq(Alert) /\ popped' \in 0 .. Len(alerts')
  <2>1. [type |-> "added", hash |-> h] \in Alert
    BY DEF Alert
  <2> QED
    BY <1>5, <2>1, AppendAlertType DEF AddTorrent, TypeInv, TypeOK
<1>6. ASSUME NEW h \in Hash, Keep(h) PROVE kept' \subseteq Hash
  BY <1>6 DEF Keep, TypeInv, TypeOK
<1>7. Head(commands).load \in NoError .. OtherError /\ OtherError \in NoError .. OtherError
  BY <1>1, LoadsAssumption DEF NoError, OtherError
<1>8. CASE BeginFails
  BY <1>1, <1>7, <1>8 DEF BeginFails, NextCommand, ltVars, historyVars, TypeInv, TypeOK, FilesOfShown
<1>9. CASE BeginReusesListed
  BY <1>1, <1>2, <1>9 DEF BeginReusesListed, historyVars, TypeInv, TypeOK, FilesOfShown
<1>10. CASE BeginAdds
  BY <1>1, <1>2, <1>5, <1>10 DEF BeginAdds, historyVars, TypeInv, TypeOK, FilesOfShown
<1>11. CASE Finalize
  <2>1. /\ staged' \in [Hash -> {"no", "bare", "files"}] /\ listed' \subseteq Hash
        /\ missed' \subseteq Hash /\ kept' \subseteq Hash /\ last_error' \in NoError .. OtherError
    BY <1>1, <1>3, <1>4, <1>6, <1>7, <1>11 DEF Finalize, TypeInv, TypeOK
  <2> QED
    BY <1>1, <1>11, <2>1 DEF Finalize, TypeInv, TypeOK, FilesOfShown
<1>12. CASE Cancel
  <2>1. /\ staged' \in [Hash -> {"no", "bare", "files"}] /\ missed' \subseteq Hash
        /\ live' \subseteq Hash /\ known' \subseteq Hash /\ kept' \subseteq Hash
    BY <1>1, <1>3, <1>12 DEF Cancel, TypeInv, TypeOK
  <2>2. [type |-> "removed", hash |-> Current] \in Alert
    BY <1>1 DEF Alert
  <2>3. alerts' \in Seq(Alert) /\ popped' \in 0 .. Len(alerts')
    BY <1>12, <2>2, AppendAlertType DEF Cancel, TypeInv, TypeOK
  <2> QED
    BY <1>1, <1>12, <2>1, <2>3 DEF Cancel, TypeInv, TypeOK, FilesOfShown
<1>13. CASE AddKnown
  BY <1>1, <1>6, <1>13, <1>15 DEF AddKnown, TypeInv, TypeOK, FilesOfShown
<1>14. CASE AddNew
  <2>1. popped' = popped
    BY <1>14 DEF AddNew
  <2>2. /\ staged' \in [Hash -> {"no", "bare", "files"}] /\ listed' \subseteq Hash /\ kept' \subseteq Hash
        /\ live' \subseteq Hash /\ alerts' \in Seq(Alert) /\ popped' \in 0 .. Len(alerts')
        /\ last_error' \in NoError .. OtherError
    BY <1>1, <1>5, <1>6, <1>7, <1>14, <1>15, <2>1 DEF AddNew, TypeInv, TypeOK
  <2> QED
    BY <1>1, <1>14, <2>2 DEF AddNew, TypeInv, TypeOK, FilesOfShown
<1> QED
  BY <1>8, <1>9, <1>10, <1>11, <1>12, <1>13, <1>14

\* So do its round, libtorrent, and the errors of anything else.
LEMMA RoundType ==
    TypeInv /\ (TakeBatch \/ PopAlerts \/ HandleAdded \/ HandleRemoved \/ RefreshAll \/ Environment) => TypeInv'
<1> SUFFICES ASSUME TypeInv, TakeBatch \/ PopAlerts \/ HandleAdded \/ HandleRemoved \/ RefreshAll \/ Environment
             PROVE  TypeInv'
  OBVIOUS
<1> USE DEF uiVars, dialogVars, previewVars
<1>1. CASE TakeBatch
  <2>1. batch' \in 0 .. Len(commands')
    BY <1>1 DEF TakeBatch, TypeInv, TypeOK
  <2> QED
    BY <1>1, <2>1 DEF TakeBatch, engineVars, ltVars, historyVars, TypeInv, TypeOK, FilesOfShown
<1>2. CASE PopAlerts
  <2>1. popped' \in 0 .. Len(alerts')
    BY <1>2 DEF PopAlerts
  <2> QED
    BY <1>2, <2>1 DEF PopAlerts, engineVars, historyVars, TypeInv, TypeOK, FilesOfShown
<1>3. CASE HandleAdded
  <2>1. Head(alerts) \in Alert /\ alerts' \in Seq(Alert) /\ popped' \in 0 .. Len(alerts')
    BY <1>3, NextAlertType DEF HandleAdded, TypeInv
  <2>2. Head(alerts).hash \in Hash
    BY <2>1 DEF Alert
  <2>3. staged' \in [Hash -> {"no", "bare", "files"}] /\ listed' \subseteq Hash
    BY <1>3, <2>2 DEF HandleAdded, Update, Stage, List, TypeInv, TypeOK
  <2> QED
    BY <1>3, <2>1, <2>3 DEF HandleAdded, roundVars, historyVars, TypeInv, TypeOK, FilesOfShown
<1>4. CASE HandleRemoved
  <2>1. Head(alerts) \in Alert /\ alerts' \in Seq(Alert) /\ popped' \in 0 .. Len(alerts')
    BY <1>4, NextAlertType DEF HandleRemoved, TypeInv
  <2>2. staged' \in [Hash -> {"no", "bare", "files"}] /\ listed' \subseteq Hash /\ missed' \subseteq Hash
    BY <1>4 DEF HandleRemoved, Unstage, TypeInv, TypeOK
  <2> QED
    BY <1>4, <2>1, <2>2 DEF HandleRemoved, roundVars, historyVars, TypeInv, TypeOK, FilesOfShown
<1>5. CASE RefreshAll
  <2>1. staged' \in [Hash -> {"no", "bare", "files"}]
    BY <1>5 DEF RefreshAll, TypeInv, TypeOK
  <2> QED
    BY <1>5, <2>1 DEF RefreshAll, ltVars, historyVars, TypeInv, TypeOK, FilesOfShown
<1>6. CASE EngineError
  <2>1. last_error' \in NoError .. OtherError
    BY <1>6, LoadsAssumption DEF EngineError, NoError, OtherError
  <2> QED
    BY <1>6, <2>1 DEF EngineError, roundVars, ltVars, historyVars, TypeInv, TypeOK, FilesOfShown
<1>7. ASSUME NEW h \in Hash, MetadataArrives(h) PROVE TypeInv'
  BY <1>7 DEF MetadataArrives, roundVars, engineVars, historyVars, TypeInv, TypeOK, FilesOfShown
<1> QED
  BY <1>1, <1>2, <1>3, <1>4, <1>5, <1>6, <1>7 DEF Environment

LEMMA NextType == TypeInv /\ [Next]_vars => TypeInv'
<1>1. TypeInv /\ Worker => TypeInv'
  BY CommandType, RoundType DEF Worker
<1>2. TypeInv /\ UNCHANGED vars => TypeInv'
  BY DEF vars, uiVars, dialogVars, previewVars, roundVars, engineVars, ltVars, historyVars, TypeInv, TypeOK, FilesOfShown
<1> QED
  BY <1>1, <1>2, UserType, TimerType, RoundType DEF Next

\* Type correctness, for every number of torrents, previews and commands.
THEOREM TypeCorrect == Spec => []TypeOK
<1>1. TypeInv => TypeOK
  BY DEF TypeInv
<1> QED
  BY <1>1, InitType, NextType, PTL DEF Spec

\* The files shown are those of the torrent shown.
THEOREM ShownFiles == Spec => []FilesOfShown
<1>1. TypeInv => FilesOfShown
  BY DEF TypeInv
<1> QED
  BY <1>1, InitType, NextType, PTL DEF Spec

-----------------------------------------------------------------------------
(* No forgotten preview, and no deadlock of the worker with itself *)

\* The torrents staged, but for those a Finalize missed: their command is gone, and only a removed
\* alert unstages them (DoomInv).
Lasting == [h \in Hash |-> IF h \in missed THEN Empty ELSE staged[h]]

KnownInv == Known(Lasting, commands, hash)

LEMMA KnownInit == Init => KnownInv
<1> SUFFICES ASSUME Init PROVE KnownInv
  OBVIOUS
<1>1. Len(commands) = 0 /\ \A h \in Hash : Lasting[h] = Empty
  BY DEF Init, Empty, Lasting
<1>2. ~ \E i \in 1 .. Len(commands) : TRUE
  BY <1>1
<1> QED
  BY <1>1, <1>2 DEF KnownInv, Known

\* Cancelling the current preview lets the controller forget it.
LEMMA KnownCancel ==
    ASSUME TypeOK, NEW s, NEW q \in Seq(Command), Known(s, q, hash)
    PROVE  Known(s, CancelCurrent(q), NoHash)
<1>1. CASE hash = NoHash
  BY <1>1 DEF CancelCurrent
<1>2. CASE hash # NoHash
  <2>1. Cmd("Cancel", hash, 0) \in Command
    BY <1>2, LoadsAssumption DEF TypeOK, Id, Cmd, Command
  <2>2. Closing(Cmd("Cancel", hash, 0), hash) /\ Cmd("Cancel", hash, 0).type # "Begin"
    BY DEF Closing, Cmd
  <2> QED
    BY <1>2, <2>1, <2>2, KnownAppend DEF CancelCurrent
<1> QED
  BY <1>1, <1>2

\* A controller without a preview may take one over: it remembers more.
LEMMA KnownMore ==
    ASSUME NEW s, NEW q, NEW y, Known(s, q, NoHash)
    PROVE  Known(s, q, y)
  BY NoHashAssumption DEF Known

\* Loading a preview cancels the one before it.
LEMMA LoadKnown ==
    ASSUME TypeOK, KnownInv, NEW h \in Hash, Load(h), Lasting' = Lasting
    PROVE  KnownInv'
<1>0. commands \in Seq(Command)
  BY DEF TypeOK
<1>1. CASE LoadRefused
  BY <1>1 DEF LoadRefused, KnownInv
<1>2. CASE LoadFails
  BY <1>0, <1>2, KnownCancel DEF LoadFails, Clear, Forget, KnownInv
<1>3. CASE LoadBegins(h)
  <2>1. Cmd("Begin", h, loads') \in Command
    <3>1. loads' \in 0 .. MaxLoads
      BY <1>3, LoadsAssumption DEF LoadBegins, TypeOK
    <3> QED
      BY <3>1 DEF Cmd, Command
  <2>2. Begins(Cmd("Begin", h, loads'), h)
    BY DEF Begins, Cmd
  <2>3. CancelCurrent(commands) \in Seq(Command)
    BY <1>0, CancelCurrentType
  <2>4. Known(Lasting, CancelCurrent(commands), NoHash)
    BY <1>0, KnownCancel DEF KnownInv
  <2>5. Known(Lasting, Append(CancelCurrent(commands), Cmd("Begin", h, loads')), h)
    BY <2>1, <2>2, <2>3, <2>4, KnownBegin
  <2> QED
    BY <1>3, <2>5 DEF LoadBegins, KnownInv
<1> QED
  BY <1>1, <1>2, <1>3 DEF Load

\* A poll changes neither the queue nor the hash.
LEMMA PollKnown == PollPreview => hash' = hash
  BY DEF PollPreview, previewVars

\* The user and the timers keep the invariant.
LEMMA UiKnown == TypeInv /\ KnownInv /\ (User \/ Timers \/ Continuations) => KnownInv'
<1> SUFFICES ASSUME TypeInv, KnownInv, User \/ Timers \/ Continuations PROVE KnownInv'
  OBVIOUS
<1> USE DEF previewVars, engineVars
<1>0. TypeOK /\ commands \in Seq(Command)
  BY DEF TypeInv, TypeOK
<1>11. Lasting' = Lasting
  <2>1. UNCHANGED <<staged, missed>>
    BY DEF User, OpenMagnet, Edit, Submit, SubmitRefused, Close, OpenFile, SubmitFile, AddDirect, Timers,
           DebounceFires, PollTimer, CheckPolls, TimeoutFires, ResultCheck, Continuations, BeginReturns,
           CheckReads, CheckTakesError, historyVars
  <2> QED
    BY <2>1 DEF Lasting
<1>1. CASE OpenMagnet \/ DebounceFires
  <2>2. \/ UNCHANGED <<commands, hash>>
        \/ field \in Hash /\ Load(field)
    BY <1>0, <1>1 DEF OpenMagnet, DebounceFires, TypeOK, Id
  <2> QED
    BY <1>0, <1>11, <2>2, LoadKnown DEF KnownInv
<1>2. ASSUME NEW u \in Id, Edit(u) PROVE KnownInv'
  BY <1>2, <1>11 DEF Edit, KnownInv
<1>3. CASE Submit
  <2>1. hash \in Hash
    BY <1>3 DEF Submit, TypeInv, TypeOK, FilesOfShown, Id
  <2>2. Cmd("Finalize", hash, 0) \in Command /\ Cmd("Finalize", hash, 0).type # "Begin"
        /\ Closing(Cmd("Finalize", hash, 0), hash)
    BY <2>1, LoadsAssumption DEF Cmd, Command, Closing
  <2>3. Known(Lasting, Append(commands, Cmd("Finalize", hash, 0)), NoHash)
    BY <1>0, <2>2, KnownAppend DEF KnownInv
  <2> QED
    BY <1>3, <1>11, <2>3 DEF Submit, Accept, Forget, KnownInv
<1>4. CASE SubmitRefused \/ Close
  BY <1>0, <1>4, <1>11, KnownCancel DEF SubmitRefused, Close, Clear, Forget, KnownInv
<1>5. ASSUME NEW h \in Hash, OpenFile(h) PROVE KnownInv'
  <2>1. Known(Lasting, CancelCurrent(commands), NoHash)
    BY <1>0, KnownCancel DEF KnownInv
  <2>2. Known(Lasting, CancelCurrent(commands), h)
    BY <2>1, KnownMore
  <2> QED
    BY <1>5, <1>11, <2>1, <2>2 DEF OpenFile, KnownInv
<1>6. CASE SubmitFile
  <2>1. hash \in Hash
    BY <1>6 DEF SubmitFile, TypeInv, TypeOK, FilesOfShown, Id
  <2>2. Cmd("Add", hash, 0) \in Command /\ Cmd("Add", hash, 0).type # "Begin"
    BY <2>1, LoadsAssumption DEF Cmd, Command
  <2>3. Append(commands, Cmd("Add", hash, 0)) \in Seq(Command)
    BY <1>0, <2>2
  <2>4. Known(Lasting, Append(commands, Cmd("Add", hash, 0)), hash)
    BY <1>0, <2>2, KnownAppend DEF KnownInv
  <2>5. Known(Lasting, CancelCurrent(Append(commands, Cmd("Add", hash, 0))), NoHash)
    BY <1>0, <2>3, <2>4, KnownCancel
  <2> QED
    BY <1>6, <1>11, <2>5 DEF SubmitFile, Forget, KnownInv
<1>7. ASSUME NEW h \in Hash, AddDirect(h) PROVE KnownInv'
  <2>1. Cmd("Add", h, 0) \in Command /\ Cmd("Add", h, 0).type # "Begin"
    BY LoadsAssumption DEF Cmd, Command
  <2>2. Known(Lasting, Append(commands, Cmd("Add", h, 0)), hash)
    BY <1>0, <2>1, KnownAppend DEF KnownInv
  <2> QED
    BY <1>7, <1>11, <2>2 DEF AddDirect, KnownInv
<1>8. CASE PollTimer \/ CheckPolls
  BY <1>8, <1>11, PollKnown DEF PollTimer, CheckPolls, KnownInv
<1>9. CASE TimeoutFires \/ BeginReturns \/ CheckReads \/ CheckTakesError
  BY <1>9, <1>11 DEF TimeoutFires, BeginReturns, CheckReads, CheckTakesError, KnownInv
<1>10. CASE ResultCheck
  BY <1>10, <1>11 DEF ResultCheck, uiVars, KnownInv
<1> QED
  BY <1>1, <1>2, <1>3, <1>4, <1>5, <1>6, <1>7, <1>8, <1>9, <1>10 DEF User, Timers, Continuations

\* The engine's commands keep the invariant: each consumes the first of the queue.
LEMMA CommandKnown ==
    TypeInv /\ KnownInv /\ (BeginFails \/ BeginReusesListed \/ BeginAdds \/ Finalize \/ Cancel \/ AddKnown \/ AddNew)
    => KnownInv'
<1> SUFFICES ASSUME TypeInv, KnownInv,
                    BeginFails \/ BeginReusesListed \/ BeginAdds \/ Finalize \/ Cancel \/ AddKnown \/ AddNew
             PROVE  KnownInv'
  OBVIOUS
<1> USE DEF uiVars, previewVars, engineVars
<1>0. TypeOK /\ staged \in [Hash -> {"no", "bare", "files"}] /\ commands \in Seq(Command)
  BY DEF TypeInv, TypeOK
<1>1. Current \in Hash /\ commands # <<>> /\ Current = commands[1].hash /\ Head(commands) = commands[1]
  BY <1>0, CurrentType DEF BeginFails, BeginReusesListed, BeginAdds, Finalize, Cancel, AddKnown, AddNew, Current
<1>2. commands' = Tail(commands) /\ hash' = hash
  BY DEF BeginFails, BeginReusesListed, BeginAdds, Finalize, Cancel, AddKnown, AddNew, NextCommand
<1>3. SUFFICES \A h \in Hash : Lasting'[h] # Empty =>
                 (Lasting[h] # Empty /\ ~Closing(commands[1], h)) \/ Begins(commands[1], h)
  BY <1>0, <1>1, <1>2, KnownConsume DEF KnownInv
<1>10. \A h \in Hash : /\ Lasting[h] # Empty <=> h \notin missed /\ Staged(h)
                       /\ Lasting'[h] # Empty <=> h \notin missed' /\ Staged(h)'
  BY DEF Lasting, Staged, Empty
<1>4. CASE BeginFails
  <2>1. UNCHANGED <<staged, missed>>
    BY <1>4 DEF BeginFails, historyVars
  <2> QED
    BY <1>1, <1>4, <1>10, <2>1 DEF BeginFails, At, Closing, Staged
<1>5. CASE BeginReusesListed \/ BeginAdds
  <2>1. At("Begin") /\ Stage(Current) /\ missed' = missed
    BY <1>5 DEF BeginReusesListed, BeginAdds, historyVars
  <2>2. \A h \in Hash : h # Current => staged'[h] = staged[h]
    BY <1>0, <2>1 DEF Stage
  <2> QED
    BY <1>1, <1>10, <2>1, <2>2 DEF At, Begins, Closing, Staged
<1>6. CASE Finalize
  <2>1. \/ Unstage(Current)
        \/ staged' = staged /\ missed' = missed \cup {Current}
        \/ staged' = staged /\ missed' = missed /\ ~Staged(Current)
    BY <1>6 DEF Finalize
  <2>2. \A h \in Hash : h \notin missed' /\ Staged(h)' => h # Current /\ h \notin missed /\ Staged(h)
    BY <1>0, <1>1, <2>1 DEF Unstage, Staged
  <2> QED
    BY <1>1, <1>10, <2>2 DEF Closing
<1>7. CASE Cancel
  <2>1. Unstage(Current) \/ (staged' = staged /\ missed' = missed /\ ~Staged(Current))
    BY <1>7 DEF Cancel
  <2>2. \A h \in Hash : h \notin missed' /\ Staged(h)' => h # Current /\ h \notin missed /\ Staged(h)
    BY <1>0, <1>1, <2>1 DEF Unstage, Staged
  <2> QED
    BY <1>1, <1>10, <2>2 DEF Closing
<1>8. CASE AddKnown \/ AddNew
  <2>1. At("Add") /\ missed' = missed /\ (Update(Current) \/ UNCHANGED staged)
    BY <1>8 DEF AddKnown, AddNew
  <2>2. \A h \in Hash : Staged(h)' => Staged(h)
    BY <1>0, <1>1, <2>1 DEF Update, Stage, Staged
  <2> QED
    BY <1>1, <1>10, <2>1, <2>2 DEF At, Closing
<1> QED
  BY <1>4, <1>5, <1>6, <1>7, <1>8

\* The rest of a round stages nothing that was not staged.
LEMMA RoundKnown ==
    TypeInv /\ KnownInv /\ (TakeBatch \/ PopAlerts \/ HandleAdded \/ HandleRemoved \/ RefreshAll \/ Environment)
    => KnownInv'
<1> SUFFICES ASSUME TypeInv, KnownInv,
                    TakeBatch \/ PopAlerts \/ HandleAdded \/ HandleRemoved \/ RefreshAll \/ Environment
             PROVE  KnownInv'
  OBVIOUS
<1> USE DEF uiVars, previewVars, engineVars, historyVars
<1>1. staged \in [Hash -> {"no", "bare", "files"}]
  BY DEF TypeInv, TypeOK
<1>2. commands' = commands /\ hash' = hash
  BY DEF TakeBatch, PopAlerts, HandleAdded, HandleRemoved, RefreshAll, Environment, EngineError, MetadataArrives
<1>3. SUFFICES \A h \in Hash : h \notin missed' /\ Staged(h)' => h \notin missed /\ Staged(h)
  <2>1. \A h \in Hash : Lasting'[h] # Empty => Lasting[h] # Empty
    BY <1>3 DEF Lasting, Staged, Empty
  <2> QED
    BY <1>2, <2>1, KnownUnstage DEF KnownInv
<1>4. CASE TakeBatch \/ PopAlerts \/ Environment
  <2>1. UNCHANGED <<staged, missed>>
    BY <1>4 DEF TakeBatch, PopAlerts, Environment, EngineError, MetadataArrives
  <2> QED
    BY <2>1 DEF Staged
<1>5. CASE HandleAdded
  <2>1. missed' = missed /\ Update(Head(alerts).hash)
    BY <1>5 DEF HandleAdded
  <2> QED
    BY <1>1, <2>1 DEF Update, Stage, Staged
<1>6. CASE HandleRemoved
  BY <1>1, <1>6 DEF HandleRemoved, Unstage, Staged
<1>7. CASE RefreshAll
  BY <1>1, <1>7 DEF RefreshAll, Staged
<1> QED
  BY <1>4, <1>5, <1>6, <1>7

LEMMA KnownNext == TypeInv /\ KnownInv /\ [Next]_vars => KnownInv'
<1>1. TypeInv /\ KnownInv /\ Worker => KnownInv'
  BY CommandKnown, RoundKnown DEF Worker
<1>2. KnownInv /\ UNCHANGED vars => KnownInv'
  BY DEF vars, uiVars, previewVars, engineVars, historyVars, KnownInv, Lasting
<1> QED
  BY <1>1, <1>2, UiKnown, RoundKnown DEF Next

-----------------------------------------------------------------------------
(* What is kept of a removed torrent is erased *)

Removed(h) == [type |-> "removed", hash |-> h]

\* No added alert of h may list it again behind its last removed alert.
Erased(h) ==
    \A i \in 1 .. Len(alerts) : alerts[i] = [type |-> "added", hash |-> h] =>
        \E j \in 1 .. Len(alerts) : j > i /\ alerts[j] = Removed(h)

\* The removed alert of a torrent that is removed and still found, and of one that a Finalize
\* missed, is to be handled; the second is staged until then, even if it is added anew.
DoomInv ==
    /\ \A h \in Hash : h \notin live => (Found(h) => Doomed(h)) /\ Erased(h)
    /\ \A h \in missed : Staged(h) /\ Doomed(h)

LEMMA DoomInit == Init => DoomInv
<1> SUFFICES ASSUME Init PROVE DoomInv
  OBVIOUS
<1>1. missed = {} /\ Len(alerts) = 0 /\ \A h \in Hash : ~Found(h)
  BY DEF Init, Found, Staged
<1> QED
  BY <1>1 DEF DoomInv, Erased

\* A new alert leaves those before it where they are; a removed one erases its torrent.
LEMMA DoomAppend ==
    ASSUME TypeOK, NEW a \in Alert, alerts' = Append(alerts, a), NEW h \in Hash
    PROVE  /\ Doomed(h) => Doomed(h)'
           /\ a = Removed(h) => Doomed(h)' /\ Erased(h)'
           /\ Erased(h) /\ a.hash # h => Erased(h)'
<1>1. /\ DOMAIN alerts = 1 .. Len(alerts) /\ DOMAIN alerts' = 1 .. Len(alerts')
      /\ Len(alerts) \in Nat /\ Len(alerts') = Len(alerts) + 1 /\ alerts'[Len(alerts) + 1] = a
      /\ \A i \in 1 .. Len(alerts) : i \in 1 .. Len(alerts') /\ alerts'[i] = alerts[i]
  BY DEF TypeOK
<1>2. Doomed(h) => Doomed(h)'
  BY <1>1 DEF Doomed
<1>3. Len(alerts) + 1 \in 1 .. Len(alerts') /\ \A i \in 1 .. Len(alerts') : i # Len(alerts) + 1 => i \in 1 .. Len(alerts)
  BY <1>1
<1>4. ASSUME a = Removed(h) PROVE Doomed(h)' /\ Erased(h)'
  <2>1. Doomed(h)'
    BY <1>1, <1>3, <1>4 DEF Doomed, Removed
  <2>2. \A i \in 1 .. Len(alerts') : alerts'[i] = [type |-> "added", hash |-> h] => Len(alerts) + 1 > i
    <3>1. a # [type |-> "added", hash |-> h]
      BY <1>4 DEF Removed
    <3> QED
      BY <1>1, <1>3, <3>1
  <2> QED
    BY <1>1, <1>3, <1>4, <2>1, <2>2 DEF Erased
<1>5. ASSUME Erased(h), a.hash # h PROVE Erased(h)'
  <2> SUFFICES ASSUME NEW i \in 1 .. Len(alerts'), alerts'[i] = [type |-> "added", hash |-> h]
               PROVE  \E j \in 1 .. Len(alerts') : j > i /\ alerts'[j] = Removed(h)
    BY DEF Erased
  <2>1. i # Len(alerts) + 1
    BY <1>1, <1>5
  <2>2. i \in 1 .. Len(alerts) /\ alerts[i] = [type |-> "added", hash |-> h]
    BY <1>1, <1>3, <2>1
  <2>3. PICK j \in 1 .. Len(alerts) : j > i /\ alerts[j] = Removed(h)
    BY <1>5, <2>2 DEF Erased
  <2> QED
    BY <1>1, <2>3
<1> QED
  BY <1>2, <1>4, <1>5

\* An alert handled is that of one torrent, and the removed alert of a torrent that is erased
\* comes behind its added alert.
LEMMA DoomTail ==
    ASSUME TypeOK, NEW type, Handling(type), NextAlert, NEW h \in Hash
    PROVE  /\ Doomed(h) /\ Head(alerts) # Removed(h) => Doomed(h)'
           /\ Erased(h) => Erased(h)'
           /\ Erased(h) /\ Head(alerts) = [type |-> "added", hash |-> h] => Doomed(h)'
<1>1. /\ DOMAIN alerts = 1 .. Len(alerts) /\ DOMAIN alerts' = 1 .. Len(alerts')
      /\ Len(alerts) \in Nat \ {0} /\ Len(alerts') = Len(alerts) - 1 /\ Head(alerts) = alerts[1]
      /\ \A i \in 1 .. Len(alerts') : i + 1 \in 1 .. Len(alerts) /\ alerts'[i] = alerts[i + 1]
  <2>1. alerts \in Seq(Alert) /\ alerts # <<>> /\ alerts' = Tail(alerts)
    BY DEF TypeOK, Handling, NextAlert
  <2> QED
    BY <2>1, HeadTailProperties
<1>2. \A j \in 1 .. Len(alerts) : j > 1 => j - 1 \in 1 .. Len(alerts') /\ alerts'[j - 1] = alerts[j]
  <2> SUFFICES ASSUME NEW j \in 1 .. Len(alerts), j > 1
               PROVE  j - 1 \in 1 .. Len(alerts') /\ alerts'[j - 1] = alerts[j]
    OBVIOUS
  <2>1. j - 1 \in 1 .. Len(alerts') /\ j - 1 + 1 = j
    BY <1>1
  <2> QED
    BY <1>1, <2>1
<1>3. ASSUME Doomed(h), Head(alerts) # Removed(h) PROVE Doomed(h)'
  <2>1. PICK j \in 1 .. Len(alerts) : alerts[j] = Removed(h)
    BY <1>1, <1>3 DEF Doomed, Removed
  <2>2. j > 1
    BY <1>1, <1>3, <2>1
  <2> QED
    BY <1>1, <1>2, <2>1, <2>2 DEF Doomed, Removed
<1>4. ASSUME Erased(h) PROVE Erased(h)'
  <2> SUFFICES ASSUME NEW i \in 1 .. Len(alerts'), alerts'[i] = [type |-> "added", hash |-> h]
               PROVE  \E j \in 1 .. Len(alerts') : j > i /\ alerts'[j] = Removed(h)
    BY DEF Erased
  <2>1. PICK j \in 1 .. Len(alerts) : j > i + 1 /\ alerts[j] = Removed(h)
    BY <1>1, <1>4 DEF Erased
  <2>2. j > 1 /\ j - 1 > i
    BY <2>1, <1>1
  <2> QED
    BY <1>2, <2>1, <2>2
<1>5. ASSUME Erased(h), Head(alerts) = [type |-> "added", hash |-> h] PROVE Doomed(h)'
  <2>0. 1 \in 1 .. Len(alerts) /\ alerts[1] = [type |-> "added", hash |-> h]
    BY <1>1, <1>5
  <2>1. PICK j \in 1 .. Len(alerts) : j > 1 /\ alerts[j] = Removed(h)
    BY <1>5, <2>0 DEF Erased
  <2> QED
    BY <1>1, <1>2, <2>1 DEF Doomed, Removed
<1> QED
  BY <1>3, <1>4, <1>5

\* A step that removes no torrent, finds none that was lost, and keeps the alerts and what was missed.
LEMMA DoomKept ==
    ASSUME DoomInv, live \subseteq live', alerts' = alerts, missed' = missed,
           \A h \in Hash : h \notin live /\ Found(h)' => Found(h),
           \A h \in missed : Staged(h) => Staged(h)'
    PROVE  DoomInv'
  BY DEF DoomInv, Doomed, Erased

LEMMA DoomCommand ==
    TypeInv /\ DoomInv /\ (BeginFails \/ BeginReusesListed \/ BeginAdds \/ Finalize \/ Cancel \/ AddKnown \/ AddNew)
    => DoomInv'
<1> SUFFICES ASSUME TypeInv, DoomInv,
                    BeginFails \/ BeginReusesListed \/ BeginAdds \/ Finalize \/ Cancel \/ AddKnown \/ AddNew
             PROVE  DoomInv'
  OBVIOUS
<1> USE DEF ltVars, historyVars
<1>0. TypeOK /\ staged \in [Hash -> {"no", "bare", "files"}] /\ missed \subseteq Hash
  BY DEF TypeInv, TypeOK
<1>1. Current \in Hash
  BY <1>0, CurrentType DEF BeginFails, BeginReusesListed, BeginAdds, Finalize, Cancel, AddKnown, AddNew
<1>2. ASSUME Update(Current) \/ UNCHANGED <<staged, listed>>
      PROVE  /\ \A h \in Hash : Found(h)' => Found(h) \/ h = Current
             /\ \A h \in Hash : Staged(h) => Staged(h)'
  BY <1>0, <1>1, <1>2 DEF Update, Stage, List, Found, Staged
<1>3. ASSUME Stage(Current), UNCHANGED listed
      PROVE  /\ \A h \in Hash : Found(h)' => Found(h) \/ h = Current
             /\ \A h \in Hash : Staged(h) => Staged(h)'
  BY <1>0, <1>1, <1>3 DEF Stage, Found, Staged
\* libtorrent adds the torrent.
<1>4. ASSUME AddTorrent(Current), missed' = missed,
             \A h \in Hash : Found(h)' => Found(h) \/ h = Current,
             \A h \in Hash : Staged(h) => Staged(h)'
      PROVE  DoomInv'
  <2> DEFINE a == [type |-> "added", hash |-> Current]
  <2>1. a \in Alert /\ alerts' = Append(alerts, a) /\ live' = live \cup {Current}
    BY <1>1, <1>4 DEF AddTorrent, Alert
  <2>2. \A h \in Hash : (Doomed(h) => Doomed(h)') /\ (Erased(h) /\ h # Current => Erased(h)')
    BY <1>0, <2>1, DoomAppend
  <2> QED
    BY <1>0, <1>4, <2>1, <2>2 DEF DoomInv
<1>5. CASE BeginFails
  BY <1>5, DoomKept DEF BeginFails, Found, Staged
<1>6. CASE BeginReusesListed
  <2>1. Found(Current) /\ Stage(Current) /\ UNCHANGED <<live, alerts, missed, listed>>
    BY <1>6 DEF BeginReusesListed, Found
  <2> QED
    BY <1>0, <1>3, <2>1, DoomKept
<1>7. CASE BeginAdds
  BY <1>3, <1>4, <1>7 DEF BeginAdds
<1>8. CASE Finalize
  <2>1. UNCHANGED <<live, alerts>>
    BY <1>8 DEF Finalize
  <2>2. CASE Found(Current) /\ Unstage(Current) /\ List(Current)
    <3>1. \A h \in Hash : Found(h)' => Found(h)
      BY <1>0, <1>1, <2>2 DEF Unstage, List, Found, Staged
    <3>2. missed' \subseteq missed /\ \A h \in missed' : Staged(h) => Staged(h)'
      BY <1>0, <1>1, <2>2 DEF Unstage, Staged
    <3> QED
      BY <2>1, <3>1, <3>2 DEF DoomInv, Doomed, Erased
  <2>3. CASE /\ Lost(Current) /\ UNCHANGED <<staged, listed>>
             /\ missed' = IF Staged(Current) THEN missed \cup {Current} ELSE missed
    <3>1. Staged(Current) => Doomed(Current)
      BY <1>1, <2>3 DEF DoomInv, Lost, Found
    <3>2. \A h \in missed' : Staged(h) /\ Doomed(h)
      BY <2>3, <3>1 DEF DoomInv
    <3> QED
      BY <2>1, <2>3, <3>2 DEF DoomInv, Doomed, Erased, Found, Staged
  <2> QED
    BY <1>8, <2>2, <2>3 DEF Finalize
<1>9. CASE Cancel
  <2>1. UNCHANGED listed /\ (Unstage(Current) \/ (~Staged(Current) /\ UNCHANGED <<staged, missed>>))
    BY <1>9 DEF Cancel
  <2>2. \A h \in Hash : Found(h)' => Found(h)
    BY <1>0, <1>1, <2>1 DEF Unstage, Found, Staged
  <2>3. missed' \subseteq missed /\ \A h \in missed' : Staged(h) => Staged(h)'
    BY <1>0, <1>1, <2>1 DEF Unstage, Staged
  <2>4. CASE live' = live \ {Current} /\ alerts' = Append(alerts, Removed(Current))
    <3>1. Removed(Current) \in Alert
      BY <1>1 DEF Removed, Alert
    <3>2. \A h \in Hash : (Doomed(h) => Doomed(h)') /\ (Erased(h) /\ h # Current => Erased(h)')
      <4>1. Removed(Current).hash = Current
        BY DEF Removed
      <4> QED
        BY <1>0, <2>4, <3>1, <4>1, DoomAppend
    <3>3. PICK g \in Hash : g = Current
      BY <1>1
    <3>4. Doomed(g)' /\ Erased(g)'
      BY <1>0, <2>4, <3>1, <3>3, DoomAppend
    <3>5. ASSUME NEW h \in Hash, h \notin live' PROVE (Found(h)' => Doomed(h)') /\ Erased(h)'
      <4>1. CASE h = g
        BY <3>4, <4>1
      <4>2. CASE h # g
        <5>1. h \notin live
          BY <2>4, <3>3, <3>5, <4>2
        <5> QED
          BY <2>2, <3>2, <3>3, <4>2, <5>1 DEF DoomInv
      <4> QED
        BY <4>1, <4>2
    <3>6. \A h \in missed' : Staged(h)' /\ Doomed(h)'
      BY <1>0, <2>3, <3>2 DEF DoomInv
    <3> QED
      BY <3>5, <3>6 DEF DoomInv
  <2>5. CASE UNCHANGED <<live, alerts>>
    BY <2>2, <2>3, <2>5 DEF DoomInv, Doomed, Erased
  <2> QED
    BY <1>9, <2>4, <2>5 DEF Cancel, Removed
<1>10. CASE AddKnown
  <2>1. Found(Current) /\ Update(Current) /\ UNCHANGED <<live, alerts, missed>>
    BY <1>10 DEF AddKnown
  <2> QED
    BY <1>0, <1>2, <2>1, DoomKept
<1>11. CASE AddNew
  <2>1. missed' = missed /\ (Update(Current) \/ UNCHANGED <<staged, listed>>)
    BY <1>11 DEF AddNew
  <2>2. CASE UNCHANGED <<staged, listed, live, alerts>>
    BY <2>1, <2>2, DoomKept DEF Found, Staged
  <2>3. CASE AddTorrent(Current)
    BY <1>2, <1>4, <2>1, <2>3
  <2> QED
    BY <1>11, <2>2, <2>3 DEF AddNew
<1> QED
  BY <1>5, <1>6, <1>7, <1>8, <1>9, <1>10, <1>11

LEMMA DoomRound ==
    TypeInv /\ DoomInv /\ (TakeBatch \/ PopAlerts \/ HandleAdded \/ HandleRemoved \/ RefreshAll \/ Environment)
    => DoomInv'
<1> SUFFICES ASSUME TypeInv, DoomInv,
                    TakeBatch \/ PopAlerts \/ HandleAdded \/ HandleRemoved \/ RefreshAll \/ Environment
             PROVE  DoomInv'
  OBVIOUS
<1> USE DEF engineVars, ltVars, historyVars
<1>0. TypeOK /\ staged \in [Hash -> {"no", "bare", "files"}] /\ missed \subseteq Hash
  BY DEF TypeInv, TypeOK
<1>1. CASE TakeBatch \/ PopAlerts \/ Environment
  <2>1. UNCHANGED <<staged, listed, live, alerts, missed>>
    BY <1>1 DEF TakeBatch, PopAlerts, Environment, EngineError, MetadataArrives
  <2> QED
    BY <2>1, DoomKept DEF Found, Staged
<1>2. CASE RefreshAll
  <2>1. UNCHANGED <<listed, live, alerts, missed>> /\ \A h \in Hash : Staged(h)' <=> Staged(h)
    BY <1>0, <1>2 DEF RefreshAll, Staged
  <2> QED
    BY <1>0, <2>1, DoomKept DEF Found
<1>3. CASE HandleAdded \/ HandleRemoved
  <2>1. PICK type : Handling(type) /\ NextAlert
    BY <1>3 DEF HandleAdded, HandleRemoved
  <2>2. Head(alerts) \in Alert
    BY <1>0, <2>1, NextAlertType
  <2>3. PICK g \in Hash : Head(alerts).hash = g
    BY <2>2 DEF Alert
  <2>4. \A h \in Hash : /\ Doomed(h) /\ Head(alerts) # Removed(h) => Doomed(h)'
                        /\ Erased(h) => Erased(h)'
    BY <1>0, <2>1, DoomTail
  <2>5. CASE HandleAdded
    <3>1. Update(g) /\ UNCHANGED <<live, missed>> /\ Head(alerts).type = "added"
      BY <1>3, <2>3, <2>5 DEF HandleAdded, Handling
    <3>2. Head(alerts) = [type |-> "added", hash |-> g]
      BY <2>2, <2>3, <3>1 DEF Alert
    <3>6. \A h \in Hash : Head(alerts) # Removed(h)
      BY <3>2 DEF Removed
    <3>3. \A h \in Hash : (Doomed(h) => Doomed(h)') /\ (Erased(h) => Erased(h)')
      BY <2>4, <3>6
    <3>4. Erased(g) => Doomed(g)'
      BY <1>0, <2>1, <3>2, DoomTail
    <3>5. \A h \in Hash : (Found(h)' => Found(h) \/ h = g) /\ (Staged(h) => Staged(h)')
      BY <1>0, <3>1 DEF Update, Stage, List, Found, Staged
    <3> QED
      BY <1>0, <3>1, <3>3, <3>4, <3>5 DEF DoomInv
  <2>6. CASE HandleRemoved
    <3>1. Unstage(g) /\ listed' = listed \ {g} /\ live' = live
      BY <2>3, <2>6 DEF HandleRemoved
    <3>2. ~Found(g)' /\ \A h \in Hash : (Found(h)' => Found(h)) /\ (h # g /\ Staged(h) => Staged(h)')
      BY <1>0, <3>1 DEF Unstage, Found, Staged
    <3>3. missed' = missed \ {g}
      BY <3>1 DEF Unstage
    <3>4. \A h \in Hash : h # g => Head(alerts) # Removed(h)
      BY <2>3 DEF Removed
    <3> QED
      BY <1>0, <2>4, <3>1, <3>2, <3>3, <3>4 DEF DoomInv
  <2> QED
    BY <1>3, <2>5, <2>6
<1> QED
  BY <1>1, <1>2, <1>3

LEMMA DoomNext == TypeInv /\ DoomInv /\ [Next]_vars => DoomInv'
<1> USE DEF engineVars, ltVars, historyVars
<1>1. DoomInv /\ (User \/ Timers \/ Continuations) => DoomInv'
  <2>1. User \/ Timers \/ Continuations => UNCHANGED <<staged, listed, live, alerts, missed>>
    BY DEF User, OpenMagnet, Edit, Submit, SubmitRefused, Close, OpenFile, SubmitFile, AddDirect, Timers,
           DebounceFires, PollTimer, CheckPolls, TimeoutFires, ResultCheck, Continuations, BeginReturns,
           CheckReads, CheckTakesError
  <2> QED
    BY <2>1, DoomKept DEF Found, Staged
<1>2. DoomInv /\ UNCHANGED vars => DoomInv'
  BY DoomKept DEF vars, Found, Staged
<1>3. TypeInv /\ DoomInv /\ Worker => DoomInv'
  BY DoomCommand, DoomRound DEF Worker
<1> QED
  BY <1>1, <1>2, <1>3, DoomRound DEF Next

-----------------------------------------------------------------------------
(* The theorems about staged previews *)

\* A torrent staged and hidden is never forgotten: the controller remembers its preview, or the
\* command that ends it is in the queue, or its Finalize missed it and its removed alert, which
\* unstages it, is still to be handled.
THEOREM StagedKnown == Spec => []StagedIsKnown
<1>1. TypeInv /\ KnownInv /\ DoomInv => StagedIsKnown
  <2> SUFFICES ASSUME TypeInv, KnownInv, DoomInv, NEW h \in Hash, Staged(h), h \notin missed
               PROVE  hash = h \/ ClosingAfter(0, h)
    BY DEF StagedIsKnown, DoomInv
  <2>1. commands \in Seq(Command) /\ DOMAIN commands = 1 .. Len(commands) /\ \A j \in 1 .. Len(commands) : j > 0
    BY DEF TypeInv, TypeOK
  <2>2. Lasting[h] # Empty
    BY DEF Lasting, Staged, Empty
  <2> QED
    BY <2>1, <2>2 DEF KnownInv, Known, ClosingAfter
<1> QED
  BY <1>1, InitType, NextType, KnownInit, KnownNext, DoomInit, DoomNext, PTL DEF Spec

\* The engine never begins a preview that is staged, which it could only do by locking a mutex it
\* holds: between two commands that begin the preview of a torrent one always ends it, and ends
\* its staging unless it is a Finalize that comes upon a torrent already destroyed.
THEOREM NoSelfLock == Spec => []NeverSelfLocks
<1>1. TypeInv /\ KnownInv => NeverSelfLocks
  <2> SUFFICES ASSUME TypeInv, KnownInv, At("Begin"), Staged(Current), Current \notin missed
               PROVE  FALSE
    BY DEF NeverSelfLocks
  <2>1. commands \in Seq(Command) /\ Len(commands) \in Nat /\ 1 \in 1 .. Len(commands) /\ Head(commands) = commands[1]
    BY DEF TypeInv, TypeOK, At
  <2>2. commands[1] \in Command
    BY <2>1
  <2>3. Begins(commands[1], Current) /\ Current \in Hash
    BY <2>1, <2>2 DEF At, Begins, Current, Command
  <2>4. Lasting[Current] # Empty
    BY <2>3 DEF Lasting, Staged, Empty
  <2>5. PICK j \in 1 .. Len(commands) : j < 1
    BY <2>1, <2>3, <2>4 DEF KnownInv, Known
  <2> QED
    BY <2>5
<1> QED
  BY <1>1, InitType, NextType, KnownInit, KnownNext, PTL DEF Spec

-----------------------------------------------------------------------------
(* No preview loads for ever *)

\* The poll that may show a preview as loading runs under the timeout, or the preview lost it.
TimedInv == LoadingIsTimed /\ (polling => timing \/ spoiled)

\* A poll stops the poll, or leaves the timers alone.
LEMMA PollTimers ==
    ASSUME PollPreview
    PROVE  \/ status' = "ready" /\ polling' = FALSE
           \/ status' = status /\ polling' = FALSE /\ timing' = timing
           \/ status' \in {status, "loading"} /\ polling' = polling /\ timing' = timing
  BY DEF PollPreview, previewVars

LEMMA TimedNext == TimedInv /\ [Next]_vars => TimedInv'
<1> SUFFICES ASSUME TimedInv, [Next]_vars PROVE TimedInv'
  OBVIOUS
<1> USE DEF TimedInv, LoadingIsTimed, previewVars, historyVars
<1>1. CASE OpenMagnet \/ DebounceFires
  <2>1. UNCHANGED <<ui, previewVars, spoiled>> \/ \E h \in {field} : Load(h)
    BY <1>1 DEF OpenMagnet, DebounceFires
  <2>2. ASSUME NEW h, Load(h) PROVE TimedInv'
    BY <2>2 DEF Load, LoadRefused, LoadFails, Clear, Forget, LoadBegins
  <2> QED
    BY <2>1, <2>2
<1>2. CASE Submit \/ SubmitRefused \/ Close \/ SubmitFile
  BY <1>2 DEF Submit, Accept, SubmitRefused, Close, SubmitFile, Clear, Forget
<1>3. CASE \E u \in Id : Edit(u)
  BY <1>3 DEF Edit
<1>4. CASE \E h \in Hash : OpenFile(h) \/ AddDirect(h)
  BY <1>4 DEF OpenFile, AddDirect
<1>5. CASE PollTimer
  <2>1. ui = "free" /\ polling /\ UNCHANGED <<ui, spoiled>> /\ PollPreview
    BY <1>5 DEF PollTimer
  <2>2. timing \/ spoiled
    BY <2>1, Zenon
  <2> QED
    BY <2>1, <2>2, PollTimers, Zenon
<1>6. CASE CheckPolls
  <2>1. PollPreview /\ (spoiled => spoiled') /\ (status' = "loading" /\ ~timing => spoiled')
    BY <1>6, Zenon DEF CheckPolls
  <2>2. status' = "ready" => status' # "loading"
    OBVIOUS
  <2>3. status' = "loading" => timing' \/ spoiled'
    BY <2>1, <2>2, PollTimers, Zenon
  <2>4. polling' => timing' \/ spoiled'
    BY <2>1, PollTimers, Zenon
  <2> QED
    BY <2>3, <2>4, Zenon
<1>7. CASE TimeoutFires \/ ResultCheck
  <2>1. CASE TimeoutFires /\ status = "loading"
    BY <2>1 DEF TimeoutFires
  <2>2. CASE TimeoutFires /\ status # "loading"
    <3>1. spoiled' = (spoiled \/ polling) /\ UNCHANGED <<status, polling>>
      BY <2>2 DEF TimeoutFires
    <3>2. polling' => spoiled'
      BY <3>1, Zenon
    <3>3. status' # "loading"
      BY <2>2, <3>1
    <3> QED
      BY <3>2, <3>3, Zenon
  <2>3. CASE ResultCheck
    BY <2>3 DEF ResultCheck, uiVars
  <2> QED
    BY <1>7, <2>1, <2>2, <2>3
<1>8. CASE Continuations
  BY <1>8 DEF Continuations, BeginReturns, CheckReads, CheckTakesError
<1>9. CASE Worker
  BY <1>9 DEF Worker, TakeBatch, BeginFails, BeginReusesListed, BeginAdds, Finalize, Cancel, AddKnown, AddNew,
              PopAlerts, HandleAdded, HandleRemoved, RefreshAll, uiVars
<1>10. CASE Environment \/ UNCHANGED vars
  BY <1>10 DEF Environment, EngineError, MetadataArrives, vars, uiVars
<1> QED
  BY <1>1, <1>2, <1>3, <1>4, <1>5, <1>6, <1>7, <1>8, <1>9, <1>10 DEF Next, User, Timers

\* A preview that loads has its timeout running, unless an event that was not its own took it.
THEOREM LoadingTimed == Spec => []LoadingIsTimed
<1>1. Init => TimedInv
  BY DEF Init, TimedInv, LoadingIsTimed
<1>2. TimedInv => LoadingIsTimed
  BY DEF TimedInv
<1> QED
  BY <1>1, <1>2, TimedNext, PTL DEF Spec

=============================================================================
